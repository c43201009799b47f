--------------------------- MODULE Afu420_proofs ----------------------------
(***************************************************************************)
(* StreamHolds of module Afu420, for every pool of buffers, every number   *)
(* of transfers and every size of image: the inductive invariant afInv     *)
(* and its preservation by each step of the program, of libusb's event     *)
(* thread, of the deliver thread and of the consumer.                      *)
(***************************************************************************)
EXTENDS Afu420, WellFoundedInduction, TLAPS

-----------------------------------------------------------------------------
(* Afu420: the images of the AFU420 on their way from libusb to the sink.  *)

(* Buffers are numbered in the order of the pools they came with.          *)
Known == (IF afApp = "configured" THEN afStarts + 1 ELSE afStarts) * AfBuffers

FillType == [valid : Int, heads : Int, stale : BOOLEAN]
CallbackPcs == {"idle", "header", "push old", "next", "take", "current", "copy", "push new"}
ThreadPcs == {"none", "top", "deliver", "done"}
AppPcs == {"open", "configured", "submitted", "delivering", "sending", "on", "stop", "stop deliver",
           "join", "cancel", "release", "stopped", "closed"}

afTypes ==
  /\ is_stream_on_ \in BOOLEAN /\ superspeed \in BOOLEAN
  /\ \A b \in DOMAIN buffer_list_ : buffer_list_[b] \in BOOLEAN
  /\ current_buffer_ \in Nat /\ transfer_offset_ \in 0..ImageUnits
  /\ lost_countdown_ \in Int /\ lost_countdown_ <= LostCountdown /\ afFill \in FillType
  /\ afPending \in Nat /\ afCancelled \in Nat /\ afUnseen \in Nat
  /\ afCb \in [pc : CallbackPcs, head : BOOLEAN, short : BOOLEAN] /\ afApp \in AppPcs
  /\ afQueue \in Seq([b : Nat, fill : FillType, checked : BOOLEAN]) /\ afThread \in [pc : ThreadPcs, b : Nat] /\ afSink \subseteq Nat
  /\ afStarts \in Nat /\ afOverlap \in BOOLEAN

(* No buffer is numbered higher than those of the pools so far; a new pool *)
(* has none that somebody still holds.                                     *)
afNumbered ==
  /\ DOMAIN buffer_list_ \subseteq 1..Known /\ current_buffer_ <= Known
  /\ InHand \subseteq 1..Known

(* The deliver queue, its thread and the consumer hold different buffers,  *)
(* none of them queued for the camera.                                     *)
afHeldOnce ==
  /\ \A j, k \in DOMAIN afQueue : afQueue[j].b = afQueue[k].b => j = k
  /\ \A k \in DOMAIN afQueue : afQueue[k].b # NoBuffer /\ afQueue[k].b # afThread.b /\ afQueue[k].b \notin afSink
  /\ afThread.b \notin afSink /\ NoBuffer \notin afSink /\ (afThread.pc = "deliver" => afThread.b # NoBuffer)
  /\ \A b \in InHand \cap DOMAIN buffer_list_ : ~buffer_list_[b]

(* The buffer being filled is the callback's own, except between its push  *)
(* and the choice of the next one.                                         *)
afCurrentOwned ==
  (afUB = "none" /\ afCb.pc \notin {"next", "take"}) \/ afCb.pc \in {"current", "copy", "push new"} =>
    /\ current_buffer_ \notin InHand
    /\ current_buffer_ \in DOMAIN buffer_list_ => ~buffer_list_[current_buffer_]

(* What is filled began with one header and holds some of the image.       *)
afOneHeader ==
  /\ afCb.pc \in {"push old", "next", "take"} => afCb.head
  /\ afUB = "none" /\ current_buffer_ # NoBuffer =>
       /\ afCb.pc \in {"idle", "header", "push old", "push new"} => afFill.heads = 1 /\ afFill.valid \in 1..ImageUnits
       /\ afCb.pc \in {"current", "copy"} => afFill.heads = (IF afCb.head THEN 0 ELSE 1)

(* From the first submission to the end of stop_stream a callback finds    *)
(* the buffer and the list it has tested, and the transfers add up.        *)
Stopped == {"open", "stopped", "configured", "closed"}
Submitted == {"submitted", "delivering", "sending", "on", "stop", "stop deliver", "join", "cancel"}
Busy == IF afCb.pc = "idle" THEN 0 ELSE 1

afCounted ==
  afUB = "none" =>
    /\ afPending + afCancelled + afUnseen + Busy <= AfTransfers
    /\ afApp \in Submitted => afCancelled = 0 /\ afPending + afUnseen + Busy = AfTransfers

afRunning ==
  afUB = "none" =>
    /\ afApp \in Stopped /\ afCb.pc # "idle" => afOverlap
    /\ afApp \notin Stopped =>
         /\ afCb.pc \in {"push old", "copy"} => current_buffer_ # NoBuffer
         /\ afCb.pc = "take" => DOMAIN buffer_list_ # {}

afOn == is_stream_on_ => afApp = "on" /\ afUB = "none"

afInv ==
  /\ afTypes /\ afNumbered /\ afHeldOnce /\ afCurrentOwned /\ afOneHeader /\ afCounted /\ afRunning /\ afOn
  /\ DeliversWholeImages /\ UndefinedNeedsOverlap /\ afPending <= AfTransfers /\ afCancelled <= AfTransfers

(* A camera that has just been opened satisfies the invariant.             *)
LEMMA afInitInv == afInit => afInv
<1> SUFFICES ASSUME afInit PROVE afInv
  OBVIOUS
<1> USE AfuAssumption DEF afInit, NoBuffer, Empty, CbIdle, ThreadNone
<1>0. DOMAIN buffer_list_ = {} /\ InHand = {} /\ Known = 0 /\ Busy = 0
  BY DEF InHand, Known, Busy
<1>1. afTypes
  <2>1. is_stream_on_ \in BOOLEAN /\ superspeed \in BOOLEAN /\ afOverlap \in BOOLEAN
    BY Zenon
  <2>2. afFill \in FillType
    BY DEF FillType
  <2>3. afQueue \in Seq([b : Nat, fill : FillType, checked : BOOLEAN])
    OBVIOUS
  <2>4. afCb \in [pc : CallbackPcs, head : BOOLEAN, short : BOOLEAN] /\ afApp \in AppPcs
    BY DEF CallbackPcs, AppPcs
  <2> QED
    BY <1>0, <2>1, <2>2, <2>3, <2>4 DEF afTypes, ThreadPcs
<1>2. afNumbered /\ afHeldOnce /\ afCurrentOwned
  BY <1>0 DEF afNumbered, afHeldOnce, afCurrentOwned
<1>3. afOneHeader /\ afCounted /\ afRunning /\ afOn
  BY <1>0 DEF afOneHeader, afCounted, afRunning, afOn, Submitted, Stopped
<1> QED
  BY <1>1, <1>2, <1>3 DEF afInv, DeliversWholeImages, UndefinedNeedsOverlap

(* What a step changes that leaves the buffers where they are.             *)
Held == <<afQueue, afSink, afThread>>

(* Steps that leave every buffer where it is keep whole images whole.      *)
LEMMA HeldSame ==
  ASSUME UNCHANGED Held
  PROVE InHand' = InHand /\ (DeliversWholeImages => DeliversWholeImages')
  BY DEF Held, InHand, DeliversWholeImages

(* The buffers that were announced so far are counted by a number.         *)
LEMMA KnownNat == afTypes => Known \in Nat
<1> SUFFICES ASSUME afTypes PROVE Known \in Nat
  OBVIOUS
<1>1. AfBuffers \in Nat /\ afStarts \in Nat
  BY AfuAssumption DEF afTypes
<1> QED BY <1>1 DEF Known

(* The pool of this start is the next AfBuffers numbers.                   *)
LEMMA PoolNumbers ==
  ASSUME afTypes, afApp # "configured"
  PROVE /\ Known \in Nat
        /\ Pool = (Known + 1)..((afStarts + 1) * AfBuffers)
        /\ (afStarts + 1) * AfBuffers = Known + AfBuffers
<1>1. Known = afStarts * AfBuffers
  BY DEF Known
<1>2. AfBuffers \in Nat \ {0} /\ afStarts \in Nat
  BY AfuAssumption DEF afTypes
<1>3. afStarts * AfBuffers \in Nat /\ (afStarts + 1) * AfBuffers = afStarts * AfBuffers + AfBuffers
  BY <1>2
<1> DEFINE n == afStarts * AfBuffers
<1> HIDE DEF n
<1>4. n \in Nat /\ Pool = {n + k : k \in 1..AfBuffers}
  BY <1>3 DEF Pool, n
<1>5. \A b : b \in Pool <=> b \in (n + 1)..(n + AfBuffers)
  <2> SUFFICES ASSUME NEW b \in (n + 1)..(n + AfBuffers) PROVE b \in Pool
    BY <1>2, <1>4
  <2>1. b - n \in 1..AfBuffers /\ b = n + (b - n)
    BY <1>2, <1>4
  <2> QED
    BY <1>4, <2>1
<1> QED
  BY <1>1, <1>2, <1>3, <1>5, Zenon DEF n

(* initialize_buffers: a new pool is announced.                            *)
LEMMA ConfigureKeeps ==
  ASSUME afInv, afUB = "none", Configure
  PROVE afInv'
<1> USE DEF Configure, afUsb, afDeliver, afCounts, NoBuffer, initialize_buffers
<1>1. InHand' = InHand /\ DeliversWholeImages'
  BY HeldSame DEF Held, afInv
<1>2. /\ Known \in Nat /\ Known' = Known + AfBuffers
      /\ Pool = (Known + 1)..(Known + AfBuffers)
  BY PoolNumbers DEF Known, afInv
<1>3. afTypes'
  BY <1>2, Zenon DEF afInv, afTypes, AppPcs
<1>4. afNumbered'
  BY <1>1, <1>2, AfuAssumption DEF afInv, afNumbered, afTypes
<1>5. \A b \in InHand \cup {current_buffer_} : b \notin Pool
  BY <1>2 DEF afInv, afNumbered, afTypes
<1>6. afHeldOnce' /\ afCurrentOwned'
  BY <1>1, <1>5, Zenon DEF afInv, afHeldOnce, afCurrentOwned
<1>7. afOneHeader' /\ afCounted' /\ afRunning' /\ afOn'
  BY Zenon DEF afInv, afOneHeader, afCounted, afRunning, afOn, Submitted, Stopped, Busy
<1> QED
  BY <1>1, <1>3, <1>4, <1>6, <1>7 DEF afInv, UndefinedNeedsOverlap

(* Steps that leave the buffers and the callback's work where they are.    *)
Work == <<buffer_list_, current_buffer_, afFill, afCb, afUB>>

(* Steps that leave the callback's work and the buffers alone keep what is *)
(* said of them.                                                           *)
LEMMA WorkSame ==
  ASSUME afInv, UNCHANGED Work, UNCHANGED Held, Known' = Known
  PROVE afNumbered' /\ afHeldOnce' /\ afCurrentOwned' /\ afOneHeader' /\ DeliversWholeImages'
<1>1. InHand' = InHand /\ DeliversWholeImages'
  BY HeldSame DEF afInv
<1> QED
  BY <1>1, Zenon DEF afInv, afNumbered, afHeldOnce, afCurrentOwned, afOneHeader, Work, Held

(* start_stream, stop_stream and the destructor leave the buffers where    *)
(* they are, except for the queue that join clears.                        *)
LEMMA StartKeeps ==
  ASSUME afInv, afUB = "none", start_stream
  PROVE afInv'
<1> USE AfuAssumption
<1>1. CASE AppFrom("configured", "submitted")
  <2>0. /\ afApp = "configured" /\ afApp' = "submitted" /\ FreeTransfers
        /\ transfer_offset_' = 0 /\ afStarts' = afStarts + 1 /\ afCancelled' = 0
        /\ afPending' = (IF afCamera = "gone" THEN 0 ELSE AfTransfers)
        /\ afUnseen' = AfTransfers - afPending'
        /\ UNCHANGED <<is_stream_on_, superspeed, buffer_list_, current_buffer_, lost_countdown_, afFill, afCb>>
        /\ UNCHANGED Held
    BY <1>1 DEF start_stream, AppFrom, afDeliver, Held
  <2>1. InHand' = InHand /\ DeliversWholeImages' /\ Known' = Known
    BY <2>0, HeldSame DEF afInv, Known
  <2>a. afPending' \in 0..AfTransfers /\ afUnseen' \in Nat /\ afPending' + afUnseen' = AfTransfers
    BY <2>0
  <2>b. afOverlap' \in BOOLEAN /\ (afUB' = "none" => afCb.pc = "idle") /\ UndefinedNeedsOverlap'
    BY <2>0, Zenon DEF FreeTransfers, InFlight, UndefinedNeedsOverlap
  <2>2. afTypes'
    BY <2>0, <2>a, <2>b DEF afInv, afTypes, AppPcs, Held
  <2>3. afNumbered' /\ afHeldOnce'
    BY <2>0, <2>1 DEF afInv, afNumbered, afHeldOnce, Held
  <2>5. afCurrentOwned' /\ afOneHeader'
    BY <2>0, <2>1, <2>b, Zenon DEF afInv, afCurrentOwned, afOneHeader
  <2>6. afRunning' /\ afCounted' /\ afOn'
    <3>1. ~is_stream_on_'
      BY <2>0 DEF afInv, afOn
    <3>2. afUB' = "none" => Busy' = 0 /\ afCb'.pc = "idle"
      BY <2>0, <2>b DEF Busy
    <3>3. afCounted'
      BY <2>0, <2>a, <3>2 DEF afCounted
    <3>4. afRunning'
      BY <2>0, <3>2, Zenon DEF afRunning, Stopped
    <3> QED
      BY <3>1, <3>3, <3>4 DEF afOn
  <2> QED
    BY <2>0, <2>a, <2>b, <2>1, <2>2, <2>3, <2>5, <2>6 DEF afInv
<1>2. CASE AppFrom("submitted", "delivering")
  <2>0. /\ afApp = "submitted" /\ afApp' = "delivering" /\ afQueue' = afQueue
        /\ afThread' = [pc |-> "top", b |-> NoBuffer]
        /\ UNCHANGED <<afCore, afUsb, afSink, afCounts, afOverlap, afUB>>
    BY <1>2 DEF start_stream, AppFrom, deliver_start
  <2> USE <2>0 DEF afCore, afUsb, afCounts, NoBuffer
  <2>1. InHand' \subseteq InHand /\ DeliversWholeImages' /\ Known' = Known
    BY DEF afInv, InHand, DeliversWholeImages, Known
  <2>2. afTypes'
    BY DEF afInv, afTypes, AppPcs, ThreadPcs
  <2>3. afNumbered' /\ afHeldOnce' /\ afCurrentOwned'
    BY <2>1, Zenon DEF afInv, afNumbered, afHeldOnce, afCurrentOwned
  <2>4. afOneHeader' /\ afCounted' /\ afRunning' /\ afOn' /\ UndefinedNeedsOverlap'
    BY Zenon DEF afInv, afTypes, afOneHeader, afCounted, afRunning, afOn, Submitted, Stopped, Busy, UndefinedNeedsOverlap
  <2> QED
    BY <2>1, <2>2, <2>3, <2>4 DEF afInv
<1>3. CASE AppFrom("delivering", "sending") \/ AppFrom("delivering", "stop") \/ AppFrom("sending", "on")
  <2>0. /\ afApp \in {"delivering", "sending"} /\ afApp' \in {"sending", "stop", "on"}
        /\ UNCHANGED Held /\ UNCHANGED Work
        /\ UNCHANGED <<superspeed, transfer_offset_, lost_countdown_, afPending, afCancelled, afUnseen,
                       afStarts, afOverlap>>
    BY <1>3 DEF start_stream, AppFrom, Held, Work, afCore, afUsb, afDeliver, afCounts
  <2>1. is_stream_on_' \in BOOLEAN /\ (is_stream_on_' => afApp' = "on")
    <3>1. CASE AppFrom("sending", "on")
      <4>1. is_stream_on_' = TRUE /\ afApp' = "on"
        BY <3>1 DEF start_stream, AppFrom
      <4> QED BY <4>1
    <3>2. CASE ~AppFrom("sending", "on")
      <4>1. UNCHANGED is_stream_on_ /\ afApp # "on"
        BY <1>3, <3>2 DEF start_stream, AppFrom, afCore
      <4> QED BY <4>1 DEF afInv, afTypes, afOn
    <3> QED BY <3>1, <3>2
  <2>2. Known' = Known
    BY <2>0 DEF Known
  <2>3. afTypes'
    BY <2>0, <2>1, Zenon DEF afInv, afTypes, AppPcs, Held, Work
  <2>4. afCounted' /\ afRunning' /\ afOn' /\ UndefinedNeedsOverlap'
    BY <2>0, <2>1, Zenon DEF afInv, afTypes, afCounted, afRunning, afOn, Submitted, Stopped, Busy, UndefinedNeedsOverlap, Work
  <2> QED
    BY <2>0, <2>2, <2>3, <2>4, WorkSame DEF afInv
<1> QED
  BY <1>1, <1>2, <1>3 DEF start_stream

(* stop_stream cancels what is pending and waits.                          *)
LEMMA StopKeeps ==
  ASSUME afInv, afUB = "none", stop_stream
  PROVE afInv'
<1>1. CASE afApp \in {"on", "stop"} \/ AppFrom("stop deliver", "join")
  <2>0. /\ afApp \in {"on", "stop", "stop deliver"} /\ afApp' \in {"stop deliver", "join"}
        /\ UNCHANGED Held /\ UNCHANGED Work
        /\ UNCHANGED <<superspeed, transfer_offset_, lost_countdown_, afPending, afCancelled, afUnseen,
                       afStarts, afOverlap>>
    BY <1>1, Zenon DEF stop_stream, AppFrom, Held, Work, afCore, afUsb, afDeliver, afCounts, deliver_end
  <2>1. is_stream_on_' \in BOOLEAN /\ ~is_stream_on_'
    <3>1. CASE afApp \in {"on", "stop"}
      <4>1. is_stream_on_' = FALSE
        BY <3>1, Zenon DEF stop_stream, AppFrom
      <4> QED BY <4>1, Zenon
    <3>2. CASE AppFrom("stop deliver", "join")
      <4>1. UNCHANGED is_stream_on_ /\ afApp # "on"
        BY <3>2, Zenon DEF stop_stream, AppFrom, afCore
      <4> QED BY <4>1 DEF afInv, afTypes, afOn
    <3> QED BY <1>1, <3>1, <3>2, Zenon
  <2>2. Known' = Known
    BY <2>0, Zenon DEF Known
  <2>3. afTypes'
    BY <2>0, <2>1, Zenon DEF afInv, afTypes, AppPcs, Held, Work
  <2>4. afCounted' /\ afRunning' /\ afOn' /\ UndefinedNeedsOverlap'
    BY <2>0, <2>1, Zenon DEF afInv, afTypes, afCounted, afRunning, afOn, Submitted, Stopped, Busy, UndefinedNeedsOverlap, Work
  <2> QED
    BY <2>0, <2>2, <2>3, <2>4, WorkSame, Zenon DEF afInv
<1>2. CASE AppFrom("join", "cancel")
  <2>0. /\ afApp = "join" /\ afApp' = "cancel" /\ afQueue' = <<>> /\ afThread' = ThreadNone
        /\ UNCHANGED <<afCore, afUsb, afSink, afCounts, afOverlap, afUB>>
    BY <1>2 DEF stop_stream, AppFrom, deliver_join
  <2> USE <2>0 DEF afCore, afUsb, afCounts, NoBuffer, ThreadNone
  <2>1. InHand' \subseteq InHand /\ DeliversWholeImages' /\ Known' = Known
    <3>1. InHand' \subseteq InHand
      BY DEF InHand
    <3>2. DeliversWholeImages'
      BY DEF DeliversWholeImages
    <3>3. Known' = Known
      BY DEF Known
    <3> QED BY <3>1, <3>2, <3>3
  <2>2. afTypes'
    BY DEF afInv, afTypes, AppPcs, ThreadPcs
  <2>a. DOMAIN afQueue' = {} /\ afThread'.b = 0
    OBVIOUS
  <2>3. afNumbered' /\ afHeldOnce' /\ afCurrentOwned'
    BY <2>a, <2>1, Zenon DEF afInv, afNumbered, afHeldOnce, afCurrentOwned
  <2>4. afOneHeader' /\ afCounted' /\ afRunning' /\ afOn' /\ UndefinedNeedsOverlap'
    BY Zenon DEF afInv, afTypes, afOneHeader, afCounted, afRunning, afOn, Submitted, Stopped, Busy, UndefinedNeedsOverlap
  <2> QED
    BY <2>1, <2>2, <2>3, <2>4 DEF afInv
<1>3. CASE AppFrom("cancel", "release")
  <2>0. /\ afApp = "cancel" /\ afApp' = "release" /\ UNCHANGED Held /\ UNCHANGED Work
        /\ afPending' = 0 /\ afCancelled' = afCancelled + afPending
        /\ UNCHANGED <<is_stream_on_, superspeed, transfer_offset_, lost_countdown_, afUnseen, afStarts, afOverlap>>
    BY <1>3 DEF stop_stream, AppFrom, Held, Work, afCore, afDeliver, afCounts
  <2>2. Known' = Known
    BY <2>0 DEF Known
  <2>3. afTypes'
    BY <2>0 DEF afInv, afTypes, AppPcs, Held, Work
  <2>4. Busy \in Nat /\ Busy' = Busy /\ afUB' = "none"
    BY <2>0 DEF Busy, Work
  <2>5. afCounted' /\ afPending' <= AfTransfers /\ afCancelled' <= AfTransfers
    BY <2>0, <2>4, AfuAssumption DEF afInv, afTypes, afCounted, Submitted
  <2>6. afRunning' /\ afOn' /\ UndefinedNeedsOverlap'
    BY <2>0, <2>4, Zenon DEF afInv, afRunning, afOn, Stopped, UndefinedNeedsOverlap, Work
  <2> QED
    BY <2>0, <2>2, <2>3, <2>5, <2>6, WorkSame DEF afInv
<1>4. CASE AppFrom("release", "stopped")
  <2>0. /\ afApp = "release" /\ afApp' = "stopped" /\ UNCHANGED Held
        /\ buffer_list_' = <<>> /\ current_buffer_' = NoBuffer
        /\ afOverlap' = (afOverlap \/ afCb.pc # "idle")
        /\ UNCHANGED <<is_stream_on_, superspeed, transfer_offset_, lost_countdown_, afFill, afUsb, afCounts, afUB>>
    BY <1>4 DEF stop_stream, AppFrom, release_buffers, Held, afDeliver
  <2> USE <2>0 DEF afUsb, afCounts, NoBuffer
  <2>1. InHand' = InHand /\ DeliversWholeImages' /\ Known' = Known /\ DOMAIN buffer_list_' = {} /\ Known \in Nat
    BY HeldSame, AfuAssumption DEF afInv, afTypes, Known
  <2>2. afOverlap' \in BOOLEAN /\ (afOverlap' <=> afOverlap \/ afCb.pc # "idle")
    BY <2>0, Zenon
  <2>3. afTypes'
    BY <2>1, <2>2 DEF afInv, afTypes, AppPcs, Held
  <2>4. afNumbered' /\ afHeldOnce' /\ afOneHeader'
    <3>1. afNumbered'
      BY <2>1 DEF afInv, afNumbered
    <3>2. afHeldOnce'
      BY <2>1 DEF afInv, afHeldOnce, Held
    <3>3. afOneHeader'
      BY Zenon DEF afInv, afOneHeader
    <3> QED BY <3>1, <3>2, <3>3
  <2>5. 0 \notin InHand
    BY <2>1 DEF afInv, afNumbered
  <2>6. afCurrentOwned'
    BY <2>1, <2>5, Zenon DEF afCurrentOwned
  <2>7. afCounted' /\ afRunning' /\ afOn' /\ UndefinedNeedsOverlap'
    BY <2>2, Zenon DEF afInv, afTypes, afCounted, afRunning, afOn, Submitted, Stopped, Busy, UndefinedNeedsOverlap
  <2> QED
    BY <2>1, <2>3, <2>4, <2>6, <2>7 DEF afInv
<1> QED
  BY <1>1, <1>2, <1>3, <1>4, Zenon DEF stop_stream

(* The destructor of the device.                                           *)
LEMMA CloseKeeps ==
  ASSUME afInv, afUB = "none", Close
  PROVE afInv'
<1> USE DEF Close, afCore, afUsb, afDeliver, afCounts
<1>1. afOverlap' \in BOOLEAN /\ (afUB' = "none" => afCb.pc = "idle") /\ UndefinedNeedsOverlap'
  BY Zenon DEF FreeTransfers, InFlight, UndefinedNeedsOverlap
<1>2. InHand' = InHand /\ DeliversWholeImages' /\ Known' = Known
  BY HeldSame DEF Held, afInv, Known
<1>3. afTypes'
  BY <1>1, Zenon DEF afInv, afTypes, AppPcs
<1>4. afNumbered' /\ afHeldOnce' /\ afCurrentOwned' /\ afOneHeader'
  BY <1>2, Zenon DEF afInv, afNumbered, afHeldOnce, afCurrentOwned, afOneHeader
<1>5. afCounted' /\ afRunning' /\ afOn'
  BY <1>1, Zenon DEF afInv, afTypes, afCounted, afRunning, afOn, Submitted, Stopped, Busy
<1> QED
  BY <1>1, <1>2, <1>3, <1>4, <1>5 DEF afInv

(* A transfer that moves between pending, unseen and the callback is still *)
(* counted once.                                                           *)
LEMMA CountedSame ==
  ASSUME afInv, afUB = "none", afApp' = afApp,
         afPending' \in Int, afUnseen' \in Int, afCancelled' \in Int, Busy' \in Int, Busy \in Int,
         afPending' >= 0, afUnseen' >= 0, afCancelled' >= 0, Busy' >= 0,
         afPending' + afUnseen' + Busy' = afPending + afUnseen + Busy, afCancelled' <= afCancelled
  PROVE afCounted' /\ afPending' <= AfTransfers /\ afCancelled' <= AfTransfers
<1>1. /\ afPending + afCancelled + afUnseen + Busy <= AfTransfers
      /\ afApp \in Submitted => afCancelled = 0 /\ afPending + afUnseen + Busy = AfTransfers
  BY DEF afInv, afCounted
<1>2. afPending \in Int /\ afUnseen \in Int /\ afCancelled \in Int /\ AfTransfers \in Int
  BY AfuAssumption DEF afInv, afTypes
<1>3. PICK p, c, u, w, n, p1, c1, u1, w1 \in Int :
        /\ p = afPending /\ c = afCancelled /\ u = afUnseen /\ w = Busy /\ n = AfTransfers
        /\ p1 = afPending' /\ c1 = afCancelled' /\ u1 = afUnseen' /\ w1 = Busy'
  BY <1>2
<1>a. /\ p + c + u + w <= n /\ p1 + u1 + w1 = p + u + w
      /\ p1 >= 0 /\ c1 >= 0 /\ u1 >= 0 /\ w1 >= 0 /\ c1 <= c
  BY <1>1, <1>3, Zenon
<1>b. afApp \in Submitted => c = 0 /\ p + u + w = n
  BY <1>1, <1>3
<1>4. p1 + c1 + u1 + w1 <= n /\ p1 <= n /\ c1 <= n
  BY <1>a
<1>5. afApp \in Submitted => c1 = 0 /\ p1 + u1 + w1 = n
  BY <1>a, <1>b
<1> QED
  BY <1>3, <1>4, <1>5, Zenon DEF afCounted

(* The events of libusb: a transfer leaves libusb for the callback, for    *)
(* nobody, or comes back at once.                                          *)
LEMMA DoneKeeps ==
  ASSUME afInv, afUB = "none", NEW head \in BOOLEAN, NEW short \in BOOLEAN, TransferDone(head, short)
  PROVE afInv'
<1> USE DEF TransferDone, afCore, afDeliver
<1>1. InHand' = InHand /\ DeliversWholeImages' /\ Known' = Known
  BY HeldSame DEF Held, afInv, Known
<1>2. afPending' \in Nat /\ afUnseen' \in Nat /\ afPending' + 1 = afPending
  BY DEF afInv, afTypes
<1>3. afCb' \in [pc : CallbackPcs, head : BOOLEAN, short : BOOLEAN] /\ afCb'.pc \in {"idle", "header"}
  <2>1. CASE is_stream_on_
    <3>1. afCb' = [pc |-> "header", head |-> head, short |-> short]
      BY <2>1
    <3> QED BY <3>1 DEF CallbackPcs
  <2>2. CASE ~is_stream_on_
    BY <2>2 DEF afInv, afTypes
  <2> QED BY <2>1, <2>2
<1>4. afTypes'
  BY <1>2, <1>3 DEF afInv, afTypes
<1>5. afNumbered' /\ afHeldOnce' /\ afCurrentOwned' /\ afOneHeader'
  BY <1>1, <1>3, Zenon DEF afInv, afNumbered, afHeldOnce, afCurrentOwned, afOneHeader
<1>6. Busy = 0 /\ afUnseen' + Busy' = afUnseen + 1 /\ Busy' \in Nat
  BY DEF Busy, afInv, afTypes
<1>7. afCounted' /\ afPending' <= AfTransfers
  <2>1. afApp' = afApp /\ afCancelled' = afCancelled
    OBVIOUS
  <2>2. afCancelled \in Int /\ afPending \in Int /\ afUnseen \in Int /\ afCancelled >= 0
    BY DEF afInv, afTypes
  <2>3. /\ afPending' \in Int /\ afUnseen' \in Int /\ Busy \in Int /\ Busy' \in Int
        /\ afPending' >= 0 /\ afUnseen' >= 0 /\ Busy' >= 0
    BY <1>2, <1>6
  <2> HIDE DEF TransferDone
  <2>4. afPending' + afUnseen' + Busy' = afPending + afUnseen + Busy
    <3>1. afPending' + 1 = afPending /\ afUnseen' + Busy' = afUnseen + 1 /\ Busy = 0
      BY <1>2, <1>6
    <3>2. PICK p, u, p1, u1, w1 \in Int :
            p = afPending /\ u = afUnseen /\ p1 = afPending' /\ u1 = afUnseen' /\ w1 = Busy'
      BY <2>2, <2>3
    <3>a. p1 + 1 = p /\ u1 + w1 = u + 1
      BY <3>1, <3>2, Zenon
    <3>3. p1 + u1 + w1 = p + u + 0
      BY <3>a
    <3> QED BY <3>1, <3>2, <3>3, Zenon
  <2> QED
    BY <2>1, <2>2, <2>3, <2>4, CountedSame
<1>8. afRunning' /\ afOn' /\ UndefinedNeedsOverlap'
  BY <1>3, Zenon DEF afInv, afRunning, afOn, UndefinedNeedsOverlap, Stopped
<1> QED
  BY <1>1, <1>4, <1>5, <1>7, <1>8 DEF afInv

(* transfer_callback with a status other than completed.                   *)
LEMMA ErrorKeeps ==
  ASSUME afInv, afUB = "none", TransferError
  PROVE afInv'
<1> USE DEF TransferError, afDeliver
<1>1. UNCHANGED Work /\ UNCHANGED Held /\ Known' = Known
  BY DEF Work, Held, Known
<1>2. /\ afPending' \in Nat /\ afUnseen' \in Nat /\ afPending' <= afPending
      /\ afPending' + afUnseen' = afPending + afUnseen
      /\ lost_countdown_' \in Int /\ lost_countdown_' <= lost_countdown_
  BY SMTT(30) DEF afInv, afTypes
<1>3. afTypes'
  BY <1>2, AfuAssumption DEF afInv, afTypes
<1>4. Busy = 0 /\ Busy' = 0
  BY DEF Busy
<1>5. afCounted' /\ afPending' <= AfTransfers
  <2>1. afApp' = afApp /\ afCancelled' = afCancelled /\ afCancelled \in Nat
    BY DEF afInv, afTypes
  <2> HIDE DEF TransferError
  <2> QED
    BY <1>2, <1>4, <2>1, CountedSame
<1>6. afRunning' /\ afOn' /\ UndefinedNeedsOverlap'
  BY Zenon DEF afInv, afRunning, afOn, UndefinedNeedsOverlap
<1> QED
  BY <1>1, <1>3, <1>5, <1>6, WorkSame DEF afInv

(* A cancelled transfer, or the camera is unplugged: no image is touched.  *)
LEMMA QuietKeeps ==
  ASSUME afInv, afUB = "none", TransferCancelled \/ Unplug
  PROVE afInv'
<1>1. /\ UNCHANGED <<afCore, afPending, afUnseen, afCb, afApp, afDeliver, afSink, afCounts, afOverlap, afUB>>
      /\ afCancelled' \in Nat /\ afCancelled' <= afCancelled
  BY DEF TransferCancelled, Unplug, afInv, afTypes
<1> USE <1>1 DEF afCore, afDeliver, afCounts
<1>2. UNCHANGED Work /\ UNCHANGED Held /\ Known' = Known
  BY DEF Work, Held, Known
<1>3. afTypes'
  BY DEF afInv, afTypes
<1>4. Busy' = Busy /\ Busy \in Nat
  BY DEF Busy
<1>5. afCounted' /\ afCancelled' <= AfTransfers
  BY <1>3, <1>4, CountedSame DEF afTypes
<1>6. afRunning' /\ afOn' /\ UndefinedNeedsOverlap'
  BY Zenon DEF afInv, afRunning, afOn, UndefinedNeedsOverlap
<1> QED
  BY <1>2, <1>3, <1>5, <1>6, WorkSame DEF afInv

(* What a sequence holds is of its type.                                   *)
LEMMA ElementOfSeq ==
  ASSUME NEW S, NEW q \in Seq(S), NEW i \in 1..Len(q)
  PROVE q[i] \in S
  OBVIOUS

(* The deliver thread and the consumer.                                    *)
LEMMA DeliverKeeps ==
  ASSUME afInv, afUB = "none", Deliver
  PROVE afInv'
<1> USE DEF Deliver, afCore, afUsb, afCounts, NoBuffer
<1>1. /\ afQueue' \in Seq([b : Nat, fill : FillType, checked : BOOLEAN]) /\ afThread' \in [pc : ThreadPcs, b : Nat] /\ afSink' \subseteq Nat
      /\ InHand' \subseteq InHand /\ DeliversWholeImages'
      /\ \A j, k \in DOMAIN afQueue' : afQueue'[j].b = afQueue'[k].b => j = k
      /\ \A k \in DOMAIN afQueue' : afQueue'[k].b # 0 /\ afQueue'[k].b # afThread'.b /\ afQueue'[k].b \notin afSink'
      /\ afThread'.b \notin afSink' /\ 0 \notin afSink' /\ (afThread'.pc = "deliver" => afThread'.b # 0)
  <2> USE DEF thread_main, ThreadPcs
  <2>1. CASE afThread.pc = "top" /\ end_thread_
    BY <2>1 DEF afInv, afTypes, afHeldOnce, InHand, DeliversWholeImages
  <2>2. CASE afThread.pc = "top" /\ ~end_thread_
    <3>1. /\ afQueue # <<>> /\ afQueue' = Tail(afQueue) /\ afThread' = [pc |-> "deliver", b |-> afQueue[1].b]
          /\ afSink' = afSink
      BY <2>2
    <3>2. afQueue' \in Seq([b : Nat, fill : FillType, checked : BOOLEAN]) /\ 1 \in DOMAIN afQueue
      BY <3>1 DEF afInv, afTypes
    <3>3. \A k \in DOMAIN afQueue' : k + 1 \in DOMAIN afQueue /\ afQueue'[k] = afQueue[k + 1]
      BY <3>1 DEF afInv, afTypes
    <3>4. InHand' \subseteq InHand
      BY <3>1, <3>2, <3>3 DEF InHand
    <3>5. DeliversWholeImages'
      BY <3>3 DEF afInv, DeliversWholeImages
    <3>6. \A j \in DOMAIN afQueue' : j \in Nat /\ j + 1 # 1
      BY <3>2
    <3>7. afThread' \in [pc : ThreadPcs, b : Nat]
      <4>1. afQueue[1] \in [b : Nat, fill : FillType, checked : BOOLEAN]
        <5>1. afQueue \in Seq([b : Nat, fill : FillType, checked : BOOLEAN]) /\ 1 \in 1..Len(afQueue)
          BY <3>2 DEF afInv, afTypes
        <5> QED BY <5>1, ElementOfSeq, Zenon
      <4> QED BY <3>1, <4>1
    <3>8. \A j, k \in DOMAIN afQueue' : afQueue'[j].b = afQueue'[k].b => j = k
      <4>1. \A j, k \in DOMAIN afQueue : afQueue[j].b = afQueue[k].b => j = k
        BY DEF afInv, afHeldOnce
      <4>2. \A j, k \in DOMAIN afQueue' : j + 1 = k + 1 => j = k
        BY <3>2
      <4> QED BY <3>3, <4>1, <4>2
    <3>9. \A k \in DOMAIN afQueue' : afQueue'[k].b # 0 /\ afQueue'[k].b # afThread'.b /\ afQueue'[k].b \notin afSink'
      BY <3>1, <3>2, <3>3, <3>6 DEF afInv, afHeldOnce
    <3>10. afThread'.b \notin afSink' /\ 0 \notin afSink' /\ afSink' \subseteq Nat /\ afThread'.b # 0
      BY <3>1, <3>2 DEF afInv, afTypes, afHeldOnce
    <3> QED
      BY <3>2, <3>4, <3>5, <3>7, <3>8, <3>9, <3>10
  <2>3. CASE afThread.pc = "deliver"
    <3>1. afThread' = [pc |-> "top", b |-> 0] /\ afSink' = afSink \cup {afThread.b} /\ afQueue' = afQueue
      BY <2>3
    <3> QED
      BY <3>1 DEF afInv, afTypes, afHeldOnce, InHand, DeliversWholeImages
  <2> QED
    BY <2>1, <2>2, <2>3
<1>2. afTypes'
  BY <1>1 DEF afInv, afTypes
<1>3. Known' = Known
  BY DEF Known
<1>4. afNumbered' /\ afHeldOnce' /\ afCurrentOwned' /\ afOneHeader'
  BY <1>1, <1>3, Zenon DEF afInv, afNumbered, afHeldOnce, afCurrentOwned, afOneHeader
<1>5. afCounted' /\ afRunning' /\ afOn' /\ UndefinedNeedsOverlap'
  BY Zenon DEF afInv, afCounted, afRunning, afOn, UndefinedNeedsOverlap, Busy
<1> QED
  BY <1>1, <1>2, <1>4, <1>5 DEF afInv

(* requeue_buffer: the consumer gives an image back.                       *)
LEMMA ReturnKeeps ==
  ASSUME afInv, afUB = "none", NEW b \in afSink, Return(b)
  PROVE afInv'
<1> USE DEF Return, afUsb, afDeliver, afCounts, NoBuffer
<1>1. /\ DOMAIN buffer_list_' = DOMAIN buffer_list_
      /\ \A x \in DOMAIN buffer_list_ : buffer_list_'[x] = IF x = b THEN TRUE ELSE buffer_list_[x]
  BY Zenon DEF requeue_buffer
<1>2. InHand' = InHand \ {b} /\ b \in InHand /\ DeliversWholeImages' /\ Known' = Known
  BY DEF InHand, afInv, afTypes, afHeldOnce, DeliversWholeImages, Known
<1>3. afTypes'
  BY <1>1, Zenon DEF afInv, afTypes
<1>4. afNumbered' /\ afHeldOnce'
  BY <1>1, <1>2, Zenon DEF afInv, afNumbered, afHeldOnce
<1>5. afCurrentOwned' /\ afOneHeader'
  BY <1>1, <1>2, Zenon DEF afInv, afCurrentOwned, afOneHeader
<1>6. afCounted' /\ afRunning' /\ afOn' /\ UndefinedNeedsOverlap'
  BY <1>1, Zenon DEF afInv, afCounted, afRunning, afOn, UndefinedNeedsOverlap, Busy
<1> QED
  BY <1>2, <1>3, <1>4, <1>5, <1>6 DEF afInv

(* The deliver queue after one more image.                                 *)
Buffers(q) == {q[k].b : k \in DOMAIN q}
Distinct(q) == \A j, k \in DOMAIN q : q[j].b = q[k].b => j = k

(* An image that is queued is in the queue, once, with the others.         *)
LEMMA OneMoreImage ==
  ASSUME NEW q \in Seq([b : Nat, fill : FillType, checked : BOOLEAN]), NEW e \in [b : Nat, fill : FillType, checked : BOOLEAN],
         e.b \notin Buffers(q), Distinct(q)
  PROVE /\ Append(q, e) \in Seq([b : Nat, fill : FillType, checked : BOOLEAN])
        /\ Buffers(Append(q, e)) = Buffers(q) \cup {e.b} /\ Distinct(Append(q, e))
        /\ \A k \in DOMAIN Append(q, e) : Append(q, e)[k] = e \/ \E j \in DOMAIN q : Append(q, e)[k] = q[j]
<1>1. PICK r : r = Append(q, e)
  BY Zenon
<1>2. /\ Len(q) \in Nat /\ DOMAIN q = 1..Len(q) /\ DOMAIN r = 1..(Len(q) + 1)
      /\ \A k \in 1..Len(q) : r[k] = q[k]
      /\ r[Len(q) + 1] = e /\ r \in Seq([b : Nat, fill : FillType, checked : BOOLEAN])
  BY <1>1
<1>3. PICK n : n = Len(q) + 1
  OBVIOUS
<1>4. /\ n \in DOMAIN r /\ n \notin DOMAIN q /\ \A k \in DOMAIN r : k \in DOMAIN q \/ k = n
      /\ \A k \in DOMAIN q : k \in DOMAIN r
  BY <1>2, <1>3
<1>5. r[n] = e /\ \A k \in DOMAIN q : r[k] = q[k]
  BY <1>2, <1>3
<1>6. Buffers(r) = Buffers(q) \cup {e.b}
  BY <1>4, <1>5, SMTT(30) DEF Buffers
<1>7. Distinct(r)
  BY <1>4, <1>5, SMTT(30) DEF Buffers, Distinct
<1> QED
  BY <1>1, <1>2, <1>4, <1>5, <1>6, <1>7

(* The steps of the callback.                                              *)
CallbackFrame ==
  UNCHANGED <<is_stream_on_, superspeed, afCancelled, afApp, afThread, afSink, afStarts, afOverlap>>

(* The callback submits its transfer again and returns: the count is kept. *)
LEMMA Leaving ==
  ASSUME afInv, afUB = "none", afCb.pc # "idle", CallbackFrame, Leave
  PROVE /\ afCounted' /\ afPending' <= AfTransfers /\ afCancelled' <= AfTransfers
        /\ afPending' \in Nat /\ afUnseen' \in Nat
        /\ afCb' = CbIdle /\ afCb' \in [pc : CallbackPcs, head : BOOLEAN, short : BOOLEAN]
<1>1. afCb' = CbIdle /\ afCb' \in [pc : CallbackPcs, head : BOOLEAN, short : BOOLEAN]
  BY DEF Leave, CbIdle, CallbackPcs
<1>2. Busy = 1 /\ Busy' = 0 /\ Busy \in Int /\ Busy' \in Int /\ Busy' >= 0
  BY <1>1 DEF Busy, CbIdle
<1>3. afPending' \in Nat /\ afUnseen' \in Nat /\ afPending \in Nat /\ afUnseen \in Nat
  BY DEF afInv, afTypes, Leave, submit_transfer
<1>4. \/ afPending' = afPending /\ afUnseen' = afUnseen + 1
      \/ afPending' = afPending + 1 /\ afUnseen' = afUnseen
  BY DEF Leave, submit_transfer
<1>5. afPending' + afUnseen' + Busy' = afPending + afUnseen + Busy
  <2>1. afPending' + afUnseen' + 0 = afPending + afUnseen + 1
    <3>1. CASE afPending' = afPending /\ afUnseen' = afUnseen + 1
      BY <1>3, <3>1
    <3>2. CASE afPending' = afPending + 1 /\ afUnseen' = afUnseen
      BY <1>3, <3>2
    <3> QED BY <1>4, <3>1, <3>2
  <2> QED BY <1>2, <2>1
<1>6. /\ afPending' \in Int /\ afUnseen' \in Int /\ afCancelled' \in Int
      /\ afPending' >= 0 /\ afUnseen' >= 0 /\ afCancelled' >= 0 /\ afCancelled' <= afCancelled /\ afApp' = afApp
  BY <1>3 DEF CallbackFrame, afInv, afTypes
<1> QED
  BY <1>1, <1>2, <1>3, <1>5, <1>6, CountedSame

(* The callback goes on to its next part: the count is kept.               *)
LEMMA Going ==
  ASSUME afInv, afUB = "none", afUB' = afUB, afCb.pc # "idle", CallbackFrame,
         NEW pc \in CallbackPcs \ {"idle"}, GoTo(pc)
  PROVE /\ afCounted' /\ afPending' <= AfTransfers /\ afCancelled' <= AfTransfers
        /\ afPending' \in Nat /\ afUnseen' \in Nat
        /\ afCb' \in [pc : CallbackPcs, head : BOOLEAN, short : BOOLEAN]
        /\ afCb'.pc = pc /\ afCb'.head = afCb.head
<1>1. /\ afCb' \in [pc : CallbackPcs, head : BOOLEAN, short : BOOLEAN] /\ afCb'.pc = pc /\ afCb'.head = afCb.head
  BY DEF afInv, afTypes, GoTo
<1>2. Busy = 1 /\ Busy' = 1
  BY <1>1 DEF Busy
<1>3. UNCHANGED <<afPending, afUnseen, afCancelled, afApp, Busy>>
  BY <1>2 DEF GoTo, CallbackFrame
<1> QED
  BY <1>1, <1>3 DEF afInv, afTypes, afCounted

(* A buffer that is cleared away under the callback: only after a stop     *)
(* that it outlived.                                                       *)
LEMMA UndefinedKeeps ==
  ASSUME afInv, afUB = "none", CallbackFrame, NEW what, what # "none", Undefined(what),
         \/ afCb.pc \in {"push old", "copy"} /\ current_buffer_ = NoBuffer
         \/ afCb.pc = "take" /\ DOMAIN buffer_list_ = {}
  PROVE afInv'
<1> USE DEF Undefined, CallbackFrame
<1>1. InHand' = InHand /\ DeliversWholeImages' /\ Known' = Known
  BY HeldSame, Zenon DEF Held, afInv, Known
<1>2. /\ afCb' \in [pc : CallbackPcs, head : BOOLEAN, short : BOOLEAN] /\ afCb'.pc = "idle"
      /\ UNCHANGED <<afPending, afUnseen>>
  BY Zenon DEF afInv, afTypes, GoTo, CallbackPcs
<1>3. afOverlap /\ afApp \in Stopped
  BY Zenon DEF afInv, afRunning, UndefinedNeedsOverlap
<1>4. afTypes'
  BY <1>2, Zenon DEF afInv, afTypes
<1>5. afNumbered' /\ afHeldOnce' /\ afCurrentOwned' /\ afOneHeader'
  BY <1>1, <1>2, Zenon DEF afInv, afNumbered, afHeldOnce, afCurrentOwned, afOneHeader
<1>6. afCounted' /\ afRunning' /\ UndefinedNeedsOverlap'
  BY <1>3, Zenon DEF afCounted, afRunning, UndefinedNeedsOverlap
<1>7. afOn'
  BY <1>3, Zenon DEF afInv, afOn, Stopped
<1> QED
  BY <1>1, <1>2, <1>4, <1>5, <1>6, <1>7, Zenon DEF afInv

(* What push_buffer does to the queue and the list, for the buffer that    *)
(* was being filled.                                                       *)
LEMMA PushKeeps ==
  ASSUME afInv, afUB = "none", CallbackFrame, afCb.pc \in {"push old", "push new"},
         current_buffer_ # NoBuffer, push_buffer(current_buffer_)
  PROVE /\ DOMAIN buffer_list_' = DOMAIN buffer_list_
        /\ \A b \in DOMAIN buffer_list_ : buffer_list_'[b] \in BOOLEAN
        /\ afQueue' \in Seq([b : Nat, fill : FillType, checked : BOOLEAN])
        /\ InHand' \subseteq InHand \cup {current_buffer_}
        /\ afHeldOnce' /\ DeliversWholeImages'
<1> USE DEF CallbackFrame, NoBuffer
<1>1. current_buffer_ \notin InHand /\ current_buffer_ \in Nat \ {0} /\ afFill \in FillType /\ afFill.heads = 1
      /\ afFill.valid \in 1..ImageUnits
  BY Zenon DEF afInv, afTypes, afCurrentOwned, afOneHeader
<1>2. CASE afQueue' = afQueue /\ buffer_list_' = requeue_buffer(buffer_list_, current_buffer_)
  <2>1. /\ DOMAIN buffer_list_' = DOMAIN buffer_list_
        /\ \A x \in DOMAIN buffer_list_ : buffer_list_'[x] = IF x = current_buffer_ THEN TRUE ELSE buffer_list_[x]
    BY <1>2, Zenon DEF requeue_buffer
  <2>2. InHand' = InHand /\ DeliversWholeImages'
    BY <1>2, HeldSame, Zenon DEF Held, afInv
  <2>3. afHeldOnce'
    BY <1>1, <1>2, <2>1, <2>2, Zenon DEF afInv, afHeldOnce
  <2> QED
    BY <1>2, <2>1, <2>2, <2>3, Zenon DEF afInv, afTypes
<1>3. ASSUME NEW drop \in BOOLEAN, ~drop \/ afFill.valid = ImageUnits, buffer_list_' = buffer_list_,
             afQueue' = Append(afQueue, [b |-> current_buffer_, fill |-> afFill, checked |-> drop])
      PROVE  /\ DOMAIN buffer_list_' = DOMAIN buffer_list_
             /\ \A b \in DOMAIN buffer_list_ : buffer_list_'[b] \in BOOLEAN
             /\ afQueue' \in Seq([b : Nat, fill : FillType, checked : BOOLEAN])
             /\ InHand' \subseteq InHand \cup {current_buffer_}
             /\ afHeldOnce' /\ DeliversWholeImages'
  <2> DEFINE e == [b |-> current_buffer_, fill |-> afFill, checked |-> drop]
  <2>1. /\ afQueue \in Seq([b : Nat, fill : FillType, checked : BOOLEAN]) /\ e \in [b : Nat, fill : FillType, checked : BOOLEAN]
        /\ e.b = current_buffer_ /\ e.fill = afFill /\ e.checked = drop
        /\ current_buffer_ \notin Buffers(afQueue) /\ Distinct(afQueue)
    BY <1>1, Zenon DEF afInv, afTypes, afHeldOnce, Buffers, Distinct, InHand
  <2> HIDE DEF e
  <2>2. /\ afQueue' \in Seq([b : Nat, fill : FillType, checked : BOOLEAN])
        /\ Buffers(afQueue') = Buffers(afQueue) \cup {current_buffer_} /\ Distinct(afQueue')
        /\ \A k \in DOMAIN afQueue' : afQueue'[k] = e \/ \E j \in DOMAIN afQueue : afQueue'[k] = afQueue[j]
    <3>1. afQueue' = Append(afQueue, e)
      BY <1>3, Zenon DEF e
    <3> QED
      <4>1. e.b \notin Buffers(afQueue)
        BY <2>1, Zenon
      <4>2. /\ Append(afQueue, e) \in Seq([b : Nat, fill : FillType, checked : BOOLEAN])
            /\ Buffers(Append(afQueue, e)) = Buffers(afQueue) \cup {e.b} /\ Distinct(Append(afQueue, e))
            /\ \A k \in DOMAIN Append(afQueue, e) :
                 Append(afQueue, e)[k] = e \/ \E j \in DOMAIN afQueue : Append(afQueue, e)[k] = afQueue[j]
        BY <2>1, <4>1, OneMoreImage, Zenon
      <4> QED BY <2>1, <3>1, <4>2, Zenon
  <2>3. InHand' = InHand \cup {current_buffer_}
    BY <2>2, Zenon DEF InHand, Buffers
  <2>4. DeliversWholeImages'
    <3>1. /\ e.fill.valid = ImageUnits \/ (~e.checked /\ e.fill.valid \in 1..ImageUnits)
          /\ e.fill.heads = 1
      BY <1>1, <1>3, <2>1, Zenon
    <3> QED
      BY <2>2, <3>1, Zenon DEF afInv, DeliversWholeImages
  <2>5. current_buffer_ # afThread.b /\ current_buffer_ \notin afSink
    BY <1>1, Zenon DEF InHand
  <2>6. \A k \in DOMAIN afQueue' : afQueue'[k].b # 0 /\ afQueue'[k].b # afThread.b /\ afQueue'[k].b \notin afSink
    <3>1. e.b # 0 /\ e.b # afThread.b /\ e.b \notin afSink
      BY <1>1, <2>1, <2>5, Zenon
    <3> QED
      BY <2>2, <3>1, Zenon DEF afInv, afHeldOnce
  <2>7. \A b \in InHand' \cap DOMAIN buffer_list_' : ~buffer_list_'[b]
    BY <1>3, <2>3, Zenon DEF afInv, afHeldOnce, afCurrentOwned
  <2>8. afHeldOnce'
    BY <2>2, <2>6, <2>7, Zenon DEF afInv, afHeldOnce, Distinct
  <2> QED
    BY <1>3, <2>2, <2>3, <2>4, <2>8, Zenon DEF afInv, afTypes
<1>4. PICK drop \in BOOLEAN :
        \/ afQueue' = afQueue /\ buffer_list_' = requeue_buffer(buffer_list_, current_buffer_)
        \/ /\ ~drop \/ afFill.valid = ImageUnits
           /\ buffer_list_' = buffer_list_
           /\ afQueue' = Append(afQueue, [b |-> current_buffer_, fill |-> afFill, checked |-> drop])
  BY Zenon DEF push_buffer
<1> QED
  BY <1>2, <1>3, <1>4, Zenon

(* The smallest of some natural numbers.                                   *)
LEMMA MinOfNaturals ==
  ASSUME NEW S \in SUBSET Nat, S # {}
  PROVE  Min(S) \in S /\ \A y \in S : Min(S) <= y
<1> DEFINE R == OpToRel(<, Nat)
<1>1. IsWellFoundedOn(R, Nat)
  BY NatLessThanWellFounded, Zenon
<1>2. \E x \in S : \A y \in S : <<y, x>> \notin R
  <2> HIDE DEF R
  <2> QED BY <1>1, WFMin, Zenon
<1>3. \A x, y \in S : <<y, x>> \notin R => x <= y
  BY DEF OpToRel
<1>4. \E x \in S : \A y \in S : x <= y
  BY <1>2, <1>3, Zenon
<1> QED BY <1>4, Zenon DEF Min

(* transfer_callback looks at the header.                                  *)
LEMMA HeaderKeeps ==
  ASSUME afInv, afUB = "none", CallbackFrame, Header
  PROVE afInv'
<1> USE DEF Header, NoBuffer
<1> DEFINE to == IF ~afCb.head THEN "current" ELSE IF current_buffer_ # 0 THEN "push old" ELSE "next"
<1>1. /\ afCounted' /\ afPending' <= AfTransfers /\ afCancelled' <= AfTransfers
      /\ afPending' \in Nat /\ afUnseen' \in Nat
      /\ afCb' \in [pc : CallbackPcs, head : BOOLEAN, short : BOOLEAN] /\ afCb'.pc = to /\ afCb'.head = afCb.head
  <2>1. to \in CallbackPcs \ {"idle"} /\ GoTo(to) /\ afUB' = afUB
    BY Zenon DEF CallbackPcs
  <2> HIDE DEF to
  <2> QED BY <2>1, Going, Zenon
<1>2. InHand' = InHand /\ DeliversWholeImages' /\ Known' = Known
  BY HeldSame, Zenon DEF Held, afInv, CallbackFrame, Known
<1>3. afTypes'
  BY <1>1, Zenon DEF afInv, afTypes, CallbackFrame
<1>4. afNumbered' /\ afHeldOnce' /\ afCurrentOwned'
  BY <1>2, Zenon DEF afInv, afNumbered, afHeldOnce, afCurrentOwned, CallbackFrame
<1>5. afOneHeader' /\ afRunning' /\ afOn' /\ UndefinedNeedsOverlap'
  BY <1>1, Zenon DEF afInv, afOneHeader, afRunning, afOn, UndefinedNeedsOverlap, CallbackFrame
<1> QED
  BY <1>1, <1>2, <1>3, <1>4, <1>5, Zenon DEF afInv

(* A new header: the image that was under way is pushed.                   *)
LEMMA PushOldKeeps ==
  ASSUME afInv, afUB = "none", CallbackFrame, PushOld
  PROVE afInv'
<1> USE DEF PushOld
<1>1. CASE current_buffer_ = NoBuffer
  BY <1>1, UndefinedKeeps, Zenon
<1>2. CASE current_buffer_ # NoBuffer
  <2> USE <1>2
  <2>1. /\ afCounted' /\ afPending' <= AfTransfers /\ afCancelled' <= AfTransfers
        /\ afPending' \in Nat /\ afUnseen' \in Nat
        /\ afCb' \in [pc : CallbackPcs, head : BOOLEAN, short : BOOLEAN] /\ afCb'.pc = "next" /\ afCb'.head = afCb.head
    <3>1. "next" \in CallbackPcs \ {"idle"} /\ GoTo("next") /\ afUB' = afUB
      BY Zenon DEF CallbackPcs
    <3> QED BY <3>1, Going, Zenon
  <2>2. /\ DOMAIN buffer_list_' = DOMAIN buffer_list_
        /\ \A b \in DOMAIN buffer_list_ : buffer_list_'[b] \in BOOLEAN
        /\ afQueue' \in Seq([b : Nat, fill : FillType, checked : BOOLEAN])
        /\ InHand' \subseteq InHand \cup {current_buffer_}
        /\ afHeldOnce' /\ DeliversWholeImages'
    BY PushKeeps, Zenon
  <2>3. UNCHANGED <<current_buffer_, transfer_offset_, lost_countdown_, afFill, afUB>> /\ Known' = Known
    BY Zenon DEF Known, CallbackFrame
  <2>4. afTypes'
    BY <2>1, <2>2, <2>3, Zenon DEF afInv, afTypes, CallbackFrame
  <2>5. afNumbered'
    <3>1. current_buffer_ \in 1..Known
      <4>1. Known \in Nat
        BY KnownNat, Zenon DEF afInv
      <4>2. current_buffer_ \in Nat /\ current_buffer_ # 0 /\ current_buffer_ <= Known
        BY Zenon DEF afInv, afTypes, afNumbered, NoBuffer
      <4> HIDE DEF PushOld
      <4> QED BY <4>1, <4>2
    <3> QED BY <2>2, <2>3, <3>1, Zenon DEF afInv, afNumbered
  <2>6. afCurrentOwned' /\ afOneHeader'
    BY <2>1, Zenon DEF afInv, afCurrentOwned, afOneHeader
  <2>7. afRunning' /\ afOn' /\ UndefinedNeedsOverlap'
    BY <2>1, <2>3, Zenon DEF afInv, afRunning, afOn, UndefinedNeedsOverlap, CallbackFrame
  <2> QED
    BY <2>1, <2>2, <2>4, <2>5, <2>6, <2>7, Zenon DEF afInv
<1> QED
  BY <1>1, <1>2, Zenon

(* get_next_buffer: the next free buffer is looked for.                    *)
LEMMA NextKeeps ==
  ASSUME afInv, afUB = "none", CallbackFrame, Next1
  PROVE afInv'
<1> USE DEF Next1
<1>1. /\ afCounted' /\ afPending' <= AfTransfers /\ afCancelled' <= AfTransfers
      /\ afPending' \in Nat /\ afUnseen' \in Nat
      /\ afCb' \in [pc : CallbackPcs, head : BOOLEAN, short : BOOLEAN]
      /\ \/ afCb'.pc = "take" /\ afCb'.head = afCb.head /\ DOMAIN buffer_list_ # {} /\ current_buffer_' = current_buffer_
         \/ afCb'.pc = "idle" /\ current_buffer_' = NoBuffer
  <2>1. CASE DOMAIN buffer_list_ # {}
    <3>1. "take" \in CallbackPcs \ {"idle"} /\ GoTo("take") /\ afUB' = afUB /\ current_buffer_' = current_buffer_
      BY <2>1 DEF CallbackPcs
    <3> QED BY <2>1, <3>1, Going
  <2>2. CASE DOMAIN buffer_list_ = {}
    BY <2>2, Leaving DEF CbIdle
  <2> QED BY <2>1, <2>2
<1>2. InHand' = InHand /\ DeliversWholeImages' /\ Known' = Known
  BY HeldSame DEF Held, afInv, CallbackFrame, Known
<1>3. 0 \notin InHand /\ 0 \notin DOMAIN buffer_list_ /\ Known \in Nat
  BY KnownNat DEF afInv, afNumbered
<1>4. afTypes'
  BY <1>1 DEF afInv, afTypes, CallbackFrame, NoBuffer
<1>5. afNumbered' /\ afHeldOnce'
  BY <1>1, <1>2, <1>3 DEF afInv, afNumbered, afHeldOnce, CallbackFrame, NoBuffer
<1>6. afCurrentOwned'
  BY <1>1, <1>2, <1>3, Zenon DEF afCurrentOwned, NoBuffer
<1>7. afOneHeader' /\ afRunning' /\ afOn' /\ UndefinedNeedsOverlap'
  BY <1>1, Zenon DEF afInv, afOneHeader, afRunning, afOn, UndefinedNeedsOverlap, CallbackFrame
<1> QED
  BY <1>1, <1>2, <1>4, <1>5, <1>6, <1>7 DEF afInv

(* get_next_buffer chooses a queued buffer, or none.                       *)
LEMMA NextIsQueued ==
  ASSUME afInv, NEW b, b = get_next_buffer(buffer_list_)
  PROVE b = NoBuffer \/ (b \in DOMAIN buffer_list_ /\ buffer_list_[b] /\ b \in 1..Known)
<1> DEFINE queued == {x \in DOMAIN buffer_list_ : buffer_list_[x]}
<1>1. queued \in SUBSET Nat /\ queued \subseteq 1..Known
  BY KnownNat DEF afInv, afNumbered
<1>2. queued # {} => Min(queued) \in queued
  BY <1>1, MinOfNaturals
<1>3. b = IF queued = {} THEN NoBuffer ELSE Min(queued)
  BY DEF get_next_buffer
<1> QED
  BY <1>1, <1>2, <1>3

(* The free buffer becomes the current one.                                *)
LEMMA TakeKeeps ==
  ASSUME afInv, afUB = "none", CallbackFrame, Take
  PROVE afInv'
<1> USE DEF Take
<1>1. CASE DOMAIN buffer_list_ = {}
  BY <1>1, UndefinedKeeps, Zenon
<1>2. CASE DOMAIN buffer_list_ # {}
  <2> USE <1>2
  <2>1. PICK b : /\ b = get_next_buffer(buffer_list_) /\ current_buffer_' = b
                 /\ b = NoBuffer => Leave /\ UNCHANGED <<buffer_list_, transfer_offset_, afFill>>
                 /\ b # NoBuffer => /\ GoTo("current") /\ transfer_offset_' = 0 /\ afFill' = Empty
                                    /\ buffer_list_' = [buffer_list_ EXCEPT ![b] = FALSE]
                 /\ UNCHANGED <<lost_countdown_, afQueue, afUB>>
    BY Zenon
  <2> HIDE DEF Take
  <2>2. b = NoBuffer \/ (b \in DOMAIN buffer_list_ /\ buffer_list_[b] /\ b \in 1..Known)
    BY <2>1, NextIsQueued
  <2>3. afCb.pc = "take"
    BY Zenon DEF Take
  <2>4. InHand' = InHand /\ DeliversWholeImages' /\ Known' = Known
    BY <2>1, HeldSame DEF Held, afInv, CallbackFrame, Known
  <2>5. 0 \notin InHand /\ 0 \notin DOMAIN buffer_list_ /\ Known \in Nat
    BY KnownNat DEF afInv, afNumbered
  <2>6. CASE b = NoBuffer
    <3>1. /\ afCounted' /\ afPending' <= AfTransfers /\ afCancelled' <= AfTransfers
          /\ afPending' \in Nat /\ afUnseen' \in Nat
          /\ afCb' \in [pc : CallbackPcs, head : BOOLEAN, short : BOOLEAN] /\ afCb'.pc = "idle"
      BY <2>1, <2>3, <2>6, Leaving DEF CbIdle
    <3>2. afTypes'
      BY <2>1, <2>6, <3>1 DEF afInv, afTypes, CallbackFrame, NoBuffer
    <3>a. current_buffer_' = 0 /\ UNCHANGED <<buffer_list_, afQueue, afUB>>
      BY <2>1, <2>6 DEF NoBuffer
    <3>b. afNumbered'
      BY <2>4, <2>5, <3>a DEF afInv, afNumbered
    <3>c. afHeldOnce'
      BY <2>4, <3>a, Zenon DEF afInv, afHeldOnce, CallbackFrame
    <3>3. afNumbered' /\ afHeldOnce' /\ afCurrentOwned'
      BY <2>4, <2>5, <3>a, <3>b, <3>c, Zenon DEF afCurrentOwned
    <3>4. afOneHeader' /\ afRunning' /\ afOn' /\ UndefinedNeedsOverlap'
      BY <2>1, <2>6, <3>1, Zenon DEF afInv, afOneHeader, afRunning, afOn, UndefinedNeedsOverlap, CallbackFrame
    <3> QED
      BY <2>4, <3>1, <3>2, <3>3, <3>4 DEF afInv
  <2>7. CASE b # NoBuffer
    <3>1. /\ afCounted' /\ afPending' <= AfTransfers /\ afCancelled' <= AfTransfers
          /\ afPending' \in Nat /\ afUnseen' \in Nat
          /\ afCb' \in [pc : CallbackPcs, head : BOOLEAN, short : BOOLEAN]
          /\ afCb'.pc = "current" /\ afCb'.head = afCb.head /\ afCb.head
      <4>1. "current" \in CallbackPcs \ {"idle"}
        BY DEF CallbackPcs
      <4>2. afCb.head
        BY <2>3 DEF afInv, afOneHeader
      <4> QED BY <2>1, <2>3, <2>7, <4>1, <4>2, Going, Zenon
    <3>2. b \in DOMAIN buffer_list_ /\ buffer_list_[b] /\ b \in 1..Known /\ b \notin InHand
      BY <2>2, <2>7 DEF afInv, afHeldOnce
    <3>3. /\ DOMAIN buffer_list_' = DOMAIN buffer_list_ /\ ~buffer_list_'[b]
          /\ \A x \in DOMAIN buffer_list_ : buffer_list_'[x] = IF x = b THEN FALSE ELSE buffer_list_[x]
      BY <2>1, <2>7, <3>2, Zenon
    <3>4. transfer_offset_' \in 0..ImageUnits /\ afFill' \in FillType /\ afFill'.heads = 0
      <4>1. afFill' = [valid |-> 0, heads |-> 0, stale |-> FALSE] /\ transfer_offset_' = 0
        BY <2>1, <2>7 DEF Empty
      <4>2. afFill' \in FillType /\ afFill'.heads = 0
        BY <4>1 DEF FillType
      <4> QED BY <4>1, <4>2, AfuAssumption
    <3>5. afTypes'
      <4>1. current_buffer_' \in Nat
        BY <2>1, <2>5, <3>2
      <4>2. \A x \in DOMAIN buffer_list_' : buffer_list_'[x] \in BOOLEAN
        BY <3>3, Zenon DEF afInv, afTypes
      <4> QED BY <2>1, <3>1, <3>4, <4>1, <4>2 DEF afInv, afTypes, CallbackFrame
    <3>6. afNumbered' /\ afHeldOnce'
      BY <2>1, <2>4, <2>5, <3>2, <3>3 DEF afInv, afNumbered, afHeldOnce, CallbackFrame
    <3>7. afCurrentOwned' /\ afOneHeader'
      BY <2>1, <2>4, <3>1, <3>2, <3>3, <3>4 DEF afCurrentOwned, afOneHeader
    <3>8. afRunning' /\ afOn' /\ UndefinedNeedsOverlap'
      BY <2>1, <2>3, <3>1 DEF afInv, afRunning, afOn, UndefinedNeedsOverlap, CallbackFrame
    <3> QED
      BY <2>4, <3>1, <3>5, <3>6, <3>7, <3>8 DEF afInv
  <2> QED
    BY <2>6, <2>7
<1> QED
  BY <1>1, <1>2, Zenon

(* Without a current buffer the data is dropped.                           *)
LEMMA CurrentKeeps ==
  ASSUME afInv, afUB = "none", CallbackFrame, Current
  PROVE afInv'
<1> USE DEF Current
<1>1. /\ afCounted' /\ afPending' <= AfTransfers /\ afCancelled' <= AfTransfers
      /\ afPending' \in Nat /\ afUnseen' \in Nat
      /\ afCb' \in [pc : CallbackPcs, head : BOOLEAN, short : BOOLEAN]
      /\ \/ afCb'.pc = "copy" /\ afCb'.head = afCb.head /\ current_buffer_ # NoBuffer
         \/ afCb'.pc = "idle" /\ current_buffer_ = NoBuffer
  <2>1. CASE current_buffer_ # NoBuffer
    <3>1. "copy" \in CallbackPcs \ {"idle"} /\ GoTo("copy") /\ afUB' = afUB
      BY <2>1 DEF CallbackPcs
    <3> QED BY <2>1, <3>1, Going
  <2>2. CASE current_buffer_ = NoBuffer
    BY <2>2, Leaving DEF CbIdle
  <2> QED BY <2>1, <2>2
<1>2. InHand' = InHand /\ DeliversWholeImages' /\ Known' = Known
  BY HeldSame DEF Held, afInv, CallbackFrame, Known
<1>3. afTypes'
  BY <1>1 DEF afInv, afTypes, CallbackFrame
<1>4. afNumbered' /\ afHeldOnce' /\ afCurrentOwned'
  BY <1>1, <1>2, Zenon DEF afInv, afNumbered, afHeldOnce, afCurrentOwned, CallbackFrame
<1>5. afOneHeader' /\ afRunning' /\ afOn' /\ UndefinedNeedsOverlap'
  BY <1>1, Zenon DEF afInv, afOneHeader, afRunning, afOn, UndefinedNeedsOverlap, CallbackFrame
<1> QED
  BY <1>1, <1>2, <1>3, <1>4, <1>5 DEF afInv

(* What is copied fits: the offset never exceeds the size of an image, and *)
(* is not zero any more.                                                   *)
LEMMA CopyFits ==
  ASSUME afInv, NEW size \in Nat \ {0}
  PROVE transfer_offset_ + bytes_to_copy(size) \in 1..ImageUnits
<1>1. transfer_offset_ \in 0..ImageUnits /\ ImageUnits \in Nat \ {0}
  BY AfuAssumption DEF afInv, afTypes
<1> DEFINE left == ImageUnits - transfer_offset_
<1>2. left \in Nat
  BY <1>1
<1>3. Min({left, size}) \in {left, size} /\ Min({left, size}) <= left
  BY <1>2, MinOfNaturals
<1> QED
  BY <1>1, <1>2, <1>3 DEF bytes_to_copy

(* The data of a transfer is appended to the current image.                *)
LEMMA CopyKeeps ==
  ASSUME afInv, afUB = "none", CallbackFrame, Copy
  PROVE afInv'
<1>1. CASE current_buffer_ = NoBuffer
  BY <1>1, UndefinedKeeps, Zenon DEF Copy
<1>2. CASE current_buffer_ # NoBuffer
  <2> DEFINE size == IF afCb.head THEN HeadUnits ELSE FullUnits
             offset == transfer_offset_ + bytes_to_copy(size)
             heads == afFill.heads + (IF afCb.head THEN 1 ELSE 0)
  <2>1. /\ afCb.pc = "copy"
        /\ afFill' = [valid |-> offset, heads |-> heads, stale |-> afFill.stale \/ afCb.short]
        /\ transfer_offset_' = offset
        /\ \/ GoTo("push new") /\ UNCHANGED lost_countdown_
           \/ Leave /\ lost_countdown_' = LostCountdown
        /\ UNCHANGED <<buffer_list_, current_buffer_, afQueue, afUB>>
    BY <1>2, Zenon DEF Copy
  <2>2. offset \in 1..ImageUnits
    <3>1. size \in Nat \ {0}
      BY AfuAssumption
    <3> QED BY <3>1, CopyFits
  <2>3. heads = 1
    <3>1. afFill.heads = (IF afCb.head THEN 0 ELSE 1)
      BY <1>2, <2>1, Zenon DEF afInv, afOneHeader
    <3> QED BY <3>1
  <2>4. afFill' \in FillType /\ afFill'.heads = 1 /\ afFill'.valid \in 1..ImageUnits /\ transfer_offset_' \in 0..ImageUnits
    <3> HIDE DEF offset, heads
    <3>1. (afFill.stale \/ afCb.short) \in BOOLEAN
      OBVIOUS
    <3>2. offset \in Int
      BY <2>2
    <3>3. PICK stale \in BOOLEAN : afFill' = [valid |-> offset, heads |-> 1, stale |-> stale]
      BY <2>1, <2>3, <3>1, Zenon
    <3>4. afFill' \in FillType /\ afFill'.heads = 1 /\ afFill'.valid = offset
      BY <3>2, <3>3 DEF FillType
    <3>5. offset \in 0..ImageUnits
      BY <2>2
    <3> QED BY <2>1, <2>2, <3>4, <3>5, Zenon
  <2> HIDE DEF offset, heads
  <2>5. lost_countdown_' \in Int /\ lost_countdown_' <= LostCountdown
    <3>1. lost_countdown_' = lost_countdown_ \/ lost_countdown_' = LostCountdown
      BY <2>1, Zenon
    <3>2. LostCountdown \in Int
      BY AfuAssumption
    <3> QED BY <3>1, <3>2 DEF afInv, afTypes
  <2>6. /\ afCounted' /\ afPending' <= AfTransfers /\ afCancelled' <= AfTransfers
        /\ afPending' \in Nat /\ afUnseen' \in Nat
        /\ afCb' \in [pc : CallbackPcs, head : BOOLEAN, short : BOOLEAN]
        /\ afCb'.pc \in {"push new", "idle"}
    <3>1. CASE Leave
      <4>1. afCb.pc # "idle"
        BY <2>1, Zenon
      <4>2. afCb' = CbIdle => afCb'.pc \in {"push new", "idle"}
        BY DEF CbIdle
      <4> QED BY <3>1, <4>1, <4>2, Leaving, Zenon
    <3>2. CASE GoTo("push new")
      <4>1. "push new" \in CallbackPcs \ {"idle"}
        BY DEF CallbackPcs
      <4> QED BY <2>1, <3>2, <4>1, Going, Zenon
    <3> QED BY <2>1, <3>1, <3>2, Zenon
  <2>7. InHand' = InHand /\ DeliversWholeImages' /\ Known' = Known
    BY <2>1, HeldSame, Zenon DEF Held, afInv, CallbackFrame, Known
  <2>8. afTypes'
    BY <2>1, <2>4, <2>5, <2>6, Zenon DEF afInv, afTypes, CallbackFrame
  <2>9. afNumbered' /\ afHeldOnce' /\ afCurrentOwned'
    BY <2>1, <2>6, <2>7, Zenon DEF afInv, afNumbered, afHeldOnce, afCurrentOwned, CallbackFrame
  <2>10. afOneHeader'
    BY <2>4, <2>6, Zenon DEF afOneHeader
  <2>11. afRunning' /\ afOn' /\ UndefinedNeedsOverlap'
    BY <2>1, <2>6, Zenon DEF afInv, afRunning, afOn, UndefinedNeedsOverlap, CallbackFrame
  <2> QED
    BY <2>6, <2>7, <2>8, <2>9, <2>10, <2>11, Zenon DEF afInv
<1> QED
  BY <1>1, <1>2

(* An image that is complete is pushed at once.                            *)
LEMMA PushNewKeeps ==
  ASSUME afInv, afUB = "none", CallbackFrame, PushNew
  PROVE afInv'
<1>0. /\ afCb.pc = "push new" /\ current_buffer_' = 0 /\ transfer_offset_' = 0 /\ lost_countdown_' = LostCountdown
      /\ Leave /\ UNCHANGED <<afFill, afUB>>
  BY Zenon DEF PushNew, NoBuffer
<1>1. /\ afCounted' /\ afPending' <= AfTransfers /\ afCancelled' <= AfTransfers
      /\ afPending' \in Nat /\ afUnseen' \in Nat
      /\ afCb' \in [pc : CallbackPcs, head : BOOLEAN, short : BOOLEAN] /\ afCb'.pc = "idle"
  <2>1. afCb.pc # "idle" /\ Leave
    BY <1>0, Zenon
  <2> QED BY <2>1, Leaving DEF CbIdle
<1>2. Known' = Known /\ Known \in Nat
  BY KnownNat DEF afInv, CallbackFrame, Known
<1>3. /\ DOMAIN buffer_list_' = DOMAIN buffer_list_
      /\ \A b \in DOMAIN buffer_list_ : buffer_list_'[b] \in BOOLEAN
      /\ afQueue' \in Seq([b : Nat, fill : FillType, checked : BOOLEAN])
      /\ InHand' \subseteq 1..Known
      /\ afHeldOnce' /\ DeliversWholeImages'
  <2>1. CASE current_buffer_ = NoBuffer
    <3>1. UNCHANGED <<buffer_list_, afQueue>>
      BY <2>1, Zenon DEF PushNew
    <3>2. InHand' = InHand /\ DeliversWholeImages'
      BY <3>1, HeldSame DEF Held, afInv, CallbackFrame
    <3> QED
      BY <3>1, <3>2, Zenon DEF afInv, afTypes, afNumbered, afHeldOnce, CallbackFrame
  <2>2. CASE current_buffer_ # NoBuffer
    <3>1. push_buffer(current_buffer_)
      BY <2>2, Zenon DEF PushNew
    <3>2. current_buffer_ \in 1..Known
      BY <1>2, <2>2 DEF afInv, afTypes, afNumbered, NoBuffer
    <3> QED
      BY <1>0, <2>2, <3>1, <3>2, PushKeeps, Zenon DEF afInv, afNumbered
  <2> QED BY <2>1, <2>2
<1>4. afTypes'
  <2>1. /\ transfer_offset_' \in 0..ImageUnits /\ current_buffer_' \in Nat
        /\ lost_countdown_' \in Int /\ lost_countdown_' <= LostCountdown
    <3>1. ImageUnits \in Nat /\ LostCountdown \in Nat
      BY AfuAssumption
    <3>2. current_buffer_' = 0 /\ transfer_offset_' = 0 /\ lost_countdown_' = LostCountdown
      BY <1>0, Zenon
    <3>3. 0 \in 0..ImageUnits /\ 0 \in Nat /\ LostCountdown \in Int /\ LostCountdown <= LostCountdown
      BY <3>1
    <3> QED BY <3>2, <3>3
  <2>2. afFill' = afFill
    BY <1>0, Zenon
  <2> QED BY <1>1, <1>3, <2>1, <2>2 DEF afInv, afTypes, CallbackFrame
<1>5. afNumbered'
  <2>1. DOMAIN buffer_list_' \subseteq 1..Known
    BY <1>3 DEF afInv, afNumbered
  <2>2. current_buffer_' <= Known
    <3>1. \A n \in Nat : 0 <= n
      OBVIOUS
    <3>2. current_buffer_' = 0
      BY <1>0, Zenon
    <3> QED BY <1>2, <3>1, <3>2
  <2> QED BY <1>2, <1>3, <2>1, <2>2 DEF afNumbered
<1>6. afCurrentOwned' /\ afOneHeader'
  <2>1. 0 \notin InHand' /\ 0 \notin DOMAIN buffer_list_'
    BY <1>2, <1>3, <1>5 DEF afNumbered
  <2> QED BY <1>0, <1>1, <2>1, Zenon DEF afCurrentOwned, afOneHeader, NoBuffer
<1>7. afRunning' /\ afOn' /\ UndefinedNeedsOverlap'
  BY <1>0, <1>1, Zenon DEF afInv, afRunning, afOn, UndefinedNeedsOverlap, CallbackFrame
<1> QED
  BY <1>1, <1>3, <1>4, <1>5, <1>6, <1>7, Zenon DEF afInv

(* Every step of every thread preserves the invariant.                     *)
LEMMA afNextInv == afInv /\ [afNext]_afVars => afInv'
<1> SUFFICES ASSUME afInv, [afNext]_afVars PROVE afInv'
  OBVIOUS
<1>1. CASE UNCHANGED afVars
  <2> USE <1>1 DEF afVars, afCore, afUsb, afDeliver, afCounts
  <2>1. UNCHANGED Work /\ UNCHANGED Held /\ Known' = Known
    BY DEF Work, Held, Known
  <2>2. afTypes' /\ afCounted' /\ afRunning' /\ afOn' /\ UndefinedNeedsOverlap'
    BY Zenon DEF afInv, afTypes, afCounted, afRunning, afOn, UndefinedNeedsOverlap, Busy
  <2> QED BY <2>1, <2>2, WorkSame, Zenon DEF afInv
<1>2. CASE afNext
  <2> USE <1>2
  <2>0. afUB = "none"
    BY DEF afNext, afEnded
  <2>1. CASE afProgram
    BY <2>0, <2>1, ConfigureKeeps, StartKeeps, StopKeeps, CloseKeeps DEF afProgram
  <2>2. CASE afEvents \/ Unplug
    BY <2>0, <2>2, QuietKeeps, ErrorKeeps, DoneKeeps DEF afEvents
  <2>3. CASE TransferCallback
    <3>1. CallbackFrame
      BY <2>3 DEF TransferCallback, CallbackFrame
    <3> QED
      BY <2>0, <2>3, <3>1, HeaderKeeps, PushOldKeeps, NextKeeps, TakeKeeps, CurrentKeeps, CopyKeeps, PushNewKeeps
         DEF TransferCallback
  <2>4. CASE Deliver \/ \E b \in afSink : Return(b)
    BY <2>0, <2>4, DeliverKeeps, ReturnKeeps
  <2> QED
    BY <2>1, <2>2, <2>3, <2>4 DEF afNext
<1> QED
  BY <1>1, <1>2

(* The invariant implies what the run checks.                              *)
LEMMA afInvHolds == afInv => StreamHolds
<1> SUFFICES ASSUME afInv PROVE StreamHolds
  OBVIOUS
<1>1. afTypeOK
  BY AfuAssumption DEF afInv, afTypes, afTypeOK
<1>2. FillsItsOwn
  <2>1. IsInjective([k \in DOMAIN afQueue |-> afQueue[k].b])
    BY DEF afInv, afHeldOnce, IsInjective
  <2>2. afCb.pc \in {"current", "copy", "push new"} => current_buffer_ \notin InHand
    BY Zenon DEF afInv, afCurrentOwned
  <2> QED BY <2>1, <2>2, Zenon DEF afInv, afHeldOnce, FillsItsOwn
<1>3. NoTransferIsLost
  <2>1. is_stream_on_ => afPending + afUnseen + Busy = AfTransfers
    BY DEF afInv, afOn, afCounted, Submitted
  <2> QED BY <2>1 DEF NoTransferIsLost, Busy
<1> QED
  BY <1>1, <1>2, <1>3 DEF afInv, StreamHolds

(* The images of the AFU420 are whole and have one holder, every transfer  *)
(* is accounted for, and undefined behaviour needs a stop, restart or      *)
(* destruction that overlaps with libusb's event thread: for every pool,   *)
(* number of transfers, image size and every interleaving of the program,  *)
(* transfer_callback, the deliver thread and the consumer.                 *)
THEOREM StreamCorrect == afSpec => []StreamHolds
  BY afInitInv, afNextInv, afInvHolds, PTL DEF afSpec
=============================================================================
