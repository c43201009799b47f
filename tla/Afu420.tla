------------------------------- MODULE Afu420 -------------------------------
(***************************************************************************)
(* Streaming of the AFU420 USB camera (libusb/AFU420Device.cpp) and the     *)
(* thread that hands its images on (deliver_thread of libusb_utils.cpp).    *)
(*                                                                          *)
(* Three threads meet: the program that configures, starts and stops the    *)
(* stream, libusb's event thread that runs transfer_callback once for every *)
(* finished transfer, and the deliver thread.  Images are counted in units  *)
(* of data; a transfer carries FullUnits of them, HeadUnits when it starts  *)
(* with an image header.  The callback copies xfr->length and not           *)
(* actual_length: after a short transfer part of what it copies is stale.   *)
(***************************************************************************)
EXTENDS Integers, Sequences, FiniteSetsExt, Functions

CONSTANTS
    AfBuffers,      \* buffers of a pool
    AfTransfers,    \* num_transfers, 12
    FullUnits, HeadUnits, ImageUnits,
    LostCountdown,  \* 20
    MaxAfStarts, MaxAfPackets   \* bounds on the program's starts and on the camera's transfers

ASSUME AfuAssumption ==
    /\ AfBuffers \in Nat \ {0} /\ AfTransfers \in Nat \ {0}
    /\ HeadUnits \in Nat \ {0} /\ LostCountdown \in Nat \ {0}
    /\ FullUnits \in Nat /\ ImageUnits \in Nat \ {0} /\ HeadUnits <= FullUnits

VARIABLES
    is_stream_on_, superspeed,
    buffer_list_,      \* [buffer -> is_queued]
    current_buffer_,   \* 0 is nullptr
    transfer_offset_,
    lost_countdown_,
    afFill,            \* [valid, heads, stale]: what the current buffer was filled with
    afPending,         \* submitted transfers that libusb has not finished
    afCancelled,       \* cancelled transfers whose callback has not run yet
    afUnseen,          \* transfers of this stream that were not submitted again
    afCamera,          \* "off", "sends" or "gone"
    afCb,              \* the event thread: [pc, head, short]
    afApp,             \* the program
    afQueue, end_thread_, afThread,   \* deliver_thread: images [b, fill, checked]
    afSink,            \* buffers the consumer holds
    afDropped, afNotified, afStarts, afPackets,
    afOverlap, afUB    \* a stop or restart met a callback; undefined behaviour was reached

afCore == <<is_stream_on_, superspeed, buffer_list_, current_buffer_, transfer_offset_, lost_countdown_, afFill>>
afUsb == <<afPending, afCancelled, afUnseen, afCamera, afCb>>
afDeliver == <<afQueue, end_thread_, afThread>>
afCounts == <<afDropped, afNotified, afStarts, afPackets>>
afVars == <<afCore, afUsb, afApp, afDeliver, afSink, afCounts, afOverlap, afUB>>

NoBuffer == 0
Empty == [valid |-> 0, heads |-> 0, stale |-> FALSE]
CbIdle == [pc |-> "idle", head |-> FALSE, short |-> FALSE]
ThreadNone == [pc |-> "none", b |-> NoBuffer]

afInit ==
    /\ is_stream_on_ = FALSE /\ superspeed \in BOOLEAN
    /\ buffer_list_ = <<>> /\ current_buffer_ = NoBuffer /\ transfer_offset_ = 0
    /\ lost_countdown_ = LostCountdown /\ afFill = Empty
    /\ afPending = 0 /\ afCancelled = 0 /\ afUnseen = 0 /\ afCamera = "off" /\ afCb = CbIdle
    /\ afApp = "open"
    /\ afQueue = <<>> /\ end_thread_ = FALSE /\ afThread = ThreadNone
    /\ afSink = {} /\ afDropped = 0 /\ afNotified = 0 /\ afStarts = 0 /\ afPackets = 0
    /\ afOverlap = FALSE /\ afUB = "none"

-----------------------------------------------------------------------------
(* the buffers *)

(* the buffers of the next pool, which no earlier stream has used *)
Pool == {afStarts * AfBuffers + k : k \in 1..AfBuffers}

initialize_buffers(pool) ==
    buffer_list_' = [b \in pool \cup DOMAIN buffer_list_ |-> b \in pool \/ buffer_list_[b]]

requeue_buffer(list, b) == IF b \in DOMAIN list THEN [list EXCEPT ![b] = TRUE] ELSE list

get_next_buffer(list) ==
    LET queued == {b \in DOMAIN list : list[b]} IN IF queued = {} THEN NoBuffer ELSE Min(queued)

(* Mutant: incomplete images are pushed.                                    *)
push_any(b) ==
    /\ afQueue' = Append(afQueue, [b |-> b, fill |-> afFill, checked |-> TRUE])
    /\ UNCHANGED <<afDropped, buffer_list_>>

(* the buffer list and what the deliver thread holds after push_buffer:     *)
(* incomplete images, as long as drop_incomplete_frames_ is set, and images *)
(* after the thread's end go back to the list.  The option is a property of *)
(* the element, set in any thread at any time: either value may be read.    *)
push_buffer(b) ==
    \E drop_incomplete_frames_ \in BOOLEAN :
      IF drop_incomplete_frames_ /\ afFill.valid # ImageUnits
      THEN /\ afDropped' = afDropped + 1
           /\ buffer_list_' = requeue_buffer(buffer_list_, b) /\ UNCHANGED afQueue
      ELSE /\ UNCHANGED afDropped
           /\ IF end_thread_
              THEN buffer_list_' = requeue_buffer(buffer_list_, b) /\ UNCHANGED afQueue
              ELSE /\ afQueue' = Append(afQueue, [b |-> b, fill |-> afFill, checked |-> drop_incomplete_frames_])
                   /\ UNCHANGED buffer_list_

-----------------------------------------------------------------------------
(* deliver_thread *)

deliver_start ==
    /\ end_thread_' = FALSE
    /\ afThread' = [pc |-> "top", b |-> NoBuffer]
    /\ UNCHANGED afQueue

deliver_end == end_thread_' = TRUE /\ UNCHANGED <<afQueue, afThread>>

deliver_join ==
    /\ afThread.pc \in {"none", "done"}
    /\ afThread' = ThreadNone /\ afQueue' = <<>> /\ UNCHANGED end_thread_

(* one turn of thread_main: it waits while there is nothing to do, returns  *)
(* when it has been told to end, and hands the oldest image to the sink     *)
thread_main ==
    \/ /\ afThread.pc = "top" /\ (end_thread_ \/ afQueue # <<>>)
       /\ IF end_thread_
          THEN afThread' = [afThread EXCEPT !.pc = "done"] /\ UNCHANGED afQueue
          ELSE /\ afThread' = [pc |-> "deliver", b |-> Head(afQueue).b]
               /\ afQueue' = Tail(afQueue)
       /\ UNCHANGED <<end_thread_, afSink>>
    \/ /\ afThread.pc = "deliver"
       /\ afSink' = afSink \cup {afThread.b}
       /\ afThread' = [pc |-> "top", b |-> NoBuffer]
       /\ UNCHANGED <<afQueue, end_thread_>>

Deliver ==
    /\ afUB = "none" /\ thread_main
    /\ UNCHANGED <<afCore, afUsb, afApp, afCounts, afOverlap, afUB>>

(* the consumer gives a buffer back, from its own thread *)
Return(b) ==
    /\ afUB = "none" /\ afSink' = afSink \ {b}
    /\ buffer_list_' = requeue_buffer(buffer_list_, b)
    /\ UNCHANGED <<is_stream_on_, superspeed, current_buffer_, transfer_offset_, lost_countdown_, afFill,
                   afUsb, afApp, afDeliver, afCounts, afOverlap, afUB>>

-----------------------------------------------------------------------------
(* transfer_callback *)

(* the camera takes the transfer back, unless it is gone *)
submit_transfer ==
    IF afCamera = "gone" THEN UNCHANGED afPending /\ afUnseen' = afUnseen + 1
    ELSE afPending' = afPending + 1 /\ UNCHANGED afUnseen

Leave == afCb' = CbIdle /\ submit_transfer
GoTo(pc) == afCb' = [afCb EXCEPT !.pc = pc] /\ UNCHANGED <<afPending, afUnseen>>
Undefined(what) ==
    /\ afUB' = what /\ GoTo("idle")
    /\ UNCHANGED <<buffer_list_, current_buffer_, transfer_offset_, lost_countdown_, afFill, afQueue, afDropped>>

(* a transfer with data has finished; without a stream nobody submits it    *)
(* again                                                                    *)
TransferDone(head, short) ==
    /\ afCb.pc = "idle" /\ afPending > 0 /\ afCamera = "sends" /\ afPackets < MaxAfPackets
    /\ afPending' = afPending - 1 /\ afPackets' = afPackets + 1
    /\ IF is_stream_on_
       THEN afCb' = [pc |-> "header", head |-> head, short |-> short] /\ UNCHANGED afUnseen
       ELSE afUnseen' = afUnseen + 1 /\ UNCHANGED afCb
    /\ UNCHANGED <<afCore, afCancelled, afCamera, afApp, afDeliver, afSink, afDropped, afNotified, afStarts,
                   afOverlap, afUB>>

TransferError ==
    /\ afCb.pc = "idle" /\ afPending > 0
    /\ afCamera = "gone" \/ (afCamera = "sends" /\ afPackets < MaxAfPackets)
    /\ afPackets' = IF afCamera = "gone" THEN afPackets ELSE afPackets + 1
    /\ IF is_stream_on_
       THEN /\ afPending' = IF afCamera = "gone" THEN afPending - 1 ELSE afPending
            /\ afUnseen' = IF afCamera = "gone" THEN afUnseen + 1 ELSE afUnseen
            /\ afNotified' = IF lost_countdown_ = 0 THEN afNotified + 1 ELSE afNotified
            /\ lost_countdown_' = lost_countdown_ - 1
       ELSE /\ afPending' = afPending - 1 /\ afUnseen' = afUnseen + 1
            /\ UNCHANGED <<afNotified, lost_countdown_>>
    /\ UNCHANGED <<is_stream_on_, superspeed, buffer_list_, current_buffer_, transfer_offset_, afFill,
                   afCancelled, afCamera, afCb, afApp, afDeliver, afSink, afDropped, afStarts, afOverlap, afUB>>

TransferCancelled ==
    /\ afCb.pc = "idle" /\ afCancelled > 0
    /\ afCancelled' = afCancelled - 1
    /\ UNCHANGED <<afCore, afPending, afUnseen, afCamera, afCb, afApp, afDeliver, afSink, afCounts, afOverlap, afUB>>

Unplug ==
    /\ afCamera = "sends" /\ afCamera' = "gone"
    /\ UNCHANGED <<afCore, afPending, afCancelled, afUnseen, afCb, afApp, afDeliver, afSink, afCounts, afOverlap, afUB>>

Header ==
    /\ afCb.pc = "header"
    /\ GoTo(IF ~afCb.head THEN "current" ELSE IF current_buffer_ # NoBuffer THEN "push old" ELSE "next")
    /\ UNCHANGED <<buffer_list_, current_buffer_, transfer_offset_, lost_countdown_, afFill, afQueue, afDropped, afUB>>

(* current_buffer_ was not null; stop_stream may have cleared it since *)
PushOld ==
    /\ afCb.pc = "push old"
    /\ IF current_buffer_ = NoBuffer THEN Undefined("null buffer")
       ELSE /\ push_buffer(current_buffer_)
            /\ GoTo("next")
            /\ UNCHANGED <<current_buffer_, transfer_offset_, lost_countdown_, afFill, afUB>>

(* get_next_buffer walks over the list without the lock *)
Next1 ==
    /\ afCb.pc = "next"
    /\ IF DOMAIN buffer_list_ # {} THEN GoTo("take") /\ UNCHANGED <<current_buffer_, afDropped>>
       ELSE Leave /\ current_buffer_' = NoBuffer /\ afDropped' = afDropped + 1
    /\ UNCHANGED <<buffer_list_, transfer_offset_, lost_countdown_, afFill, afQueue, afUB>>

Take ==
    /\ afCb.pc = "take"
    /\ IF DOMAIN buffer_list_ = {} THEN Undefined("list cleared")
       ELSE LET b == get_next_buffer(buffer_list_) IN
            /\ current_buffer_' = b
            /\ IF b = NoBuffer
               THEN /\ Leave /\ afDropped' = afDropped + 1
                    /\ UNCHANGED <<buffer_list_, transfer_offset_, afFill>>
               ELSE /\ GoTo("current") /\ UNCHANGED afDropped
                    /\ buffer_list_' = [buffer_list_ EXCEPT ![b] = FALSE]
                    /\ transfer_offset_' = 0 /\ afFill' = Empty
            /\ UNCHANGED <<lost_countdown_, afQueue, afUB>>

Current ==
    /\ afCb.pc = "current"
    /\ IF current_buffer_ = NoBuffer THEN Leave ELSE GoTo("copy")
    /\ UNCHANGED <<buffer_list_, current_buffer_, transfer_offset_, lost_countdown_, afFill, afQueue, afDropped, afUB>>

(* on a slow bus usbbulk_chunk_size_ is larger than a transfer, and every   *)
(* transfer without a header counts as the image's last                     *)
is_trailer == ~afCb.head /\ ~superspeed

bytes_to_copy(size) == Min({ImageUnits - transfer_offset_, size})

Copy ==
    /\ afCb.pc = "copy"
    /\ IF current_buffer_ = NoBuffer THEN Undefined("null buffer")
       ELSE LET size == IF afCb.head THEN HeadUnits ELSE FullUnits
                offset == transfer_offset_ + bytes_to_copy(size)
            IN /\ afFill' = [valid |-> offset, heads |-> afFill.heads + (IF afCb.head THEN 1 ELSE 0),
                             stale |-> afFill.stale \/ afCb.short]
               /\ transfer_offset_' = offset
               /\ IF offset >= ImageUnits \/ is_trailer
                  THEN GoTo("push new") /\ UNCHANGED lost_countdown_
                  ELSE Leave /\ lost_countdown_' = LostCountdown
               /\ UNCHANGED <<buffer_list_, current_buffer_, afQueue, afDropped, afUB>>

PushNew ==
    /\ afCb.pc = "push new"
    /\ IF current_buffer_ = NoBuffer THEN UNCHANGED <<buffer_list_, afQueue, afDropped>>
       ELSE push_buffer(current_buffer_)
    /\ current_buffer_' = NoBuffer /\ transfer_offset_' = 0 /\ lost_countdown_' = LostCountdown
    /\ Leave /\ UNCHANGED <<afFill, afUB>>

TransferCallback ==
    /\ Header \/ PushOld \/ Next1 \/ Take \/ Current \/ Copy \/ PushNew
    /\ UNCHANGED <<is_stream_on_, superspeed, afCancelled, afCamera, afApp, end_thread_, afThread, afSink,
                   afNotified, afStarts, afPackets, afOverlap>>

-----------------------------------------------------------------------------
(* the program: CaptureDeviceImpl configures, starts and stops the device,  *)
(* and stops it after a start that failed                                   *)

AppFrom(from, to) == afApp = from /\ afApp' = to
InFlight == afPending + afCancelled > 0 \/ afCb.pc # "idle"

Configure ==
    /\ afApp \in {"open", "stopped"} /\ afApp' = "configured" /\ afStarts < MaxAfStarts
    /\ initialize_buffers(Pool)
    /\ UNCHANGED <<is_stream_on_, superspeed, current_buffer_, transfer_offset_, lost_countdown_, afFill,
                   afUsb, afDeliver, afSink, afCounts, afOverlap, afUB>>

(* transfer_items.clear() frees the transfers of the last stream *)
FreeTransfers ==
    /\ afOverlap' = (afOverlap \/ InFlight)
    /\ afUB' = IF InFlight THEN "transfer freed in flight" ELSE "none"

start_stream ==
    \/ /\ AppFrom("configured", "submitted") /\ FreeTransfers
       /\ transfer_offset_' = 0 /\ afDropped' = 0 /\ afStarts' = afStarts + 1
       /\ afPending' = (IF afCamera = "gone" THEN 0 ELSE AfTransfers) /\ afCancelled' = 0
       /\ afUnseen' = AfTransfers - afPending'
       /\ UNCHANGED <<is_stream_on_, superspeed, buffer_list_, current_buffer_, lost_countdown_, afFill,
                      afCamera, afCb, afDeliver, afSink, afNotified, afPackets>>
    \/ /\ AppFrom("submitted", "delivering") /\ deliver_start
       /\ UNCHANGED <<afCore, afUsb, afSink, afCounts, afOverlap, afUB>>
    \/ /\ AppFrom("delivering", "sending") /\ afCamera # "gone" /\ afCamera' = "sends"
       /\ UNCHANGED <<afCore, afPending, afCancelled, afUnseen, afCb, afDeliver, afSink, afCounts, afOverlap, afUB>>
    \/ /\ AppFrom("delivering", "stop")
       /\ UNCHANGED <<afCore, afUsb, afDeliver, afSink, afCounts, afOverlap, afUB>>
    \/ /\ AppFrom("sending", "on") /\ is_stream_on_' = TRUE
       /\ UNCHANGED <<superspeed, buffer_list_, current_buffer_, transfer_offset_, lost_countdown_, afFill,
                      afUsb, afDeliver, afSink, afCounts, afOverlap, afUB>>

(* current_buffer_ and the list are cleared whatever the callback does *)
release_buffers ==
    /\ buffer_list_' = <<>> /\ current_buffer_' = NoBuffer
    /\ afOverlap' = (afOverlap \/ afCb.pc # "idle")

stop_stream ==
    \/ /\ afApp \in {"on", "stop"} /\ afApp' = "stop deliver" /\ is_stream_on_' = FALSE
       /\ UNCHANGED <<superspeed, buffer_list_, current_buffer_, transfer_offset_, lost_countdown_, afFill,
                      afUsb, afDeliver, afSink, afCounts, afOverlap, afUB>>
    \/ /\ AppFrom("stop deliver", "join") /\ deliver_end
       /\ UNCHANGED <<afCore, afUsb, afSink, afCounts, afOverlap, afUB>>
    \/ /\ AppFrom("join", "cancel") /\ deliver_join
       /\ UNCHANGED <<afCore, afUsb, afSink, afCounts, afOverlap, afUB>>
    \/ /\ AppFrom("cancel", "release")
       /\ afPending' = 0 /\ afCancelled' = afCancelled + afPending
       /\ UNCHANGED <<afCore, afUnseen, afCamera, afCb, afDeliver, afSink, afCounts, afOverlap, afUB>>
    \/ /\ AppFrom("release", "stopped") /\ release_buffers
       /\ UNCHANGED <<is_stream_on_, superspeed, transfer_offset_, lost_countdown_, afFill, afUsb, afDeliver,
                      afSink, afCounts, afUB>>

(* the destructor: the stream is stopped already *)
Close ==
    /\ afApp \in {"open", "stopped"} /\ afApp' = "closed" /\ FreeTransfers
    /\ UNCHANGED <<afCore, afUsb, afDeliver, afSink, afCounts>>

afProgram == Configure \/ start_stream \/ stop_stream \/ Close
afEvents == TransferCancelled \/ TransferError \/ \E head, short \in BOOLEAN : TransferDone(head, short)

afEnded == afApp = "closed" \/ afUB # "none"

(* a stop goes on, and so does the deliver thread it joins *)
afFair == WF_afVars(stop_stream /\ ~afEnded) /\ WF_afVars(Deliver)

afNext ==
    /\ ~afEnded
    /\ \/ afProgram \/ afEvents \/ TransferCallback \/ Unplug \/ Deliver
       \/ \E b \in afSink : Return(b)

afSpec == afInit /\ [][afNext]_afVars /\ afFair

-----------------------------------------------------------------------------
(* the buffers outside the list's free ones *)
InHand == {afQueue[k].b : k \in DOMAIN afQueue} \cup afSink \cup ({afThread.b} \ {NoBuffer})

afTypeOK ==
    /\ is_stream_on_ \in BOOLEAN /\ current_buffer_ \in Nat /\ transfer_offset_ \in 0..ImageUnits
    /\ \A b \in DOMAIN buffer_list_ : buffer_list_[b] \in BOOLEAN
    /\ afPending \in 0..AfTransfers + 1 /\ afCancelled \in 0..AfTransfers /\ lost_countdown_ <= LostCountdown

(* Only one holder: the callback fills a buffer that neither the deliver    *)
(* queue nor its thread nor the consumer has, and a buffer that one of them *)
(* has is not queued; so no image changes under its reader, also when       *)
(* buffers of an earlier stream come back during the next one.              *)
FillsItsOwn ==
    /\ afCb.pc \in {"current", "copy", "push new"} => current_buffer_ \notin InHand
    /\ \A b \in InHand \cap DOMAIN buffer_list_ : ~buffer_list_[b]
    /\ IsInjective([k \in DOMAIN afQueue |-> afQueue[k].b])

(* An image on its way to the sink begins with its header and holds no      *)
(* other one's; it was filled up to its size unless the application had     *)
(* asked for incomplete images (drop-incomplete-buffer off) when it was     *)
(* pushed: otherwise push_buffer drops what a lost transfer left incomplete. *)
DeliversWholeImages ==
    \A k \in DOMAIN afQueue : LET image == afQueue[k] IN
      /\ image.fill.heads = 1
      /\ image.fill.valid = ImageUnits \/ (~image.checked /\ image.fill.valid \in 1..ImageUnits)

(* A stream that runs and whose camera is there runs dry only when every    *)
(* transfer was finished before start_stream set is_stream_on_: each        *)
(* transfer is with libusb, in the callback, or was seen too early.         *)
NoTransferIsLost ==
    is_stream_on_ => afPending + afUnseen + (IF afCb.pc = "idle" THEN 0 ELSE 1) = AfTransfers

(* A null buffer is written, a cleared list walked or a transfer freed in   *)
(* flight only when stop_stream, the next start_stream or the destructor    *)
(* runs while libusb still has a transfer or runs its callback.             *)
UndefinedNeedsOverlap == afUB # "none" => afOverlap

(* A stop that began returns: the deliver thread it joins sees end_thread_, *)
(* whatever it waits for or delivers at that moment.                        *)
StopReturnsHere == afApp \in {"stop deliver", "join", "cancel", "release"} ~> afApp = "stopped" \/ afUB # "none"

(* What the stream promises while the event thread of libusb, the deliver   *)
(* thread and the application interleave: images are whole, or asked for    *)
(* incomplete, and have one holder, every transfer is accounted for, and    *)
(* undefined behaviour needs the overlap of a stop, restart or destruction  *)
(* with the event thread.                                                   *)
StreamHolds ==
    afTypeOK /\ FillsItsOwn /\ DeliversWholeImages /\ NoTransferIsLost /\ UndefinedNeedsOverlap
=============================================================================
