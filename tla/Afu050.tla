------------------------------- MODULE Afu050 -------------------------------
(***************************************************************************)
(* Streaming of the AFU050 USB camera (libusb/AFU050Device.cpp).  The       *)
(* camera sends JPEG images as a stream of bytes, cut into transfers        *)
(* anywhere; transfer_callback, on libusb's event thread, looks for the     *)
(* start marker ff d8 and the end marker ff d9 inside each transfer and     *)
(* hands whole images to the sink.  Nothing cancels a transfer, so those of *)
(* a stopped stream are still there when the next one starts.               *)
(***************************************************************************)
EXTENDS Naturals, Sequences, FiniteSets, FiniteSetsExt, SequencesExt

CONSTANTS
    JBuffers,        \* buffers of a pool
    TRANSFER_COUNT,  \* 32
    JPEGBUF_SIZE,    \* 5 MiB
    JBufferSize,     \* size of a buffer of the pool, which its allocator chose from the format
    JFeeds,          \* what the camera sends: sequences of transfers, each a sequence of bytes
    MaxJStarts       \* bound on the program's starts

ASSUME Afu050Assumption == {JBuffers, TRANSFER_COUNT} \subseteq Nat \ {0} /\ {JPEGBUF_SIZE, JBufferSize} \subseteq Nat \ {0, 1}

VARIABLES
    j5On,        \* is_stream_on_
    j5Lost,      \* device_is_lost_
    j5List,      \* buffer_list_: [buffer -> is_queued]
    j5Ptr,       \* current_jpegbuf_ptr_ is set
    j5Jpeg,      \* the current_jpegsize_ bytes behind it
    j5Listener,  \* listener_ is set
    j5Pending,   \* transfers with libusb
    j5Cb,        \* the event thread: [pc, processed]
    j5App, j5Sent, \* the program, and the transfers start_stream has submitted
    j5Feed, j5Next, \* the camera's transfers and the next one
    j5Gone,      \* the camera was unplugged
    j5Out,       \* images given to the sink: [b, bytes]
    j5Dropped, j5TooBig, j5Notified, j5Starts, j5StartLost,
    j5Overlap, j5UB

j5Stream == <<j5On, j5List, j5Listener>>
j5Image == <<j5Ptr, j5Jpeg>>
j5Camera == <<j5Feed, j5Next, j5Gone>>
j5Counts == <<j5Dropped, j5TooBig, j5Sent, j5Starts, j5StartLost>>
j5Life == <<j5Overlap, j5UB>>
j5Vars == <<j5Stream, j5Lost, j5Image, j5Pending, j5Cb, j5App, j5Camera, j5Out, j5Counts, j5Notified, j5Life>>

j5CbIdle == [pc |-> "idle", processed |-> 0]

j5Init ==
    /\ j5On = FALSE /\ j5Lost = FALSE /\ j5List = <<>> /\ j5Ptr = FALSE /\ j5Jpeg = <<>> /\ j5Listener = FALSE
    /\ j5Pending = 0 /\ j5Cb = j5CbIdle /\ j5App = "open" /\ j5Sent = 0
    /\ j5Feed \in JFeeds /\ j5Next = 1 /\ j5Gone = FALSE /\ j5Out = <<>>
    /\ j5Dropped = 0 /\ j5TooBig = FALSE /\ j5Notified = 0 /\ j5Starts = 0 /\ j5StartLost = FALSE
    /\ j5Overlap = FALSE /\ j5UB = "none"

-----------------------------------------------------------------------------
(* memmem: the places from "from" on at which a marker starts *)
Marker(s, from, last) == {i \in from + 1..Len(s) - 1 : s[i] = "ff" /\ s[i + 1] = last}

get_free_buffer ==
    LET queued == {b \in DOMAIN j5List : j5List[b]} IN IF queued = {} THEN 0 ELSE Min(queued)

j5Requeue(b) == IF b \in DOMAIN j5List THEN [j5List EXCEPT ![b] = TRUE] ELSE j5List

j5Pool == {j5Starts * JBuffers + k : k \in 1..JBuffers}

(* stop_stream, as one step of the thread that lost the device *)
j5StopNow == j5On' = FALSE /\ j5Listener' = FALSE /\ j5List' = <<>>

(* lost_device after its test: another thread may have passed the test too *)
lost_device == j5Lost' = TRUE /\ j5StopNow /\ j5Notified' = j5Notified + 1

-----------------------------------------------------------------------------
(* transfer_callback *)

j5Data == j5Feed[j5Next - 1]
j5GoTo(pc) == j5Cb' = [j5Cb EXCEPT !.pc = pc]
j5Quiet == UNCHANGED <<j5App, j5Sent, j5Feed, j5Gone, j5Starts, j5StartLost, j5Overlap>>

(* a transfer has finished; without a stream it is freed *)
j5Finish ==
    /\ j5Cb.pc = "idle" /\ j5Pending > 0 /\ j5Pending' = j5Pending - 1
    /\ \/ /\ ~j5Gone /\ j5Next <= Len(j5Feed) /\ j5Next' = j5Next + 1
          /\ IF j5On THEN j5Cb' = [pc |-> "scan", processed |-> 0] ELSE UNCHANGED j5Cb
       \/ j5Gone /\ j5GoTo("lost") /\ UNCHANGED j5Next
    /\ UNCHANGED <<j5Stream, j5Lost, j5Image, j5Out, j5Dropped, j5TooBig, j5Notified, j5UB>> /\ j5Quiet

(* the test at the top of lost_device, and the rest of it *)
j5LostTest ==
    /\ j5Cb.pc = "lost" /\ j5GoTo(IF j5Lost THEN "idle" ELSE "losing")
    /\ UNCHANGED <<j5Stream, j5Lost, j5Image, j5Pending, j5Next, j5Out, j5Dropped, j5TooBig, j5Notified, j5UB>> /\ j5Quiet

j5Losing ==
    /\ j5Cb.pc = "losing" /\ lost_device /\ j5GoTo("idle")
    /\ UNCHANGED <<j5Image, j5Pending, j5Next, j5Out, j5Dropped, j5TooBig, j5UB>> /\ j5Quiet

(* Mutant: a start marker is looked for at the top of a transfer only.      *)
j5ScanTop ==
    /\ j5Cb.pc = "scan"
    /\ LET starts == Marker(j5Data, j5Cb.processed, "d8") IN
       IF ~j5Ptr /\ starts # {} /\ j5Cb.processed = 0
       THEN /\ j5Ptr' = TRUE /\ j5Jpeg' = j5Jpeg \o <<"ff", "d8">>
            /\ j5Cb' = [pc |-> "collect", processed |-> Min(starts) + 1]
       ELSE j5GoTo("collect") /\ UNCHANGED j5Image
    /\ UNCHANGED <<j5Stream, j5Lost, j5Pending, j5Next, j5Out, j5Dropped, j5TooBig, j5Notified, j5UB>> /\ j5Quiet

(* the top of the loop: without an image it looks for a start marker *)
j5Scan ==
    /\ j5Cb.pc = "scan"
    /\ LET starts == Marker(j5Data, j5Cb.processed, "d8") IN
       IF ~j5Ptr /\ starts # {}
       THEN /\ j5Ptr' = TRUE /\ j5Jpeg' = j5Jpeg \o <<"ff", "d8">>
            /\ j5Cb' = [pc |-> "collect", processed |-> Min(starts) + 1]
       ELSE j5GoTo("collect") /\ UNCHANGED j5Image
    /\ UNCHANGED <<j5Stream, j5Lost, j5Pending, j5Next, j5Out, j5Dropped, j5TooBig, j5Notified, j5UB>> /\ j5Quiet

(* with an image it takes what there is, up to an end marker *)
j5Collect ==
    /\ j5Cb.pc = "collect"
    /\ j5Cb' = IF j5Ptr THEN [j5Cb EXCEPT !.pc = "copy"] ELSE [pc |-> "submit", processed |-> Len(j5Data)]
    /\ UNCHANGED <<j5Stream, j5Lost, j5Image, j5Pending, j5Next, j5Out, j5Dropped, j5TooBig, j5Notified, j5UB>> /\ j5Quiet

(* a whole image is copied into a free buffer, whose size only an assertion *)
(* tests, and goes to the sink if that is still there                       *)
j5Push(bytes) ==
    LET b == get_free_buffer IN
    CASE b = 0 -> j5Dropped' = j5Dropped + 1 /\ UNCHANGED <<j5List, j5Out, j5UB>>
      [] b # 0 /\ Len(bytes) > JBufferSize -> j5UB' = "buffer overrun" /\ UNCHANGED <<j5List, j5Out, j5Dropped>>
      [] b # 0 /\ Len(bytes) <= JBufferSize /\ j5Listener ->
           /\ j5List' = [j5List EXCEPT ![b] = FALSE]
           /\ j5Out' = Append(j5Out, [b |-> b, bytes |-> bytes]) /\ UNCHANGED <<j5Dropped, j5UB>>
      [] OTHER -> j5Dropped' = j5Dropped + 1 /\ UNCHANGED <<j5List, j5Out, j5UB>>

(* the image would not fit the memory for it *)
TooBig(bytes) == Len(bytes) > JPEGBUF_SIZE

j5Copy ==
    LET ends == Marker(j5Data, j5Cb.processed, "d9")
        last == IF ends = {} THEN Len(j5Data) ELSE Min(ends) + 1
        bytes == j5Jpeg \o SubSeq(j5Data, j5Cb.processed + 1, last)
    IN
    /\ j5Cb.pc = "copy"
    /\ CASE TooBig(bytes) ->
              /\ j5Ptr' = FALSE /\ j5Jpeg' = <<>> /\ j5TooBig' = TRUE /\ j5GoTo("submit")
              /\ UNCHANGED <<j5List, j5Out, j5Dropped, j5UB>>
         [] ~TooBig(bytes) /\ ~j5Ptr ->
              /\ j5UB' = "null image" /\ j5GoTo("idle")
              /\ UNCHANGED <<j5List, j5Image, j5Out, j5Dropped, j5TooBig>>
         [] OTHER ->
              /\ j5Cb' = [pc |-> IF last < Len(j5Data) THEN "scan" ELSE "submit", processed |-> last]
              /\ IF ends = {} THEN j5Jpeg' = bytes /\ UNCHANGED <<j5Ptr, j5List, j5Out, j5Dropped, j5UB>>
                 ELSE j5Push(bytes) /\ j5Ptr' = FALSE /\ j5Jpeg' = <<>>
              /\ UNCHANGED j5TooBig
    /\ UNCHANGED <<j5On, j5Listener, j5Lost, j5Pending, j5Next, j5Notified>> /\ j5Quiet

(* the transfer is submitted again; of the errors only the missing device   *)
(* is noticed                                                               *)
j5Submit ==
    /\ j5Cb.pc = "submit"
    /\ j5GoTo(IF j5On /\ j5Gone THEN "lost" ELSE "idle")
    /\ \/ j5On /\ ~j5Gone /\ j5Pending' = j5Pending + 1
       \/ UNCHANGED j5Pending
    /\ UNCHANGED <<j5Stream, j5Lost, j5Image, j5Next, j5Out, j5Dropped, j5TooBig, j5Notified, j5UB>> /\ j5Quiet

j5Callback == j5Finish \/ j5LostTest \/ j5Losing \/ j5Scan \/ j5Collect \/ j5Copy \/ j5Submit

-----------------------------------------------------------------------------
(* the program, the consumer and the camera *)
j5Usb == <<j5Cb, j5Camera, j5Out, j5Dropped, j5TooBig>>
j5From(from, to) == j5App = from /\ j5App' = to

j5Configure ==
    /\ j5App \in {"open", "stopped"} /\ j5App' = "configured" /\ j5Starts < MaxJStarts /\ j5Starts' = j5Starts + 1
    /\ j5List' = [b \in j5Pool |-> TRUE]
    /\ UNCHANGED <<j5On, j5Listener, j5Lost, j5Image, j5Pending, j5Usb, j5Notified, j5StartLost, j5Life, j5Sent>>

j5InFlight == j5Pending > 0 \/ j5Cb.pc # "idle"

(* the stream is on before the state of the last image is reset *)
j5Start ==
    \/ /\ j5From("configured", "starting") /\ j5On' = TRUE /\ j5Overlap' = (j5Overlap \/ j5InFlight)
       /\ UNCHANGED <<j5List, j5Listener, j5Lost, j5Image, j5Pending, j5Usb, j5Notified, j5Starts, j5StartLost, j5UB, j5Sent>>
    \/ /\ j5From("starting", "submit") /\ j5Sent' = 0 /\ j5Ptr' = FALSE /\ j5Jpeg' = <<>> /\ j5Listener' = TRUE
       /\ UNCHANGED <<j5On, j5List, j5Lost, j5Pending, j5Usb, j5Notified, j5Starts, j5StartLost, j5Life>>

(* the transfers are submitted one by one, up to the first that fails *)
j5StartTransfer ==
    /\ j5App = "submit"
    /\ \/ /\ ~j5Gone /\ j5Pending' = j5Pending + 1 /\ j5Sent' = j5Sent + 1
          /\ j5App' = IF j5Sent' = TRANSFER_COUNT THEN "on" ELSE "submit"
       \/ ~j5Gone /\ j5App' = "on" /\ UNCHANGED <<j5Pending, j5Sent>>
       \/ j5Gone /\ j5App' = (IF j5Lost THEN "on" ELSE "losing") /\ UNCHANGED <<j5Pending, j5Sent>>
    /\ UNCHANGED <<j5Stream, j5Lost, j5Image, j5Usb, j5Notified, j5Starts, j5StartLost, j5Life>>

j5StartLosing ==
    /\ j5From("losing", "on") /\ lost_device /\ j5StartLost' = TRUE
    /\ UNCHANGED <<j5Image, j5Pending, j5Usb, j5Starts, j5Life, j5Sent>>

j5Stop ==
    \/ /\ j5From("on", "stop") /\ j5On' = FALSE
       /\ UNCHANGED <<j5List, j5Listener, j5Lost, j5Image, j5Pending, j5Usb, j5Notified, j5Starts, j5StartLost, j5Life, j5Sent>>
    \/ /\ j5From("stop", "stopped") /\ j5StopNow
       /\ UNCHANGED <<j5Lost, j5Image, j5Pending, j5Usb, j5Notified, j5Starts, j5StartLost, j5Life, j5Sent>>

(* the destructor; a callback of a transfer that is left uses the object *)
j5Close ==
    /\ j5App \in {"open", "stopped"} /\ j5App' = "closed"
    /\ j5Overlap' = (j5Overlap \/ j5InFlight)
    /\ j5UB' = IF j5InFlight THEN "callback of a destroyed object" ELSE "none"
    /\ UNCHANGED <<j5Stream, j5Lost, j5Image, j5Pending, j5Usb, j5Notified, j5Starts, j5StartLost, j5Sent>>

j5Return(b) ==
    /\ j5List' = j5Requeue(b)
    /\ UNCHANGED <<j5On, j5Listener, j5Lost, j5Image, j5Pending, j5Usb, j5App, j5Notified, j5Starts, j5StartLost, j5Life, j5Sent>>

j5Unplug ==
    /\ ~j5Gone /\ j5Gone' = TRUE
    /\ UNCHANGED <<j5Stream, j5Lost, j5Image, j5Pending, j5Cb, j5App, j5Feed, j5Next, j5Out, j5Counts, j5Notified, j5Life>>

j5Program == j5Configure \/ j5Start \/ j5StartTransfer \/ j5StartLosing \/ j5Stop \/ j5Close
j5Ended == j5App = "closed" \/ j5UB # "none"

j5Next0 == ~j5Ended /\ (j5Program \/ j5Callback \/ j5Unplug \/ \E k \in DOMAIN j5Out : j5Return(j5Out[k].b))

-----------------------------------------------------------------------------
(* the images in a stream of bytes: from a start marker to the first end    *)
(* marker behind it, again and again                                        *)
ImagesIn(bytes) ==
    LET image == [from \in 0..Len(bytes) |->
                    LET s == Marker(bytes, from, "d8")
                        e == IF s = {} THEN {} ELSE Marker(bytes, Min(s) + 1, "d9")
                    IN IF e = {} THEN <<>> ELSE <<Min(s), Min(e) + 1>>]
        all[from \in 0..Len(bytes)] ==
            IF image[from] = <<>> THEN <<>>
            ELSE <<SubSeq(bytes, image[from][1], image[from][2])>> \o all[image[from][2]]
    IN all[0]

(* a marker is cut by the end of a transfer *)
Cut(transfers) ==
    \E k \in 1..Len(transfers) - 1 : Last(transfers[k]) = "ff" /\ Head(transfers[k + 1]) \in {"d8", "d9"}

j5Seen == SubSeq(j5Feed, 1, j5Next - 1)

j5TypeOK ==
    /\ {j5On, j5Lost, j5Ptr, j5Listener, j5Gone} \subseteq BOOLEAN
    /\ j5Pending \in 0..TRANSFER_COUNT * MaxJStarts /\ j5Cb.processed \in 0..20
    /\ \A b \in DOMAIN j5List : j5List[b] \in BOOLEAN

(* Every image of the camera reaches the sink, whole and in order, if the   *)
(* stream was started once and runs, a buffer was free for each, none was   *)
(* too big and no marker was cut by the end of a transfer.                  *)
EveryImageArrives ==
    (/\ j5Cb.pc = "idle" /\ j5App = "on" /\ j5On /\ j5Starts = 1
     /\ j5Dropped = 0 /\ ~j5TooBig /\ j5UB = "none" /\ ~Cut(j5Seen) /\ j5Seen # <<>>)
        => [k \in DOMAIN j5Out |-> j5Out[k].bytes] = ImagesIn(FlattenSeq(j5Seen))

(* What reaches the sink starts with a start marker, ends with an end       *)
(* marker and fits its buffer, however the bytes were cut.                  *)
ImagesAreMarked ==
    \A k \in DOMAIN j5Out :
        LET bytes == j5Out[k].bytes IN
        /\ Len(bytes) \in 4..Min({JPEGBUF_SIZE, JBufferSize})
        /\ SubSeq(bytes, 1, 2) = <<"ff", "d8">> /\ SubSeq(bytes, Len(bytes) - 1, Len(bytes)) = <<"ff", "d9">>

(* A lost camera is reported once, although every transfer finds it gone;   *)
(* twice only if the event thread and a start_stream find it together.      *)
LostOnceUnlessStarting == j5Notified <= (IF j5StartLost THEN 2 ELSE 1)

(* A start that returned true and was not stopped has its stream running,   *)
(* or the loss of the camera was noted.                                     *)
StartedOrLost == j5App = "on" => j5On \/ j5Lost

(* A buffer of the pool is overrun only if it is smaller than the device's  *)
(* own memory for an image, and then by an image that the camera sent as    *)
(* such, or by images that a cut marker or a second start joined.           *)
OverrunNeedsLargeImage ==
    j5UB = "buffer overrun" =>
      /\ JBufferSize < JPEGBUF_SIZE
      /\ j5Overlap \/ Cut(j5Seen) \/ \E image \in Range(ImagesIn(FlattenSeq(j5Seen))) : Len(image) > JBufferSize

(* An image without memory is written, or a callback reaches a destroyed    *)
(* device, only when the device is started again or destroyed while libusb  *)
(* still has a transfer of the stopped stream or runs its callback.         *)
NullNeedsOverlap == j5UB \notin {"none", "buffer overrun"} => j5Overlap

(* What the stream of this camera promises however its bytes are cut into   *)
(* transfers and whoever finds it gone first.                               *)
JpegStreamHolds ==
    /\ j5TypeOK /\ EveryImageArrives /\ ImagesAreMarked
    /\ LostOnceUnlessStarting /\ StartedOrLost /\ OverrunNeedsLargeImage /\ NullNeedsOverlap
=============================================================================
