-------------------------------- MODULE MCUsb --------------------------------
(***************************************************************************)
(* The two libusb cameras.  A behaviour has one part active: the stream of  *)
(* the AFU420, its controls, its one-push focus, or the stream of the       *)
(* AFU050.  The last is also left running alone, over every short stream of *)
(* bytes and every way to cut it into up to three transfers.                *)
(***************************************************************************)
EXTENDS Afu420, Afu050, Afu420Control, AutoFocus

VARIABLE active

(* every way to cut a sequence of bytes into at most three transfers *)
Cuts(s) ==
    {LET at == <<0>> \o SetToSortSeq(c, <) \o <<Len(s)>>
     IN [k \in 1..Len(at) - 1 |-> SubSeq(s, at[k] + 1, at[k + 1])] : c \in {{}} \cup {{i, j} : i, j \in 1..Len(s) - 1}}

ByteStreams == [1..6 -> {"ff", "d8", "d9"}]

Jpeg == <<"ff", "d8", "ff", "d9">>
MCFeeds == {<<Jpeg, Jpeg>>, <<SubSeq(Jpeg, 1, 2), SubSeq(Jpeg, 3, 4) \o Jpeg, Jpeg>>}

Standard == {<<1920, 1080>>, <<3840, 2160>>}
MCFormats ==
    {[bpp |-> f.bpp, size |-> f.size, binning |-> f.binning, fps |-> 30] :
        f \in {g \in create_formats(Standard) : g.binning[1] \in {1, 8}}}

MCFoRuns == {[min |-> 0, max |-> 9], [min |-> -2, max |-> 3]}

-----------------------------------------------------------------------------
afClosed ==
    /\ is_stream_on_ = FALSE /\ superspeed = TRUE
    /\ buffer_list_ = <<>> /\ current_buffer_ = NoBuffer
    /\ transfer_offset_ = 0 /\ lost_countdown_ = LostCountdown /\ afFill = Empty
    /\ afPending = 0 /\ afCancelled = 0 /\ afUnseen = 0 /\ afCamera = "off" /\ afCb = CbIdle /\ afApp = "closed"
    /\ afQueue = <<>> /\ end_thread_ = FALSE /\ afThread = ThreadNone
    /\ afSink = {} /\ afDropped = 0 /\ afNotified = 0 /\ afStarts = 0 /\ afPackets = 0
    /\ afOverlap = FALSE /\ afUB = "none"

(* closed with no feed, or streaming one of the feeds *)
j5At(app, feeds) ==
    LET on == app = "on" IN
    /\ j5App = app /\ j5Feed \in feeds
    /\ j5On = on /\ j5Listener = on /\ j5List = [b \in (IF on THEN 1..JBuffers ELSE {}) |-> TRUE]
    /\ j5Pending = (IF on THEN TRANSFER_COUNT ELSE 0) /\ j5Sent = j5Pending /\ j5Starts = (IF on THEN 1 ELSE 0)
    /\ j5Lost = FALSE /\ j5Ptr = FALSE /\ j5Jpeg = <<>> /\ j5Cb = j5CbIdle
    /\ j5Next = 1 /\ j5Gone = FALSE /\ j5Out = <<>>
    /\ j5Dropped = 0 /\ j5TooBig = FALSE /\ j5Notified = 0 /\ j5StartLost = FALSE
    /\ j5Overlap = FALSE /\ j5UB = "none"

acClosed ==
    /\ acFaults = 0 /\ acClean = FALSE
    /\ acCamera = [depth |-> 8, fps |-> 0, roi |-> <<0, 0>>, exposure |-> 100, conf |-> NoConf]
    /\ acDriver = [on |-> FALSE, depth |-> 8, format |-> CHOOSE f \in AcFormats : TRUE, offset |-> <<0, 0>>,
                   auto |-> FALSE, locked |-> FALSE, exposure |-> 0]

(* a lens at rest, of which there is one unless the search is active *)
foAtRest == foRun.max = 9 /\ foLens = 0 /\ foRegion = 1

Init ==
    /\ \/ active = "afu420" /\ afInit /\ j5At("closed", {<<>>}) /\ acClosed
       \/ active = "controls" /\ afClosed /\ j5At("closed", {<<>>}) /\ acInit
       \/ active = "focus" /\ afClosed /\ acClosed /\ j5At("closed", {<<>>})
       \/ active = "afu050" /\ afClosed /\ acClosed /\ j5Init
       \/ active = "afu050 left alone" /\ afClosed /\ acClosed /\ \E s \in ByteStreams : j5At("on", Cuts(s))
    /\ FoInit /\ (active = "focus" \/ foAtRest)

vars == <<active, afVars, j5Vars, acVars, foVars>>

Ended ==
    \/ active = "afu420" /\ afEnded
    \/ active = "focus" /\ foState = "ended" /\ ~foCmd /\ foMoves = FoMoves
    \/ active = "afu050" /\ j5Ended
    \/ active = "afu050 left alone" /\ (j5Ended \/ (j5Cb.pc = "idle" /\ (j5Pending = 0 \/ j5Next > Len(j5Feed))))

Next ==
    \/ active = "afu420" /\ afNext /\ UNCHANGED <<active, j5Vars, acVars, foVars>>
    \/ active = "controls" /\ acNext /\ UNCHANGED <<active, afVars, j5Vars, foVars>>
    \/ active = "focus" /\ FoNext /\ UNCHANGED <<active, afVars, j5Vars, acVars>>
    \/ active = "afu050" /\ j5Next0 /\ UNCHANGED <<active, afVars, acVars, foVars>>
    \/ active = "afu050 left alone" /\ ~j5Ended /\ j5Callback /\ UNCHANGED <<active, afVars, acVars, foVars>>
    \/ Ended /\ UNCHANGED vars

Spec == Init /\ [][Next]_vars /\ afFair /\ FoFairness

(* What was begun ends: a stop of the AFU420 stream, and a focus run.       *)
RunsEnd == StopReturnsHere /\ FocusRunEnds
=============================================================================
