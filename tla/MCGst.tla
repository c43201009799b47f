-------------------------------- MODULE MCGst --------------------------------
(***************************************************************************)
(* The GStreamer elements for TLC.  A behaviour is one of tcamsrc, of       *)
(* tcambin, of tcamconvert, of the device provider or of the choice of      *)
(* caps: they share no state, so one run checks them side by side.          *)
(***************************************************************************)
EXTENDS CapsSelect, TcamBin, DeviceProvider, TcamConvert, TLC

VARIABLE part
gstVars == <<part, csVars, plugged, tsVars, bnVars, dpVars, cvVars>>

(* a v4l2 camera that also sends jpeg, and a GigE camera *)
CameraA == [serial |-> "A", type |-> "v4l2"]
CameraB == [serial |-> "B", type |-> "aravis"]
MCCameraOrder == <<CameraA, CameraB>>
(* the element of the second has none of the settings *)
MCCameraSettings == (CameraA :> Settings) @@ (CameraB :> {})
MCCameraFormats == (CameraA :> {"bayer8", "jpeg"}) @@ (CameraB :> {"mono8", "bgr"})

(* Two standard sizes; ranges that hold both, that begin with one, and that hold none *)
MCStandardSizes == <<<<3, 2>>, <<4, 3>>>>
Resolutions(type, min, max, binning) ==
    {[type |-> type, min |-> min, max |-> max, fps |-> f, unread |-> u, binning |-> binning] :
        f \in {{1, 2}, {2}}, u \in {{}, {max}, {min, max}, {<<4, 3>>}, {min, max, <<3, 2>>, <<4, 3>>}}}
FixedSizes ==
    UNION {Resolutions("fixed", s, s, 1) : s \in {<<1, 1>>, <<2, 2>>, <<3, 2>>}} \cup
    UNION {Resolutions("fixed", s, s, 2) : s \in {<<1, 1>>, <<2, 2>>}}
RangeSizes ==
    Resolutions("range", <<1, 1>>, <<4, 3>>, 1) \cup Resolutions("range", <<3, 2>>, <<4, 4>>, 1) \cup
    Resolutions("range", <<1, 1>>, <<2, 2>>, 1) \cup Resolutions("range", <<1, 1>>, <<2, 2>>, 2)

(* binned sizes only beside a larger one that is not, and no size twice *)
ResolutionLists ==
    LET lists == {{r} : r \in FixedSizes \cup RangeSizes}
                 \cup {{a, b} : a \in FixedSizes, b \in FixedSizes}
                 \cup {{a, b} : a \in RangeSizes, b \in RangeSizes}
    IN {l \in lists : /\ \A x \in l : x.binning = 2 => \E y \in l : y.binning = 1 /\ y.max[1] > x.max[1]
                      /\ \A x, y \in l : x # y => <<x.max, x.binning>> # <<y.max, y.binning>>}
Unbinned == {r \in FixedSizes \cup RangeSizes : r.binning = 1}
MCDescriptions ==
    {<<[format |-> f, res |-> l]>> : f \in {"bayer8", "jpeg"}, l \in ResolutionLists}
    \cup {<<[format |-> f, res |-> {a}], [format |-> "mono16", res |-> {b}]>> :
             f \in {"mono8", "bgr"}, a \in Unbinned, b \in Unbinned}

Peer(formats, w, h, fps) == [Absent EXCEPT !.format = formats, !.w = w, !.h = h, !.fps = fps]
AnyFormat(formats) == Peer(formats, Absent.w, Absent.h, Absent.fps)
MCPeerCaps ==
    {<<>>, <<AnyFormat({"bayer8"})>>, <<AnyFormat({"mono8", "mono16"})>>,
     <<Peer({"mono8", "bayer8"}, {2}, {2}, Absent.fps)>>,
     <<Peer({"mono8", "bayer8"}, 1..3, 1..2, Absent.fps)>>,
     <<Peer({"mono8", "bayer8"}, 2..3, {1}, Absent.fps)>>,
     <<Peer({"mono16"}, Absent.w, Absent.h, {1})>>,
     <<Peer({"mono16", "jpeg"}, {3}, {2}, {2}), Peer({"mono8"}, Absent.w, Absent.h, {2})>>}

-----------------------------------------------------------------------------
csIdle == csAt = "idle" /\ csDesc = <<>> /\ csPeer = <<>> /\ csCaps = <<>> /\ csMain = <<>> /\ csBin = <<>>

Init ==
    /\ part \in {"caps", "tcamsrc", "tcambin", "provider", "tcamconvert"}
    /\ IF part = "caps" THEN csInit ELSE csIdle
    /\ tsInitial /\ bnInitial /\ cvInit
    /\ dpInit /\ (part = "provider" \/ dpPlugged = {})

Parts ==
    \/ part = "caps" /\ csNext /\ UNCHANGED <<plugged, tsVars, bnVars, dpVars, cvVars>>
    \/ part = "tcamsrc" /\ tsNext /\ UNCHANGED <<csVars, bnVars, dpVars, cvVars>>
    \/ part = "tcambin" /\ bnNext /\ UNCHANGED <<csVars, tsVars, dpVars, cvVars>>
    \/ part = "provider" /\ dpNext /\ UNCHANGED <<csVars, plugged, tsVars, bnVars, cvVars>>
    \/ part = "tcamconvert" /\ cvNext /\ UNCHANGED <<csVars, plugged, tsVars, bnVars, dpVars>>

(* the caps are chosen, the bin is gone, the provider is disposed of or stopped for good *)
Over ==
    \/ part = "caps" /\ csAt = "negotiated"
    \/ part = "tcambin" /\ bn.gst \in {"gone", "crashed"}
    \/ part = "provider" /\ (dpCall = "disposed" \/ (dpThread = "none" /\ dpStarts = MaxDpStarts))

Next == (Parts /\ UNCHANGED part) \/ (Over /\ UNCHANGED gstVars)

Spec == Init /\ [][Next]_gstVars /\ dpFairness
==============================================================================
