----------------------------- MODULE TcamConvert -----------------------------
(***************************************************************************)
(* tcamconvert (tcamconvert.cpp, tcamconvert_context.cpp): the converter    *)
(* looks for the camera upstream of it, claims the camera's software white  *)
(* balance and from then on applies the factors itself.  The white balance  *)
(* of an image is to be done once: by the camera's software unless it was   *)
(* claimed, by the converter if it was.                                     *)
(***************************************************************************)
EXTENDS Integers, Sequences, FiniteSets

CONSTANTS
    Sources,       \* the source elements that may be upstream
    MaxCvOpens,    \* bound on the openings of cameras
    MaxCvLinks     \* bound on the links made and broken

ASSUME ConvertAssumption == "none" \notin Sources /\ MaxCvOpens \in Nat

VARIABLES
    cvUp,          \* the source upstream of the converter, or "none" (also for an element that
                   \* has no camera, or not the signals "device-open" and "device-close")
    cvLinked,      \* its sink pad is linked, perhaps only to an element without a source
    cvReady,       \* the converter is READY or higher
    cv,            \* tcamconvert_context_base
    cam,           \* of each source: the opening it is in (0 when closed), whether its state is READY or
                   \* higher, whether the camera is lost, has a white balance to claim, has it claimed,
                   \* and how the last init_from_source on it ended
    cvFrame,       \* what was done to the last image
    cvOpens, cvLinks

cvVars == <<cvUp, cvLinked, cvReady, cv, cam, cvFrame, cvOpens, cvLinks>>

Closed == [open |-> 0, ready |-> FALSE, lost |-> FALSE, has |-> FALSE, claimed |-> FALSE, init |-> "none"]
NoFrameYet == [of |-> 0, camera |-> FALSE, apply |-> FALSE, factors |-> 0, read |-> TRUE]

(* factors is the opening the factors were last read from, 0 for the ones of the constructor *)
tcamconvert_context_base ==
    [src_element_ptr |-> "none", apply |-> FALSE, wb |-> 0, factors |-> 0, init_done |-> FALSE]

cvInit ==
    /\ cvUp = "none" /\ cvLinked = FALSE /\ cvReady = FALSE
    /\ cv = tcamconvert_context_base
    /\ cam = [s \in Sources |-> Closed]
    /\ cvFrame = NoFrameYet
    /\ cvOpens = 0 /\ cvLinks = 0

-----------------------------------------------------------------------------
(* tcamconvert_context.cpp *)

(* of a closed camera no property is found; one that is found may refuse the claim, and one    *)
(* that is claimed may not give the handles of its three factors                               *)
claim_results(c) ==
    IF c.open > 0 /\ c.has THEN {"applied", "refused", "no handles"} ELSE {"absent"}

Claim(c, result) == [c EXCEPT !.claimed = @ \/ result \in {"applied", "no handles"}, !.init = result]

(* mutant: apply is not reset for a camera without the property *)
InitKeepsApply(x, s, c) ==
    \E result \in claim_results(c) :
        /\ cv' = [x EXCEPT !.apply = @ \/ result = "applied",
                           !.wb = IF result = "applied" THEN c.open ELSE @, !.init_done = TRUE]
        /\ cam' = [cam EXCEPT ![s] = Claim(c, result)]

(* the claim is made on the camera c of s, and taken as an order to apply the factors *)
init_from_source(x, s, c) ==
    \E result \in claim_results(c) :
        /\ cv' = [x EXCEPT !.apply = result = "applied",
                           !.wb = IF result = "applied" THEN c.open ELSE @, !.init_done = TRUE]
        /\ cam' = [cam EXCEPT ![s] = Claim(c, result)]

on_device_closed(x) == [x EXCEPT !.init_done = FALSE, !.wb = 0]
on_input_pad_unlinked(x) == [on_device_closed(x) EXCEPT !.src_element_ptr = "none"]

(* Nothing upstream, or the source it is attached to: nothing to do.  While it is attached to  *)
(* another source the signal handles are taken, their connect is refused and it stays there.   *)
try_connect_to_source(up) ==
    LET attached == [cv EXCEPT !.src_element_ptr = up] IN
    IF up = "none" \/ cv.src_element_ptr # "none" THEN UNCHANGED <<cv, cam>>
    ELSE IF cam[up].ready THEN init_from_source(attached, up, cam[up])
    ELSE cv' = attached /\ cam' = cam

-----------------------------------------------------------------------------
Link ==
    /\ cvLinks < MaxCvLinks /\ cvLinks' = cvLinks + 1
    /\ ~cvLinked /\ cvLinked' = TRUE
    /\ \E s \in Sources \cup {"none"} : cvUp' = s /\ try_connect_to_source(s)
    /\ UNCHANGED <<cvReady, cvFrame, cvOpens>>

Unlink ==
    /\ cvLinks < MaxCvLinks /\ cvLinks' = cvLinks + 1
    /\ cvLinked /\ cvLinked' = FALSE
    /\ cvUp' = "none" /\ cv' = on_input_pad_unlinked(cv)
    /\ UNCHANGED <<cvReady, cam, cvFrame, cvOpens>>

(* a link further upstream is made or changed: the converter is not told *)
LinkUpstream ==
    /\ cvLinks < MaxCvLinks /\ cvLinks' = cvLinks + 1
    /\ cvLinked
    /\ \E s \in Sources : s # cvUp /\ cvUp' = s
    /\ UNCHANGED <<cvLinked, cvReady, cv, cam, cvFrame, cvOpens>>

(* the camera opens, and its "device-open" reaches the converter that is attached; the state *)
(* of the source becomes READY only after that                                               *)
DeviceOpen(s) ==
    /\ cam[s].open = 0 /\ ~cam[s].ready
    /\ cvOpens < MaxCvOpens /\ cvOpens' = cvOpens + 1
    /\ \E has \in BOOLEAN :
        LET d == [Closed EXCEPT !.open = cvOpens + 1, !.has = has] IN
        IF cv.src_element_ptr = s THEN init_from_source(cv, s, d)
        ELSE cam' = [cam EXCEPT ![s] = d] /\ cv' = cv
    /\ UNCHANGED <<cvUp, cvLinked, cvReady, cvFrame, cvLinks>>

(* "device-close" is emitted when the camera is lost, and again when it is closed *)
DeviceLost(s) ==
    /\ cam[s].open > 0 /\ cam[s].ready /\ ~cam[s].lost
    /\ cam' = [cam EXCEPT ![s].lost = TRUE]
    /\ cv' = IF cv.src_element_ptr = s THEN on_device_closed(cv) ELSE cv
    /\ UNCHANGED <<cvUp, cvLinked, cvReady, cvFrame, cvOpens, cvLinks>>

DeviceClose(s) ==
    /\ cam[s].open > 0 /\ cam[s].ready
    /\ cam' = [cam EXCEPT ![s] = [Closed EXCEPT !.ready = TRUE]]
    /\ cv' = IF cv.src_element_ptr = s THEN on_device_closed(cv) ELSE cv
    /\ UNCHANGED <<cvUp, cvLinked, cvReady, cvFrame, cvOpens, cvLinks>>

(* the state of the source follows the opening, or the closing, of its camera *)
SourceFollows(s) ==
    /\ cam[s].ready # (cam[s].open > 0)
    /\ cam' = [cam EXCEPT ![s].ready = ~@]
    /\ UNCHANGED <<cvUp, cvLinked, cvReady, cv, cvFrame, cvOpens, cvLinks>>

gst_tcamconvert_change_state ==
    /\ cvReady' = ~cvReady
    /\ IF cvReady THEN UNCHANGED <<cv, cam>> ELSE try_connect_to_source(cvUp)
    /\ UNCHANGED <<cvUp, cvLinked, cvFrame, cvOpens, cvLinks>>

(* fetch_balancewhite_values_from_source: a channel that cannot be read keeps its value *)
Fetched(x) ==
    IF x.src_element_ptr = "none" \/ ~x.apply THEN {[x |-> x, apply |-> FALSE, read |-> TRUE]}
    ELSE {[x |-> x, apply |-> TRUE, read |-> FALSE]} \cup
         (IF x.wb = 0 THEN {} ELSE {[x |-> [x EXCEPT !.factors = x.wb], apply |-> TRUE, read |-> TRUE]})

(* gst_tcamconvert_transform, gst_tcamconvert_transform_ip of an image of the source upstream: *)
(* one that cannot be mapped goes on unconverted                                               *)
Transform ==
    /\ cvReady /\ cvUp # "none" /\ cam[cvUp].open > 0
    /\ \E r \in Fetched(cv) \cup {[x |-> cv, apply |-> FALSE, read |-> FALSE]} :
        /\ cv' = r.x
        /\ cvFrame' = [of |-> cam[cvUp].open, camera |-> cam[cvUp].has /\ ~cam[cvUp].claimed,
                       apply |-> r.apply, factors |-> r.x.factors, read |-> r.read]
    /\ UNCHANGED <<cvUp, cvLinked, cvReady, cam, cvOpens, cvLinks>>

cvNext ==
    \/ Link \/ Unlink \/ LinkUpstream \/ gst_tcamconvert_change_state \/ Transform
    \/ \E s \in Sources : DeviceOpen(s) \/ DeviceLost(s) \/ DeviceClose(s) \/ SourceFollows(s)

cvSpec == cvInit /\ [][cvNext]_cvVars

-----------------------------------------------------------------------------
(* the source upstream is not the one the converter is attached to *)
Exchanged == cv.src_element_ptr \notin {"none", cvUp}

(* attached to an open camera that init_from_source was not called for *)
Uninitialised ==
    /\ cv.src_element_ptr # "none" /\ ~cv.init_done
    /\ cam[cv.src_element_ptr].open > 0 /\ ~cam[cv.src_element_ptr].lost

(* A converter misses the opening of its camera only when it is attached between the           *)
(* "device-open" of the source and its state READY.                                            *)
MissesOnlyTheOpening ==
    Uninitialised' /\ ~Uninitialised =>
        cv.src_element_ptr = "none" /\ ~cam[cv'.src_element_ptr].ready

(* A converter that is initialised for an open camera applies the white balance exactly when   *)
(* it is claimed, however the pads were linked and the cameras opened and closed, unless the   *)
(* camera refused the claim or gave no handles: then the converter does not apply it.          *)
AppliesWhatIsClaimed ==
    cv.src_element_ptr # "none" /\ cv.init_done /\ cam[cv.src_element_ptr].open > 0 =>
        \/ cv.apply = cam[cv.src_element_ptr].claimed
        \/ ~cv.apply /\ cam[cv.src_element_ptr].init \in {"refused", "no handles"}

(* An image is not white balanced both by its camera and by the converter, as long as the      *)
(* converter is initialised for what is upstream, or attached to nothing.  One that missed the *)
(* opening, or whose source was exchanged, may still apply the factors of an earlier camera.   *)
BalancedAtMostOnce ==
    cvFrame' # cvFrame /\ ~Exchanged /\ (cv.init_done \/ cv.src_element_ptr = "none") =>
        ~(cvFrame'.camera /\ cvFrame'.apply)

(* The factors applied to an image are those of the camera it is from, unless one of them     *)
(* could not be read: then they may be the previous camera's.                                 *)
FactorsAreTheCameras ==
    cvFrame' # cvFrame /\ cvFrame'.apply /\ cvFrame'.read /\ ~Exchanged =>
        cvFrame'.factors = cvFrame'.of

(* What a converter promises however pads are linked and cameras open, are lost and close: no *)
(* image is balanced twice, and one the converter balances with the factors of its camera.    *)
ConvertHolds ==
    [][/\ AppliesWhatIsClaimed' /\ MissesOnlyTheOpening
       /\ BalancedAtMostOnce /\ FactorsAreTheCameras]_cvVars
==============================================================================
