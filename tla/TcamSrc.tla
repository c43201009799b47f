------------------------------- MODULE TcamSrc -------------------------------
(***************************************************************************)
(* tcamsrc (gsttcamsrc.cpp): the source element that finds a camera through *)
(* the device monitor when it goes from NULL to READY, opens the element of *)
(* the camera's backend and forwards its own properties to it.  What the    *)
(* element keeps from one opening to the next, and what an opening that     *)
(* fails half way leaves behind, is what the properties are about.          *)
(*                                                                          *)
(* The state of the element is one record, so that tcambin can own one.     *)
(***************************************************************************)
EXTENDS Integers, Sequences, FiniteSets, FiniteSetsExt

CONSTANTS
    CameraOrder,   \* the cameras, [serial, type], in the order the device monitor lists them
    Settings,      \* the properties only forwarded to the camera's element ("camera-buffers", ...)
    CameraSettings,\* for each camera, those that the element of its backend has
    MaxTsOpens,    \* bound on the attempts to open
    MaxTsFaults,   \* bound on the cameras that refuse to open and the elements that are not created
    MaxTsSets      \* bound on the properties the application sets

(* a camera has a serial number and one of the types of libtcam *)
CameraId == [serial : STRING \ {""}, type : STRING \ {"", "unknown", "no such type"}]

ASSUME SourceAssumption ==
    /\ CameraOrder \in Seq(CameraId)
    /\ \A k \in DOMAIN CameraOrder : CameraSettings[CameraOrder[k]] \subseteq Settings
    /\ {MaxTsOpens, MaxTsFaults, MaxTsSets} \subseteq Nat

VARIABLES
    plugged,       \* the cameras the monitor sees
    ts,            \* tcamsrc_state, and the state of the element
    tsAsked,       \* what the application asked for: [serial, type, device]
    tsWant,        \* the value it last gave each of Settings
    tsWhileOpen,   \* the Settings whose last value was given to an open camera that is closed since
    tsInit,        \* "tcam-properties" and its json: not given, given, or applied n times
    tsLast,        \* the outcome of the last attempt to open
    tsFixed,       \* no attempt to open has stored a serial and type of its own since both were set, or
                   \* it has: ones that agree with what was asked for ("same"), or do not ("other")
    tsOpens, tsFaults, tsSets

tsVars == <<ts, tsAsked, tsWant, tsWhileOpen, tsInit, tsLast, tsFixed, tsOpens, tsFaults, tsSets>>
tsBounds == <<tsOpens, tsFaults, tsSets>>

Cameras == {CameraOrder[k] : k \in DOMAIN CameraOrder}
NoCamera == [serial |-> "", type |-> "unknown"]
Serials == {c.serial : c \in Cameras} \cup {""}
Types == {c.type : c \in Cameras} \cup {"unknown"}
InitKinds == {"struct", "json"}

(* tcamsrc_state as gst_tcam_src_init leaves it *)
gst_tcam_src_init ==
    [gst |-> "NULL", failed |-> FALSE, active |-> NoCamera, device_to_open |-> NoCamera,
     device_serial |-> "", device_type |-> "unknown",
     stored |-> [p \in Settings |-> 0],     \* cam_buffers, num_buffers, do_timestamp, drop_incomplete
     inUse |-> [p \in Settings |-> 0],      \* their values in the active source
     pending |-> {}]                        \* prop_init_gststructure_, prop_init_json_

is_open(s) == s.active # NoCamera

(* not so while the last change of state has failed, whatever the state is *)
is_gst_state_equal_or_less(s, states) == s.gst \in states /\ ~s.failed
is_state_null(s) == is_gst_state_equal_or_less(s, {"NULL"})

active_source_has_property(s, p) == is_open(s) /\ p \in CameraSettings[s.active]

-----------------------------------------------------------------------------
(* Opening *)

Matches(c, serial, type) ==
    /\ serial # "" => serial = c.serial
    /\ type # "unknown" => type = c.type

(* mutant: the type is not compared *)
FindBySerial(serial, type) ==
    LET found == {k \in DOMAIN CameraOrder :
                    CameraOrder[k] \in plugged /\ Matches(CameraOrder[k], serial, "unknown")}
    IN IF found = {} THEN NoCamera ELSE CameraOrder[Min(found)]

(* the first listed camera that matches *)
find_suitable_device(serial, type) ==
    LET found == {k \in DOMAIN CameraOrder :
                    CameraOrder[k] \in plugged /\ Matches(CameraOrder[k], serial, type)}
    IN IF found = {} THEN NoCamera ELSE CameraOrder[Min(found)]

selected_gst_device(s) ==
    IF s.device_to_open = NoCamera THEN find_suitable_device(s.device_serial, s.device_type)
    ELSE s.device_to_open

StoreId(s, c) == [s EXCEPT !.device_serial = c.serial, !.device_type = c.type]

(* the part of open_source_element after the camera's element is READY: an element keeps its *)
(* own value of what it does not have                                                        *)
Adopt(s, c) ==
    [StoreId(s, c) EXCEPT !.active = c, !.pending = {},
                          !.inUse = [p \in Settings |-> IF p \in CameraSettings[c] THEN s.stored[p] ELSE 0]]

open_source_element(s) ==
    LET c == selected_gst_device(s) IN
    CASE c = NoCamera -> {[why |-> "not found", s |-> s]}
      [] OTHER ->
           {[why |-> "no element", s |-> s],
            [why |-> "camera refused", s |-> StoreId(s, c)]}
           \cup (IF c \in plugged THEN {[why |-> "open", s |-> Adopt(s, c)]} ELSE {})

close_active_source_element(s) == [s EXCEPT !.active = NoCamera, !.inUse = [p \in Settings |-> 0]]

(* a fault of the camera or of its plugin, as opposed to one that is gone *)
IsFault(s, why) ==
    why = "no element" \/ (why = "camera refused" /\ selected_gst_device(s) \in plugged)

-----------------------------------------------------------------------------
(* gst_tcam_src_change_state *)

NULL_TO_READY ==
    /\ ts.gst = "NULL" /\ tsOpens < MaxTsOpens
    /\ \E r \in open_source_element(ts) :
        LET fault == IF IsFault(ts, r.why) THEN 1 ELSE 0 IN
        /\ tsFaults + fault <= MaxTsFaults
        /\ tsFaults' = tsFaults + fault
        /\ ts' = IF r.why = "open" THEN [r.s EXCEPT !.gst = "READY", !.failed = FALSE]
                 ELSE [r.s EXCEPT !.failed = TRUE]
        /\ tsLast' = r.why
        /\ tsFixed' = IF r.why \in {"open", "camera refused"} /\ tsFixed # "other"
                      THEN IF \/ tsAsked.device = NoCamera
                              \/ Matches(tsAsked.device, tsAsked.serial, tsAsked.type)
                           THEN "same" ELSE "other"
                      ELSE tsFixed
        /\ tsInit' = [k \in InitKinds |->
                        IF r.why = "open" /\ k \in ts.pending THEN tsInit[k] + 1 ELSE tsInit[k]]
    /\ tsOpens' = tsOpens + 1
    /\ UNCHANGED <<plugged, tsAsked, tsWant, tsWhileOpen, tsSets>>

Stream ==
    /\ \/ ts.gst = "READY" /\ ts' = [ts EXCEPT !.gst = "PLAYING"]
       \/ ts.gst = "PLAYING" /\ ts' = [ts EXCEPT !.gst = "READY"]
    /\ UNCHANGED <<plugged, tsAsked, tsWant, tsWhileOpen, tsInit, tsLast, tsFixed, tsBounds>>

READY_TO_NULL ==
    /\ ts.gst = "READY"
    /\ ts' = [close_active_source_element(ts) EXCEPT !.gst = "NULL"]
    /\ tsWhileOpen' = {p \in Settings : ts.stored[p] # tsWant[p]}
    /\ UNCHANGED <<plugged, tsAsked, tsWant, tsInit, tsLast, tsFixed, tsBounds>>

(* the application sets the state to NULL after an attempt that failed *)
NULL_TO_NULL ==
    /\ ts.failed /\ ts' = [ts EXCEPT !.failed = FALSE]
    /\ UNCHANGED <<plugged, tsAsked, tsWant, tsWhileOpen, tsInit, tsLast, tsFixed, tsBounds>>

-----------------------------------------------------------------------------
(* apply_element_property *)

SetOne == tsSets < MaxTsSets /\ tsSets' = tsSets + 1 /\ UNCHANGED <<plugged, tsOpens, tsFaults, tsLast>>

(* "A" or "A-v4l2": what comes before the first dash, and what comes after it *)
SerialStrings == [before : Serials, after : {""} \cup (Types \ {"unknown"}) \cup {"no such type"}]
separate_serial_and_type(string) == [s |-> string.before, t |-> string.after]
tcam_device_from_string(type) == IF type \in Types THEN type ELSE "unknown"

PROP_SERIAL ==
    \E string \in SerialStrings :
        LET st == separate_serial_and_type(string)
            type == tcam_device_from_string(st.t) IN
        /\ SetOne
        /\ IF ~is_state_null(ts) THEN UNCHANGED <<ts, tsAsked, tsFixed>>
           ELSE IF st.t # ""
           THEN /\ ts' = [ts EXCEPT !.device_serial = st.s, !.device_type = type]
                /\ tsAsked' = [tsAsked EXCEPT !.serial = string.before, !.type = type]
                /\ tsFixed' = "no"
           ELSE /\ ts' = [ts EXCEPT !.device_serial = st.s]
                /\ tsAsked' = [tsAsked EXCEPT !.serial = string.before]
                /\ UNCHANGED tsFixed
        /\ UNCHANGED <<tsWant, tsWhileOpen, tsInit>>

PROP_DEVICE_TYPE ==
    \E type \in Types :
        /\ SetOne
        /\ IF ~is_state_null(ts) THEN UNCHANGED <<ts, tsAsked>>
           ELSE /\ ts' = [ts EXCEPT !.device_type = type]
                /\ tsAsked' = [tsAsked EXCEPT !.type = type]
        /\ UNCHANGED <<tsWant, tsWhileOpen, tsInit, tsFixed>>

PROP_TCAMDEVICE ==
    \E c \in Cameras \cup {NoCamera} :
        /\ SetOne
        /\ IF ~is_state_null(ts) THEN UNCHANGED <<ts, tsAsked>>
           ELSE /\ ts' = [ts EXCEPT !.device_to_open = c]
                /\ tsAsked' = [tsAsked EXCEPT !.device = c]
        /\ UNCHANGED <<tsWant, tsWhileOpen, tsInit, tsFixed>>

(* PROP_CAMERA_BUFFERS, PROP_NUM_BUFFERS, PROP_DO_TIMESTAMP, PROP_DROP_INCOMPLETE_BUFFER: what  *)
(* the open camera's element does not have is dropped                                          *)
PROP_SETTING ==
    \E p \in Settings, v \in 0..1 :
        /\ SetOne
        /\ ts' = IF active_source_has_property(ts, p) THEN [ts EXCEPT !.inUse[p] = v]
                 ELSE IF is_open(ts) THEN ts ELSE [ts EXCEPT !.stored[p] = v]
        /\ tsWant' = [tsWant EXCEPT ![p] = v]
        /\ tsWhileOpen' = tsWhileOpen \ {p}
        /\ UNCHANGED <<tsAsked, tsInit, tsFixed>>

(* PROP_TCAM_PROPERTIES_GSTSTRUCT, PROP_TCAM_PROPERTIES_JSON, given once each *)
PROP_TCAM_PROPERTIES ==
    \E k \in InitKinds :
        /\ SetOne /\ tsInit[k] = -1
        /\ ts' = IF is_open(ts) THEN ts ELSE [ts EXCEPT !.pending = @ \cup {k}]
        /\ tsInit' = [tsInit EXCEPT ![k] = IF is_open(ts) THEN 1 ELSE 0]
        /\ UNCHANGED <<tsAsked, tsWant, tsWhileOpen, tsFixed>>

-----------------------------------------------------------------------------
(* a camera is plugged in or, while it is not open, taken away *)
Plug ==
    \E c \in Cameras :
        /\ c # ts.active
        /\ plugged' = IF c \in plugged THEN plugged \ {c} ELSE plugged \cup {c}
        /\ UNCHANGED tsVars

tsInitial ==
    /\ plugged = Cameras
    /\ ts = gst_tcam_src_init
    /\ tsAsked = [serial |-> "", type |-> "unknown", device |-> NoCamera]
    /\ tsWant = [p \in Settings |-> 0]
    /\ tsWhileOpen = {}
    /\ tsInit = [k \in InitKinds |-> -1]
    /\ tsLast = "none" /\ tsFixed = "no"
    /\ tsOpens = 0 /\ tsFaults = 0 /\ tsSets = 0

tsNext ==
    \/ NULL_TO_READY \/ Stream \/ READY_TO_NULL \/ NULL_TO_NULL
    \/ PROP_SERIAL \/ PROP_DEVICE_TYPE \/ PROP_TCAMDEVICE \/ PROP_SETTING \/ PROP_TCAM_PROPERTIES
    \/ Plug

tsSpec == tsInitial /\ [][tsNext]_<<plugged, tsVars>>

-----------------------------------------------------------------------------
(* The variables have the values the code gives them. *)
TsTypeOK ==
    /\ plugged \subseteq Cameras
    /\ ts.active \in Cameras \cup {NoCamera} /\ ts.device_serial \in Serials /\ ts.device_type \in Types
    /\ ts.gst \in {"NULL", "READY", "PLAYING"} /\ (ts.failed => ts.gst = "NULL")
    /\ ts.pending \subseteq InitKinds
    /\ tsInit \in [InitKinds -> Int]

(* The camera tcamsrc has open is the one the application asked for: the device it assigned, *)
(* or one with the serial and the type it set, however many attempts failed and whichever    *)
(* cameras came and went.  Only after an assigned device of another serial or type was tried  *)
(* and then unassigned does open_source_element look for the id it stored itself.            *)
OpensTheCameraAskedFor ==
    is_open(ts) =>
        IF tsAsked.device # NoCamera THEN ts.active = tsAsked.device
        ELSE Matches(ts.active, tsAsked.serial, tsAsked.type) \/ tsFixed = "other"

(* "tcam-properties" and "tcam-properties-json" given to a closed tcamsrc reach exactly one  *)
(* camera: attempts that fail keep them (open_source_element clears them last), and a camera *)
(* opened later does not get them again.                                                     *)
InitialPropertiesApplyOnce ==
    \A k \in InitKinds :
        /\ tsInit[k] <= 1
        /\ tsInit[k] = 0 <=> k \in ts.pending

(* The open camera runs with the last value the application gave each setting its element    *)
(* has, except one given to a camera that was closed since: open_source_element starts the next   *)
(* camera from tcamsrc_state, which apply_element_property only updates while closed.        *)
LastSettingIsInUse ==
    \A p \in Settings :
        active_source_has_property(ts, p) /\ ts.inUse[p] # tsWant[p] => p \in tsWhileOpen

(* What tcamsrc promises over openings that fail and cameras that come and go: the camera,   *)
(* the initial properties and the settings are those the application asked for.              *)
SourceHolds ==
    TsTypeOK /\ OpensTheCameraAskedFor /\ InitialPropertiesApplyOnce /\ LastSettingIsInUse
==============================================================================
