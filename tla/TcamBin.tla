------------------------------- MODULE TcamBin -------------------------------
(***************************************************************************)
(* tcambin (gsttcambin.cpp): the bin that builds tcamsrc ! capsfilter !     *)
(* converter when it goes from NULL to READY, chooses the caps of the       *)
(* source when it goes to PAUSED and takes everything apart on the way to   *)
(* NULL.  Every step of an opening may fail, and what the code then leaves  *)
(* in the bin is there when the next opening starts.                        *)
(*                                                                          *)
(* Caps are abstracted to the set of formats they allow; the choice inside  *)
(* that set is the subject of CapsSelect.                                   *)
(***************************************************************************)
EXTENDS TcamSrc

CONSTANTS
    CameraFormats, \* the formats of each camera
    Converters,    \* the conversion elements that are installed: "tcamconvert" and perhaps others
    UserCaps,      \* the values of device-caps, sets of formats
    MaxBnOpens,    \* bound on the attempts to open
    MaxBnFaults,   \* bound on the steps of an opening that fail
    MaxBnSets      \* bound on the properties the application sets

VARIABLES
    bn,            \* tcambin_data, and the state of the bin
    bnAsked,       \* the camera asked for since the last opening: [serial, type, device]
    bnFor,         \* what the application had asked for when the bin last became READY
    bnInit,        \* "tcam-properties" and its json: not given (-1), or applied n times
    bnLast,        \* the outcome of the last change of state
    bnStreamed,    \* this opening has been PAUSED
    bnFromReady,   \* the opening before this one was closed without ever being PAUSED
    bnCapsFor,     \* the device-caps as the application gave them
    bnOpens, bnFaults, bnSets

bnVars == <<bn, bnAsked, bnFor, bnInit, bnLast, bnStreamed, bnFromReady, bnCapsFor, bnOpens, bnFaults, bnSets>>
bnBounds == <<bnOpens, bnFaults, bnSets>>

None == {"none"}
Nobody == [serial |-> "", type |-> "unknown", device |-> NoCamera]

gst_tcambin_init ==
    [gst |-> "NULL", failed |-> FALSE,
     device_serial |-> "", device_type |-> "unknown", prop_tcam_device |-> NoCamera,
     prop_init |-> {},
     user_caps |-> None, available_caps |-> {}, src_caps |-> None,
     user_selector |-> "auto", selected_conversion |-> "tcamconvert",
     src_element |-> NoCamera,    \* the camera of the recorded source
     src_open |-> FALSE,
     children |-> {},             \* the names in the bin
     own |-> {},                  \* those of them that tcambin_data points to
     dangling |-> {},             \* those that tcambin_data has a pointer to a freed element for
     elements_created |-> FALSE, target_set |-> FALSE, ghost |-> FALSE]

Crashed(d) == [d EXCEPT !.gst = "crashed"]
Fail(d) == [d EXCEPT !.failed = TRUE]

-----------------------------------------------------------------------------
(* Building and taking apart *)

(* mutant: the source is removed but not set to NULL *)
ClearOpenSource(d) ==
    [d EXCEPT !.src_element = NoCamera, !.children = @ \ (d.own \cap {"source"}), !.own = @ \ {"source"}]

gst_tcambin_clear_source(d) ==
    [d EXCEPT !.src_element = NoCamera, !.src_open = FALSE,
              !.children = @ \ (d.own \cap {"source"}), !.own = @ \ {"source"}]

(* jpegdec and videoconvert go together *)
gst_tcambin_clear_elements(d) ==
    LET gone == (d.own \cap {"capsfilter", "converter"}) \cup
                (IF "jpegdec" \in d.own THEN d.own \cap {"jpegdec", "videoconvert"} ELSE {})
    IN [d EXCEPT !.children = @ \ gone, !.own = @ \ gone, !.elements_created = FALSE]

(* the choice made without the user replaces the user's *)
select_transform_element(d) ==
    LET best == CASE "tcamdutils" \in Converters -> "tcamdutils"
                  [] "tcamdutils-cuda" \in Converters -> "tcamdutils-cuda"
                  [] OTHER -> "tcamconvert"
    IN IF d.user_selector = "auto" THEN [d EXCEPT !.user_selector = best, !.selected_conversion = best]
       ELSE IF d.user_selector \in Converters THEN [d EXCEPT !.selected_conversion = d.user_selector]
       ELSE [d EXCEPT !.selected_conversion = "auto"]

(* an element whose name is taken is not added, and freed unless it has another reference *)
gst_bin_add(d, name) ==
    IF name \in d.children THEN [d EXCEPT !.own = @ \ {name}]
    ELSE [d EXCEPT !.children = @ \cup {name}, !.own = @ \cup {name}]

tcambin_filter_formats(formats) == formats \ {"bgr", "yuv"}

(* the tcamsrc that is created; a device is asked for its own element *)
NewSource(d) == [gst_tcam_src_init EXCEPT !.device_serial = d.device_serial, !.device_type = d.device_type,
                                          !.device_to_open = d.prop_tcam_device]

tcambin_create_source(old) ==
    LET d == gst_tcambin_clear_source(old) IN
    {IF d.prop_tcam_device # NoCamera /\ r.why = "no element" THEN [why |-> r.why, d |-> Fail(d)]
     ELSE IF r.why # "open" THEN [why |-> r.why, d |-> [Fail(d) EXCEPT !.children = @ \cup {"source"}]]
     ELSE [why |-> "open",
           d |-> [gst_bin_add(d, "source") EXCEPT
                    !.src_element = r.s.active, !.src_open = TRUE,
                    !.device_serial = "", !.device_type = "unknown", !.prop_tcam_device = NoCamera,
                    !.available_caps = tcambin_filter_formats(CameraFormats[r.s.active])]]
     : r \in open_source_element(NewSource(d))}

(* the names of the elements behind the capsfilter, in the order they are created *)
ConverterNames(d) ==
    IF "jpeg" \in d.available_caps THEN <<"jpegdec", "videoconvert">> ELSE <<"converter">>

(* An element that is not added because of its name is freed, and then linked all the same.  *)
(* One whose plugin is missing ends the opening; so does a source that is not in the bin.    *)
RECURSIVE AddElements(_, _)
AddElements(d, names) ==
    IF names = <<>> THEN {[why |-> "ready", d |-> [d EXCEPT !.elements_created = TRUE]]}
    ELSE LET name == Head(names) IN
         (IF name = "capsfilter" THEN {} ELSE {[why |-> "no plugin", d |-> d]})
         \cup (IF name \in d.children
               THEN {[why |-> "crash", d |-> Crashed(d)],
                     [why |-> "not linked", d |-> [gst_bin_add(d, name) EXCEPT !.dangling = @ \cup {name}]]}
               ELSE IF name = "capsfilter" /\ "source" \notin d.own
               THEN {[why |-> "not linked", d |-> gst_bin_add(d, name)]}
               ELSE AddElements(gst_bin_add(d, name), Tail(names)))

(* the assert is compiled in or not *)
tcambin_create_elements(d) ==
    (IF d.elements_created THEN {[why |-> "crash", d |-> Crashed(d)]} ELSE {})
    \cup AddElements(d, <<"capsfilter">> \o ConverterNames(d))

set_target_pad(d) == [d EXCEPT !.ghost = ~d.target_set, !.target_set = TRUE]

(* the properties go to the camera before the elements become READY *)
InitialProperties(d) == [d EXCEPT !.prop_init = {}]

(* an external converter may refuse to become READY: GstBin puts its children back to NULL *)
ChildrenReady(d) ==
    {[why |-> "ready", d |-> [d EXCEPT !.gst = "READY", !.failed = FALSE]]}
    \cup (IF "converter" \in d.own /\ d.selected_conversion \notin {"auto", "tcamconvert"}
          THEN {[why |-> "converter", d |-> [Fail(d) EXCEPT !.src_open = FALSE]]} ELSE {})

(* everything GST_STATE_CHANGE_NULL_TO_READY does *)
BinOpen(d) ==
    UNION {IF s.why # "open" THEN {s}
           ELSE UNION {CASE e.why = "ready" -> ChildrenReady(InitialProperties(set_target_pad(e.d)))
                         [] e.why = "crash" -> {e}
                         [] OTHER -> {[why |-> e.why, d |-> Fail(gst_tcambin_clear_source(e.d))]}
                       : e \in tcambin_create_elements(s.d)}
           : s \in tcambin_create_source(select_transform_element(d))}

(* the faults of the elements behind the source *)
BinFaults == {"no plugin", "converter"}

-----------------------------------------------------------------------------
(* gst_tcam_bin_change_state *)

BinNULL_TO_READY ==
    /\ bn.gst = "NULL" /\ bnOpens < MaxBnOpens
    /\ \E r \in BinOpen(bn) :
        LET fault == IF r.why \in BinFaults \/ IsFault(NewSource(bn), r.why) THEN 1 ELSE 0 IN
        /\ bnFaults + fault <= MaxBnFaults
        /\ bnFaults' = bnFaults + fault
        /\ bn' = r.d /\ bnLast' = r.why
        /\ bnInit' = [k \in InitKinds |->
                        IF k \in bn.prop_init /\ r.why \in {"ready", "converter"} THEN bnInit[k] + 1 ELSE bnInit[k]]
        /\ bnFor' = IF r.why = "ready" THEN bnAsked ELSE bnFor
        /\ bnAsked' = IF r.why = "ready" THEN Nobody ELSE bnAsked
    /\ bnOpens' = bnOpens + 1
    /\ UNCHANGED <<plugged, bnStreamed, bnFromReady, bnCapsFor, bnSets>>

(* without device-caps, also the formats that available_caps leaves out *)
UsableFormats(d) ==
    IF d.user_caps = None THEN CameraFormats[d.src_element] ELSE d.user_caps \cap d.available_caps

(* the sink downstream may accept nothing of what is available *)
BinREADY_TO_PAUSED ==
    /\ bn.gst = "READY"
    /\ LET usable == UsableFormats(bn)
           fixed == [bn EXCEPT !.user_caps = IF bn.user_caps = None THEN None ELSE usable]
       IN IF usable = {}
          THEN bn' = Fail(bn) /\ bnLast' = "device-caps" /\ UNCHANGED bnStreamed
          ELSE \/ bn' = Fail(fixed) /\ bnLast' = "sink caps" /\ UNCHANGED bnStreamed
               \/ \E f \in usable :
                    /\ bn' = [fixed EXCEPT !.gst = "PAUSED", !.failed = FALSE, !.src_caps = {f}]
                    /\ bnLast' = "paused" /\ bnStreamed' = TRUE
    /\ UNCHANGED <<plugged, bnAsked, bnFor, bnInit, bnFromReady, bnCapsFor, bnBounds>>

BinPAUSED_TO_READY ==
    /\ bn.gst = "PAUSED"
    /\ bn' = [bn EXCEPT !.gst = "READY", !.target_set = FALSE, !.src_caps = None]
    /\ bnLast' = "stopped"
    /\ UNCHANGED <<plugged, bnAsked, bnFor, bnInit, bnStreamed, bnFromReady, bnCapsFor, bnBounds>>

BinREADY_TO_NULL ==
    /\ bn.gst = "READY"
    /\ bn' = [gst_tcambin_clear_elements(gst_tcambin_clear_source(bn)) EXCEPT
                !.gst = "NULL", !.failed = FALSE, !.ghost = FALSE]
    /\ bnFromReady' = ~bnStreamed /\ bnStreamed' = FALSE
    /\ bnLast' = "closed"
    /\ UNCHANGED <<plugged, bnAsked, bnFor, bnInit, bnCapsFor, bnBounds>>

BinNULL_TO_NULL ==
    /\ bn.gst = "NULL" /\ bn.failed /\ bn' = [bn EXCEPT !.failed = FALSE]
    /\ UNCHANGED <<plugged, bnAsked, bnFor, bnInit, bnLast, bnStreamed, bnFromReady, bnCapsFor, bnBounds>>

(* the bin is NULL, as GStreamer demands; a dangling pointer is used like any other *)
gst_tcambin_dispose ==
    /\ bn.gst = "NULL"
    /\ \/ /\ bn' = [gst_tcambin_clear_elements(gst_tcambin_clear_source(bn)) EXCEPT
                      !.gst = "gone", !.ghost = FALSE, !.dangling = {}]
          /\ bnLast' = "gone"
       \/ bn.dangling # {} /\ bn' = Crashed(bn) /\ bnLast' = "crash"
    /\ UNCHANGED <<plugged, bnAsked, bnFor, bnInit, bnStreamed, bnFromReady, bnCapsFor, bnBounds>>

-----------------------------------------------------------------------------
(* gst_tcambin_set_property *)

BinSetOne ==
    /\ bn.gst \notin {"crashed", "gone"} /\ bnSets < MaxBnSets /\ bnSets' = bnSets + 1
    /\ UNCHANGED <<plugged, bnOpens, bnFaults, bnLast, bnFor, bnStreamed, bnFromReady>>

BinIdentity ==
    /\ BinSetOne
    /\ \/ \E a \in Serials :
            IF ~is_state_null(bn) THEN UNCHANGED <<bn, bnAsked>>
            ELSE bn' = [bn EXCEPT !.device_serial = a] /\ bnAsked' = [bnAsked EXCEPT !.serial = a]
       \/ \E t \in Types :
            IF ~is_state_null(bn) THEN UNCHANGED <<bn, bnAsked>>
            ELSE bn' = [bn EXCEPT !.device_type = t] /\ bnAsked' = [bnAsked EXCEPT !.type = t]
    /\ UNCHANGED <<bnInit, bnCapsFor>>

BinTcamDevice ==
    /\ BinSetOne
    /\ \E c \in Cameras \cup {NoCamera} :
            IF ~is_state_null(bn) THEN UNCHANGED <<bn, bnAsked>>
            ELSE bn' = [bn EXCEPT !.prop_tcam_device = c] /\ bnAsked' = [bnAsked EXCEPT !.device = c]
    /\ UNCHANGED <<bnInit, bnCapsFor>>

BinDeviceCaps ==
    \E caps \in UserCaps :
        /\ BinSetOne
        /\ IF ~is_gst_state_equal_or_less(bn, {"NULL", "READY"}) THEN UNCHANGED <<bn, bnCapsFor>>
           ELSE bn' = [bn EXCEPT !.user_caps = caps] /\ bnCapsFor' = caps
        /\ UNCHANGED <<bnAsked, bnInit>>

BinConversionElement ==
    \E conversion \in {"auto", "tcamconvert", "tcamdutils", "tcamdutils-cuda"} :
        /\ BinSetOne
        /\ bn' = IF is_state_null(bn) THEN [bn EXCEPT !.user_selector = conversion] ELSE bn
        /\ UNCHANGED <<bnAsked, bnInit, bnCapsFor>>

(* the two forms of tcam-properties, given once each *)
BinTcamProperties ==
    \E k \in InitKinds :
        /\ BinSetOne /\ bnInit[k] = -1
        /\ bn' = IF bn.elements_created THEN bn ELSE [bn EXCEPT !.prop_init = @ \cup {k}]
        /\ bnInit' = [bnInit EXCEPT ![k] = IF bn.elements_created THEN 1 ELSE 0]
        /\ UNCHANGED <<bnAsked, bnCapsFor>>

BinPlug ==
    \E c \in Cameras :
        /\ c # bn.src_element
        /\ plugged' = IF c \in plugged THEN plugged \ {c} ELSE plugged \cup {c}
        /\ UNCHANGED bnVars

bnInitial ==
    /\ plugged = Cameras /\ bn = gst_tcambin_init
    /\ bnAsked = Nobody /\ bnFor = Nobody
    /\ bnInit = [k \in InitKinds |-> -1]
    /\ bnLast = "none" /\ bnStreamed = FALSE /\ bnFromReady = FALSE /\ bnCapsFor = None
    /\ bnOpens = 0 /\ bnFaults = 0 /\ bnSets = 0

bnNext ==
    \/ BinNULL_TO_READY \/ BinREADY_TO_PAUSED \/ BinPAUSED_TO_READY \/ BinREADY_TO_NULL \/ BinNULL_TO_NULL
    \/ BinIdentity \/ BinTcamDevice \/ BinDeviceCaps \/ BinConversionElement \/ BinTcamProperties
    \/ gst_tcambin_dispose \/ BinPlug

-----------------------------------------------------------------------------
(* In NULL no hardware is open, whichever step of an opening failed; from READY on it is.    *)
NullHoldsNoCamera ==
    /\ bn.gst \in {"NULL", "gone"} => ~bn.src_open
    /\ bn.gst \in {"READY", "PAUSED"} => bn.src_open /\ bn.elements_created

(* All internal elements are discarded on the way to NULL, however often the bin was opened: *)
(* what is in the bin in NULL, or loses its owner, is left by an opening that failed.        *)
ClosedBinIsEmpty ==
    /\ bnLast = "closed" => bn.children = {} /\ bn.own = {}
    /\ bn.gst \in {"READY", "PAUSED"} => bn.children = bn.own

(* The source pad of a bin that streams leads to its converter, unless the bin was closed    *)
(* from READY before this opening: target_set is only reset on the way down from PAUSED.     *)
PadLeadsToConverter ==
    bn.gst = "PAUSED" => bn.ghost \/ bnFromReady

(* The camera of a READY bin has the serial and type, or is the device, that was asked for   *)
(* since the last opening, after any failed attempts and cameras that came and went.         *)
BinOpensTheCameraAskedFor ==
    bn.gst \in {"READY", "PAUSED"} =>
        IF bnFor.device # NoCamera THEN bn.src_element = bnFor.device
        ELSE Matches(bn.src_element, bnFor.serial, bnFor.type)

(* The format of the source is one the camera offers and the device-caps allow, as long as   *)
(* the application gave some.                                                                *)
SourceFormatIsAllowed ==
    bn.gst = "PAUSED" =>
        /\ bn.src_caps \subseteq CameraFormats[bn.src_element]
        /\ bnCapsFor # None => bn.src_caps \subseteq bnCapsFor

(* Initial properties are applied at most once, and stay pending until they are.             *)
BinInitialPropertiesOnce ==
    \A k \in InitKinds : bnInit[k] <= 1 /\ (bnInit[k] = 0) = (k \in bn.prop_init)

(* Device-caps are refused as "not supported by the device" only when the camera has none of  *)
(* the formats they allow, or when an earlier camera has narrowed them: each opening replaces  *)
(* user_caps by what the camera of the time could do.                                          *)
RefusedCapsAreUnsupported ==
    bnLast = "device-caps" /\ bn.user_caps = bnCapsFor /\ bn.gst = "READY" =>
        bnCapsFor \cap tcambin_filter_formats(CameraFormats[bn.src_element]) = {}

(* What tcambin promises over openings any step of which fails: what it holds in which state, *)
(* where its pad leads, and that camera, properties and format are those asked for.          *)
BinHolds ==
    /\ NullHoldsNoCamera /\ ClosedBinIsEmpty /\ PadLeadsToConverter /\ BinOpensTheCameraAskedFor
    /\ SourceFormatIsAllowed /\ BinInitialPropertiesOnce /\ RefusedCapsAreUnsupported
==============================================================================
