------------------------------ MODULE MCLibrary ------------------------------
(***************************************************************************)
(* The parts of libtcam below the pipeline, its image filters, and the     *)
(* viewer tcam-capture, for TLC.  A behaviour is one of a single part:     *)
(* they share no state here, so one run checks them side by side.          *)
(***************************************************************************)
EXTENDS V4l2Watchdog, SoftwareProperties, AutoRegion, PixelPack, ImageFilter, TcamProp,
        Backends, DeviceProps, TcamCapture, TLC

VARIABLE part
lbVars == <<part, vars, swVars, arVars, pkVars, imVars, tpVars, bkVars, dvVars, tcVars>>

MCArImages == {<<128, 200>>, <<256, 128>>, <<300, 100>>}
MCPkWidths == {1, 8, 9, 12, 16, 20, 24, 28, 36}
MCImDims == {<<16, 2>>, <<18, 2>>, <<20, 2>>, <<32, 2>>, <<34, 4>>, <<50, 2>>}

(* cameras with and without controls of their own, and each way to balance *)
MCSwCameras == {[has |-> {"exposure","gain"}, balance |-> "device"], [has |-> {"exposure","gain","iris"}, balance |-> "none"],[has |-> {"iris"}, balance |-> "software"],[has |-> {}, balance |-> "hdr"]}
MCSwRange == [c \in Controls |-> CASE c="exposure" -> [min|->20,max|->48] [] c = "gain" -> [min|->0,max|->2] [] OTHER -> [min|->0,max|->4]]
MCSwTargets == [c \in Controls |-> CASE c="exposure" -> {20,40} [] c = "gain" -> {0,2} [] OTHER -> {0,3}]

(* properties of every type, one locked by another; settings of every type *)
TypedProp(type, access, max, by) == [type |-> type, access |-> access, max |-> max, lockedBy |-> by]
Setting(n, y, v) == [name |-> n, gtype |-> y, n |-> v]
MCTpProps == [auto |-> TypedProp("boolean", "RW", 1, {}), time |-> TypedProp("integer", "RW", 1, {"auto"}),
  gain |-> TypedProp("float", "RW", 1, {}), mode |-> TypedProp("enumeration", "RW", 1, {}), serial |-> TypedProp("string", "RO", 1, {}),
  trigger |-> TypedProp("command", "WO", 0, {}), name |-> TypedProp("string", "RW", 1, {})]
MCTpCameras == {{"auto", "time"}, {"gain", "mode", "serial"}, {"trigger", "name"}}
MCTpNames == {"time", "none"}
MCTpLists == {<<Setting("time", "double", 1), Setting("auto", "int", 0)>>, <<Setting("auto", "bool", 1), Setting("time", "int", 1)>>, 
   <<Setting("none", "int", 1), Setting("time", "int", 2), Setting("auto", "double", 1)>>,
   <<Setting("mode", "string", 1), Setting("gain", "bool", 1), Setting("name", "other", 1), Setting("trigger", "bool", 1), Setting("serial", "string", 1)>>,
   <<Setting("mode", "other", 1), Setting("gain", "int", 1), Setting("name", "int", 1), Setting("auto", "bool", 0)>>,
   <<Setting("mode", "int", 2), Setting("time", "string", 1)>>, <<Setting("mode", "int", 1), Setting("mode", "string", 2)>>}

(* GigE, UVC and AFU cameras that differ in the features set_format uses   *)
Cam(p, x, y, w, h, r) == [pixel |-> p, x |-> x, y |-> y, w |-> w, h |-> h, bh |-> 1, bv |-> 1, sh |-> 1, sv |-> 1,
   rate |-> r, selector |-> "FrameStart", mode |-> "Off", scan |-> 1]
Net(serial, formats, min, test, node, rates, offset, features, coupled) ==
  [bus |-> "net", serial |-> serial, vendor |-> "tis", product |-> "gige", formats |-> formats, min |-> min, sensor |-> <<17, 13>>,
   step |-> <<2, 2>>, test |-> test, rateNode |-> node, rates |-> rates, offset |-> offset, features |-> features,
   factors |-> {1, 2, 3}, coupled |-> coupled, scaled |-> coupled \/ "Binning" \in features,
   starts |-> {Cam(formats[1], 0, 0, 17, 13, Max(rates))} \cup (IF offset /\ min # <<17, 13>> THEN {Cam(formats[1], 1, 2, 4, 4, Max(rates))} ELSE {})
     \cup (IF "Binning" \in features THEN {[bh |-> 2, bv |-> 2] @@ Cam(formats[1], 0, 0, 8, 6, Max(rates))} ELSE {})]
Uvc(serial, descs, features) ==
  [bus |-> "usb", serial |-> serial, vendor |-> "tis", product |-> "uvc", descs |-> descs,
   sizes |-> << [size |-> <<8, 6>>, rates |-> {15000, 30000}], [size |-> <<4, 3>>, rates |-> {30000, 60000}] >>,
   features |-> features, factors |-> {1, 2, 3, 4},
   modes |-> (1 :> [id |-> 1, scaling |-> Scale(1,1,1,1)]) @@ (2 :> [id |-> 2, scaling |-> Scale(2,2,1,1)]) @@ (3 :> [id |-> 1, scaling |-> Scale(4,4,1,1)]),
   starts |-> {Cam(descs[1][1], 0, 0, 8, 6, 30000)}]
Other(serial, vendor, product) == [bus |-> "usb", serial |-> serial, vendor |-> vendor, product |-> product]
MCBkAll == [
  n1 |-> Net("1", <<"Mono8", "Mono8Signed", "BayerGR8">>, <<2, 2>>, FALSE, "none", {15000, 30000}, TRUE, {}, FALSE),
  n2 |-> Net("2", <<"Mono8">>, <<2, 2>>, TRUE, "float", {15000}, TRUE, {"BinningHorizontal", "BinningVertical", "DecimationHorizontal", "DecimationVertical"}, TRUE),
  n3 |-> Net("3", <<"Mono8">>, <<2, 2>>, FALSE, "enum", {15003, 29998}, FALSE, {"Binning"}, FALSE),
  n4 |-> Net("4", <<"Mono8">>, <<17, 13>>, FALSE, "float", {15000}, FALSE, {"BinningHorizontal", "BinningVertical"}, FALSE),
  n5 |-> Net("5", <<"Mono8", "PolarizedUsb3">>, <<2, 2>>, TRUE, "float", {15000}, FALSE, {"DecimationHorizontal", "DecimationVertical"}, FALSE),
  n6 |-> [Net("6", <<"Mono8">>, <<2, 2>>, TRUE, "float", {15000}, FALSE, {}, FALSE) EXCEPT !.product = "blacklisted"],
  v1 |-> Uvc("7", << <<"GREY", "grey">>, <<"YUY2", "yuv">> >>, {"Binning"}),
  v2 |-> Uvc("8", << <<"GREY", "grey">>, <<"0", "guid">> >>, {"Binning", "Skipping"}),
  v3 |-> Uvc("9", << <<"GREY", "grey">> >>, {"Override Scanning Mode", "Scanning Mode Flags"}),
  v4 |-> Uvc("9", << <<"GREY", "grey">> >>, {"BinningHorizontal", "BinningVertical"}),
  v5 |-> Uvc("a", << <<"GREY", "grey">> >>, {"Override Scanning Mode"}),
  v6 |-> Uvc("b", << <<"GREY", "grey">> >>, {"Skipping"}),
  a1 |-> Other("c", "tis", "afu"), a2 |-> Other("d", "tis", "afu"),
  o1 |-> [Uvc("e", << <<"YUY2", "yuv">> >>, {}) EXCEPT !.vendor = "other"], o2 |-> [Uvc("f", << <<"YUY2", "yuv">> >>, {}) EXCEPT !.product = "usb2pro"]]
MCBkUnits == [u \in DOMAIN MCBkAll |-> MCBkAll[u]]
MCBkPaths == <<"usb", "usb", "net">>
MCBkLayouts == {<<"v1", "v2", "n1">>, <<"v3", "v4", "n2">>, <<"a1", "a2", "n3">>, <<"o1", "v5", "n4">>, <<"v6", "none", "n5">>, <<"o2", "a1", "n6">>}

(* cameras of each backend, each with the properties that are mapped to others *)
Ctrl(id, kind, min, max, step) == [id |-> id, kind |-> kind, min |-> min, max |-> max, step |-> step, menu |-> <<>>, off |-> FALSE]
Usb(type, sensor, ctrls, formats, asks, init) ==
  [family |-> "v4l2", type |-> type, sensor |-> sensor, ctrls |-> ctrls, nodes |-> <<>>, ois |-> FALSE,
   ranges |-> <<>>, size |-> <<32, 16>>, formats |-> formats, asks |-> asks, init |-> init]
Node(kind, max, menu) == [kind |-> kind, impl |-> TRUE, kids |-> <<>>, min |-> 0, max |-> max, step |-> 1, menu |-> menu]
Category(kids) == [Node("Category", 0, <<>>) EXCEPT !.kids = kids]
Arv(nodes, asks, init) ==
  [Usb("", "", <<>>, {}, asks, init) EXCEPT !.family = "arv", !.nodes = nodes]
Afu(family, ois, asks, init) ==
  [Usb("", "", <<>>, {}, asks, init) EXCEPT !.family = family, !.ois = ois, !.ranges = [min |-> 0, max |-> 4, step |-> 1]]
RGB == << <<1, "Red">>, <<2, "Green">>, <<3, "Blue">> >>

MCDvAll == [
  exposure |-> Usb("dxk33u", "P2000",
     <<Ctrl("EXPOSURE_ABSOLUTE", "Integer", 0, 9, 1), Ctrl("199e201", "Integer", 1, 6, 1),
       [Ctrl("EXPOSURE_AUTO", "Enum", 0, 3, 1) EXCEPT !.menu = << <<1, "Manual">>, <<3, "Aperture">> >>],
       Ctrl("199e202", "Bool", 0, 1, 1), Ctrl("GAIN", "Integer", -2, 9, 1), Ctrl("199e205", "Bool", 0, 1, 1),
       Ctrl("199e240", "Integer", 0, 9, 1), Ctrl("199e247", "Enum", 0, 3, 1), Ctrl("unknown", "Integer", 0, 9, 1),
       Ctrl("199e263", "Integer", 0, 9, 1),
       [Ctrl("CONTRAST", "Integer", 0, 9, 2) EXCEPT !.off = TRUE]>>, {},
     {<<"ExposureTime", 10>>, <<"ExposureTime", 2>>, <<"ExposureAuto", "Off">>, <<"ExposureAuto", "Continuous">>,
      <<"Gain", 11>>, <<"Gain", 13>>, <<"Gain", 14>>, <<"GainAuto", "Continuous">>, <<"GainAuto", "On">>, <<"TriggerDenoise", 6>>},
     [r \in {"EXPOSURE_ABSOLUTE", "199e201", "EXPOSURE_AUTO", "199e202", "GAIN", "199e205", "199e240"} |-> 1]),
  center |-> Usb("dxk33u", "IMX183",
     <<Ctrl("199e218", "Integer", 0, 24, 2), Ctrl("199e219", "Integer", 0, 8, 1),
       Ctrl("AUTO_WHITE_BALANCE", "Bool", 0, 1, 1), Ctrl("ONE_PUSH", "Command", 0, 0, 0), Ctrl("RED_BALANCE", "Integer", 0, 9, 1)>>,
     {<<32, 16>>, <<16, 4>>},
     {<<"OffsetX", 4>>, <<"OffsetX", 5>>, <<"OffsetAutoCenter", "On">>, <<"OffsetAutoCenter", "Off">>, <<"SensorWidth", 3>>,
      <<"BalanceWhiteAuto", "Once">>, <<"BalanceWhiteAuto", "Off">>, <<"BalanceWhiteRed", 6>>},
     [r \in {"199e218", "199e219", "AUTO_WHITE_BALANCE", "ONE_PUSH", "RED_BALANCE", "enabled_"} |-> 1]),
  usb2 |-> Usb("dxk42", "",
     <<Ctrl("GAIN", "Integer", 0, 5, 1), Ctrl("PRIVACY", "Bool", 0, 1, 1), Ctrl("199e208", "Bool", 0, 1, 1),
       Ctrl("199e209", "Command", 0, 0, 0), Ctrl("CONTRAST", "Integer", 1, 9, 2), Ctrl("199e251", "Bool", 0, 1, 1),
       [Ctrl("199e261", "Enum", 0, 1, 1) EXCEPT !.menu = << <<0, "Default">>, <<1, "Bulk">>, <<2, "Gone">> >>]>>, {},
     {<<"Gain", 9>>, <<"TriggerMode", "On">>, <<"TriggerMode", "Off">>, <<"TriggerSoftware", 1>>, <<"Contrast", 4>>,
      <<"Contrast", 3>>, <<"ReverseX", 1>>, <<"TriggerOperation", "Bulk">>, <<"TriggerOperation", "Gone">>},
     [r \in {"GAIN", "PRIVACY", "199e208", "199e209", "CONTRAST", "199e251", "199e261"} |-> 0]),
  ratio |-> Arv([Root |-> Category(<<"White", "WidthMax", "TLParamsLocked", "Gone">>), White |-> Category(<<"BalanceRatioSelector", "BalanceRatio", "OffsetAuto", "Name">>),
       WidthMax |-> Node("Integer", 9, <<>>), TLParamsLocked |-> Node("Integer", 1, <<>>),
       BalanceRatioSelector |-> Node("Enumeration", 3, RGB), BalanceRatio |-> Node("Float", 16, <<>>),
       OffsetAuto |-> Node("Enumeration", 1, OffOn), Name |-> Node("StringReg", 0, <<>>), TestBinningVertical |-> Node("Integer", 4, <<>>)],
     {<<"BalanceWhiteRed", 3>>, <<"BalanceWhiteBlue", 6>>, <<"OffsetAutoCenter", "On">>, <<"OffsetAutoCenter", "Up">>, <<"Name", 7>>},
     [r \in {"BalanceRatioSelector", "RatioRed", "RatioGreen", "RatioBlue", "OffsetAuto", "Name"} |-> 1]),
  raw |-> Arv([Root |-> Category(<<"BalanceRatioSelector", "BalanceRatioRaw", "Focus", "FocusAuto", "IrisAuto", "Hidden", "Reset", "Reg">>),
       BalanceRatioSelector |-> Node("Enumeration", 3, RGB), BalanceRatioRaw |-> Node("Integer", 16, <<>>),
       Focus |-> Node("Integer", 9, <<>>), FocusAuto |-> Node("Command", 0, <<>>), IrisAuto |-> Node("Boolean", 1, <<>>),
       Hidden |-> [Node("Boolean", 1, <<>>) EXCEPT !.impl = FALSE], Reset |-> Node("Command", 0, <<>>), Reg |-> Node("Register", 0, <<>>)],
     {<<"BalanceWhiteRed", 6>>, <<"BalanceWhiteGreen", 9>>, <<"FocusAuto", "Once">>, <<"FocusAuto", "Off">>,
      <<"IrisAuto", "Continuous">>, <<"IrisAuto", "Off">>, <<"IrisAuto", "On">>, <<"Reset", 1>>, <<"Focus", 3>>},
     [r \in {"BalanceRatioSelector", "RatioRed", "RatioGreen", "RatioBlue", "Focus", "FocusAuto", "IrisAuto", "Reset"} |-> 1]),
  afu420 |-> Afu("afu420", TRUE,
     {<<"ExposureTime", 10>>, <<"Gain", 7>>, <<"Focus", 3>>, <<"Iris", 0>>, <<"BalanceWhiteRed", 13>>, <<"BalanceWhiteRed", 31>>, <<"BalanceWhiteRed", 99>>, <<"OffsetX", 3>>,
      <<"OffsetAutoCenter", "Off">>, <<"OffsetAutoCenter", "On">>, <<"SensorWidth", 2>>},
     [r \in {"exposure", "fps", "gain", "focus", "shutter", "colorRed", "colorGreen", "colorBlue", "roi", "m_offset_x", "m_offset_y",
              "m_offset_auto", "exposure_cache", "gain_cache"} |-> 1]),
  afu050 |-> Afu("afu050", FALSE,
     {<<"ExposureTime", 10>>, <<"ExposureAuto", "Off">>, <<"ExposureAuto", "Continuous">>, <<"BalanceWhiteRed", 7>>, <<"BalanceWhiteAuto", "Off">>,
      <<"BalanceWhiteAuto", "Once">>, <<"Contrast", 3>>, <<"SensorWidth", 3>>},
     [r \in {"ExposureTime", "ExposureAuto", "Gain", "GainAuto", "FocusAuto", "BalanceWhiteRed", "BalanceWhiteGreen", "BalanceWhiteBlue",
              "BalanceWhiteAuto", "Saturation", "Contrast", "Sharpness"} |-> 1])]
MCDvUnits == [u \in DOMAIN MCDvAll |-> MCDvAll[u]]

(* two cameras, widgets of every class; few clicks with many unplugged cameras, or the reverse *)
MCTcCameras == {"c1","c2"}
Widget(cat, kind, lockers, needs) == [cat |-> cat, kind |-> kind, ro |-> kind = "String", lockers |-> lockers, needs |-> needs]
MCTcProps == [exposure |-> Widget("Exposure","Double",{"auto"},{}), auto |-> Widget("Exposure","Enum",{},{}),
  gain |-> Widget("Gain", "Int", {}, {}), wdr |-> Widget("Gain", "Bool", {}, {"gain"}), save |-> Widget("Startup","Button",{},{}), id |-> Widget("Startup","String",{},{})]
MCTcBudgets == {[plugs |-> 0, clicks |-> 4, edits |-> 0], [plugs |-> 2, clicks |-> 2, edits |-> 0],  [plugs |-> 0, clicks |-> 3, edits |-> 1], [plugs |-> 0, clicks |-> 2, edits |-> 2], [plugs |-> 1, clicks |-> 2, edits |-> 1]}

-----------------------------------------------------------------------------
(* a part that is not the one under way keeps its first initial state      *)
First(S) == CHOOSE x \in S : TRUE
lbInit ==
  /\ part \in {"watchdog", "viewer", "auto", "region", "pack", "filter", "tcamprop", "backend", "device"}
  /\ Init /\ (part = "watchdog" \/ ~triggerMode)
  /\ TcInit /\ (part = "viewer" \/ tcLeft = First(TcBudgets))
  /\ SwInit /\ (part = "auto" \/ (swCamera = First(SwCameras) /\ swWbVal = First(SwBalances)))
  /\ ArInit /\ (part = "region" \/ (arKind = "focus"))
  /\ PkInit /\ ImInit /\ TpInit
  /\ BkInit /\ (part = "backend" \/ bkUnit = "n1")
  /\ DvInit /\ (part = "device" \/ dvUnit = "ratio")

Parts ==
  \/ part = "watchdog" /\ Next /\ UNCHANGED <<tcVars, swVars, arVars, pkVars, imVars, tpVars, bkVars, dvVars>>
  \/ part = "viewer" /\ TcNext /\ UNCHANGED <<vars, swVars, arVars, pkVars, imVars, tpVars, bkVars, dvVars>>
  \/ part = "auto" /\ SwNext /\ UNCHANGED <<vars, tcVars, arVars, pkVars, imVars, tpVars, bkVars, dvVars>>
  \/ part = "region" /\ ArNext /\ UNCHANGED <<vars, tcVars, swVars, pkVars, imVars, tpVars, bkVars, dvVars>>
  \/ part = "pack" /\ PkNext /\ UNCHANGED <<vars, tcVars, swVars, arVars, imVars, tpVars, bkVars, dvVars>>
  \/ part = "filter" /\ ImNext /\ UNCHANGED <<vars, tcVars, swVars, arVars, pkVars, tpVars, bkVars, dvVars>>
  \/ part = "tcamprop" /\ TpNext /\ UNCHANGED <<vars, tcVars, swVars, arVars, pkVars, imVars, bkVars, dvVars>>
  \/ part = "backend" /\ BkNext /\ UNCHANGED <<vars, tcVars, swVars, arVars, pkVars, imVars, tpVars, dvVars>>
  \/ part = "device" /\ DvNext /\ UNCHANGED <<vars, tcVars, swVars, arVars, pkVars, imVars, tpVars, bkVars>>

(* all the calls there are were made, or the conversion crashed            *)
Over ==
  \/ part = "viewer" /\ (tcWin.over # "" \/ tcLeft.clicks = 0)
  \/ part = "region" /\ arCalls = ArCalls
  \/ part = "filter" /\ On("crashed")
  \/ part = "tcamprop" /\ tpCalls = TpCalls /\ tpOpened = TpOpens /\ tpOpen = 0
  \/ part = "device" /\ dvOpen = "closed" /\ dvCalls = DvCalls /\ \A t \in DvThreads : IdleDv(t)

lbNext == (Parts /\ UNCHANGED part) \/ (Over /\ UNCHANGED lbVars)
lbSpec == lbInit /\ [][lbNext]_lbVars

(* The filters write the pixels their C reference writes, whichever        *)
(* instruction set converts the line or the image.                         *)
FiltersHold == LineIsRepacked /\ ImageIsConverted
==============================================================================
