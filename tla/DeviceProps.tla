---------------------------- MODULE DeviceProps ----------------------------
(***************************************************************************)
(* The properties of an opened camera: how each backend turns the controls *)
(* of a camera into a list of named properties (v4l2_genicam_mapping.cpp,  *)
(* AravisDeviceProperties.cpp, AFU420DeviceProperties.cpp), and what       *)
(* reading and writing one of them does to the camera, step by step, while *)
(* another thread does the same (v4l2_property_impl.cpp,                   *)
(* aravis_property_impl.cpp, AFU420PropertyImpl.cpp, AFU050PropertyImpl.cpp).*)
(*                                                                         *)
(* A call is checked and turned into a sequence of steps.  A step is one   *)
(* access to the camera, which may fail, or one change of a member.        *)
(* Floating point values are counted in ticks, Ticks to a register unit.   *)
(***************************************************************************)
EXTENDS Integers, Sequences, FiniteSets, SequencesExt, FiniteSetsExt, TLC

CONSTANTS
  DvUnits,     \* unit -> the camera: its family, type and sensor, its controls or
               \* nodes, its ranges, size and formats, and what is asked of it
  DvThreads,   \* the threads that use the properties, positive numbers
  DvCalls,     \* how many calls they make
  DvFaults     \* how many camera accesses fail

VARIABLES
  dvUnit,      \* the opened camera
  dvOpen,      \* "new", "open" or "closed"
  dvProps,     \* the public properties, in order
  dvInner,     \* the internal properties
  dvReg,       \* register or member -> what it holds
  dvFormat,    \* current_format_ of the software auto centre, <<>> when empty
  dvLocked,    \* the properties whose Locked flag is set
  dvTodo,      \* thread -> the steps its call still has to take
  dvCall,      \* thread -> the call it is in
  dvHeld,      \* who holds arv_camera_access_mutex_, 0 for nobody
  dvAsked,     \* history: property -> the value in {} or {v} it was set to last
  dvDoubt,     \* history: properties whose dependents were last updated in doubt
  dvRead,      \* history: what the last read returned and what it should have
  dvCalls, dvFaults

dvVars == <<dvUnit, dvOpen, dvProps, dvInner, dvReg, dvFormat, dvLocked, dvTodo, dvCall, dvHeld,
            dvAsked, dvDoubt, dvRead, dvCalls, dvFaults>>

Family == DvUnits[dvUnit].family
Ticks == 4
NoAsk == [at |-> 0, val |-> {}, get |-> FALSE, mixed |-> FALSE, lost |-> FALSE]

-----------------------------------------------------------------------------
(* Properties, converters and menus *)

Prop(name, class, reg, range, conv, menu) ==
  [name |-> name, class |-> class, reg |-> reg, lo |-> range[1], hi |-> range[2], stp |-> range[3],
   conv |-> conv, menu |-> menu]

\* a converter rounds or truncates on the way to the camera, and may replace
\* the minimum, maximum or step the camera reports
Same == [round |-> FALSE, min |-> {}, max |-> {}, stp |-> {}]
Scaled == [Same EXCEPT !.round = TRUE]
to_device(conv, v) == IF conv.round THEN (v + Ticks \div 2) \div Ticks ELSE v \div Ticks
from_device(x) == Ticks * x
Override(o, x) == IF o = {} THEN x ELSE CHOOSE y \in o : TRUE
to_range(conv, c) == <<Override(conv.min, from_device(c.min)), Override(conv.max, from_device(c.max)),
                       Override(conv.stp, from_device(c.step))>>

EntryNamed(menu, n) == {e \in ToSet(menu) : e[2] = n}
EntryOf(menu, x) == {e \in ToSet(menu) : e[1] = x}
OffOn == << <<0, "Off">>, <<1, "On">> >>
OffContinuous == << <<0, "Off">>, <<1, "Continuous">> >>
ExposureAutoMenu == << <<1, "Off">>, <<3, "Continuous">> >>
BalanceWhiteMenu == << <<0, "Off">>, <<1, "Continuous">>, <<2, "Once">> >>
OffOnce == << <<0, "Off">>, <<1, "Once">> >>

\* which property locks which others, and in which state
dependency_list ==
  [ExposureAuto |-> [names |-> {"ExposureTime"}, state |-> "Continuous"],
   ExposureAutoUpperLimitAuto |-> [names |-> {"ExposureAutoUpperLimit"}, state |-> "Continuous"],
   GainAuto |-> [names |-> {"Gain"}, state |-> "Continuous"],
   BalanceWhiteAuto |-> [names |-> {"BalanceWhiteRed", "BalanceWhiteGreen", "BalanceWhiteBlue"},
                         state |-> "Continuous"],
   OffsetAutoCenter |-> [names |-> {"OffsetX", "OffsetY"}, state |-> "On"],
   TriggerMode |-> [names |-> {"TriggerSoftware"}, state |-> "Off"]]
find_dependency_entry(n) == IF n \in DOMAIN dependency_list THEN {dependency_list[n]} ELSE {}

Named(list, n) == {i \in 1..Len(list) : list[i].name = n}
find_property(list, n) == IF Named(list, n) = {} THEN {} ELSE {Min(Named(list, n))}

-----------------------------------------------------------------------------
(* v4l2: controls to properties.  Contrast and ReverseX stand for the      *)
(* entries of the table that have neither converter nor preferred id.      *)

Mapping(id, name, kind) == [id |-> id, name |-> name, kind |-> kind, pref |-> "", type |-> "normal",
                            conv |-> Same, menu |-> <<>>]
Converted(id, name, conv) == [Mapping(id, name, "Double") EXCEPT !.conv = conv]
Listed(id, name, menu) == [Mapping(id, name, "Enum") EXCEPT !.menu = menu]
Internal(id) == [Mapping(id, "", "") EXCEPT !.type = "internal"]
Blacklisted(id) == [Mapping(id, "", "") EXCEPT !.type = "blacklist"]
Prefer(m, id) == [m EXCEPT !.pref = id]

generic_v4l2_conv_table == <<
  Mapping("CONTRAST", "Contrast", "Integer"),
  Converted("SATURATION", "Saturation", Scaled),
  Converted("GAMMA", "Gamma", Scaled),
  Prefer(Converted("EXPOSURE_ABSOLUTE", "ExposureTime", Scaled), "199e201"),
  Mapping("199e201", "ExposureTime", "Double"),
  Prefer(Listed("EXPOSURE_AUTO", "ExposureAuto", ExposureAutoMenu), "199e202"),
  Listed("199e202", "ExposureAuto", OffContinuous),
  Mapping("199e255", "ExposureAutoLowerLimit", "Double"),
  Mapping("199e256", "ExposureAutoUpperLimit", "Double"),
  Mapping("GAIN", "Gain", "Double"),
  Listed("199e205", "GainAuto", OffContinuous),
  Mapping("199e259", "GainAutoLowerLimit", "Double"),
  Listed("AUTO_WHITE_BALANCE", "BalanceWhiteAuto", OffContinuous),
  Internal("ONE_PUSH"),
  [Mapping("199e247", "BalanceWhiteAutoPreset", "Enum") EXCEPT !.type = "blacklist"],
  Mapping("199e207", "BalanceWhiteAutoPreset", "Enum"),
  Converted("RED_BALANCE", "BalanceWhiteRed", Scaled),
  Converted("199e248", "BalanceWhiteGreen", Scaled),
  Converted("BLUE_BALANCE", "BalanceWhiteBlue", Scaled),
  Mapping("199e244", "AutoFunctionsROIWidth", "Integer"),
  Listed("PRIVACY", "TriggerMode", OffOn),
  Prefer(Listed("199e208", "TriggerMode", OffOn), "PRIVACY"),
  Mapping("199e209", "TriggerSoftware", "Command"),
  Prefer(Mapping("199e210", "TriggerDelay", "Double"), "199e272"),
  Listed("199e220", "OffsetAutoCenter", OffOn),
  Mapping("199e218", "OffsetX", "Integer"),
  Mapping("199e219", "OffsetY", "Integer"),
  Mapping("199e927", "OffsetX", "Integer"),
  Mapping("199e928", "OffsetY", "Integer"),
  Listed("199e221", "FocusAuto", OffOnce),
  Mapping("199e235", "TriggerOperation", "Enum"),
  Prefer(Mapping("199e261", "TriggerOperation", "Enum"), "199e235"),
  Mapping("199e240", "TriggerDenoise", "Double"),
  Converted("199e272", "TriggerDelay", Scaled),
  Mapping("199e251", "ReverseX", "Bool"),
  Internal("199e263") >>

\* a logarithmic gain is modelled by a linear one with the same overrides
dxk72_gain_mul_dB_converter == [Scaled EXCEPT !.stp = {1}]
dxk42_gain_mul_dB_converter == [Scaled EXCEPT !.min = {0}, !.stp = {1}]
dxk22_gain_mul_dB_converter == [Scaled EXCEPT !.stp = {1}]
dxk72_conv_dict == <<Converted("GAIN", "Gain", dxk72_gain_mul_dB_converter)>>
dxk42_conv_dict == <<Converted("GAIN", "Gain", dxk42_gain_mul_dB_converter)>>
dxk22_conv_dict == <<Converted("GAIN", "Gain", dxk22_gain_mul_dB_converter)>>

\* the overrides of the 33U family; the defaults they fix are left out
TriggerDenoise == [Same EXCEPT !.max = {Ticks}]
gain_to_db_factor == Scaled
gain_to_db_factor_IMX183 == [Scaled EXCEPT !.stp = {1}]
gain_to_db_factor_P2000 == [Scaled EXCEPT !.min = {0}, !.max = {3 * Ticks}, !.stp = {1}]
gain_to_db_factor_P1300 == [Scaled EXCEPT !.min = {0}, !.max = {9 * Ticks}, !.stp = {1}]
gain_to_db_factor_J003 == [Scaled EXCEPT !.min = {0}, !.stp = {1}]
gain_to_db_factor_AR0234 == [Scaled EXCEPT !.stp = {1}]
dxk33u_conv_dict == <<Mapping("199e201", "ExposureTime", "Double"),
                      Converted("199e240", "TriggerDenoise", TriggerDenoise),
                      Mapping("199e255", "ExposureAutoLowerLimit", "Double"),
                      Mapping("199e256", "ExposureAutoUpperLimit", "Double"),
                      Mapping("199e244", "AutoFunctionsROIWidth", "Integer")>>
dxk33u_GainDB_factor(conv) == <<Converted("GAIN", "Gain", conv),
                                Converted("199e259", "GainAutoLowerLimit", conv)>>
dxg_hdmi_conv_dict == <<Blacklisted("EXPOSURE_AUTO"), Blacklisted("EXPOSURE_ABSOLUTE")>>

find_mapping_(table, id) == SelectSeq(table, LAMBDA m : m.id = id)
find_mapping_info_33u_gain(sensor) ==
  CASE sensor = "AR0234" -> dxk33u_GainDB_factor(gain_to_db_factor_AR0234)
    [] sensor = "P1300" -> dxk33u_GainDB_factor(gain_to_db_factor_P1300)
    [] sensor \in {"P2000", "P5000"} -> dxk33u_GainDB_factor(gain_to_db_factor_P2000)
    [] sensor = "MT9J003" -> dxk33u_GainDB_factor(gain_to_db_factor_J003)
    [] sensor \in {"IMX174", "IMX290", "AR0521"} -> dxk33u_GainDB_factor(gain_to_db_factor)
    [] sensor = "IMX183" -> dxk33u_GainDB_factor(gain_to_db_factor_IMX183)
    [] OTHER -> <<>>
find_mapping_info_specific(u) ==
  CASE u.type = "dxk72" -> dxk72_conv_dict
    [] u.type = "dxk42" -> dxk42_conv_dict
    [] u.type = "dxk22" -> dxk22_conv_dict
    [] u.type = "dxk52" -> <<Converted("GAIN", "Gain", gain_to_db_factor_AR0234)>>
    [] u.type = "dxk33u" -> find_mapping_info_33u_gain(u.sensor) \o dxk33u_conv_dict
    [] u.type = "dxk_hdmi" -> dxg_hdmi_conv_dict \o dxk33u_conv_dict
    [] OTHER -> <<>>
find_mapping_info(u, id) ==
  Head(find_mapping_(find_mapping_info_specific(u), id) \o find_mapping_(generic_v4l2_conv_table, id))

is_id_present(ctrls, id) == \E c \in ToSet(ctrls) : c.id = id
ctrl(ctrls, id) == CHOOSE c \in ToSet(ctrls) : c.id = id
get_menu_entries(c) == SelectSeq(c.menu, LAMBDA e : e[1] <= c.max)
check_and_fixup_range(c) == <<c.min, c.max, IF c.step = 0 THEN 1 ELSE c.step>>

V4L2PropertyIntegerImpl(n, c) == Prop(n, "Integer", c.id, check_and_fixup_range(c), Same, <<>>)
V4L2PropertyDoubleImpl(n, c, conv) == Prop(n, "Double", c.id, to_range(conv, c), conv, <<>>)
V4L2PropertyBoolImpl(n, c) == Prop(n, "Bool", c.id, <<0, 1, 1>>, Same, <<>>)
V4L2PropertyCommandImpl(n, c) == Prop(n, "Command", c.id, <<0, 0, 1>>, Same, <<>>)
V4L2PropertyEnumImpl(n, c, menu) ==
  Prop(n, "Enum", c.id, <<0, 0, 1>>, Same, IF menu = <<>> THEN get_menu_entries(c) ELSE menu)
prop_impl_33U_balance_white_auto(n, c) == [V4L2PropertyEnumImpl(n, c, BalanceWhiteMenu) EXCEPT !.class = "BalanceAuto"]

create_unmapped_prop(c) ==
  CASE c.kind = "Bool" -> V4L2PropertyBoolImpl(c.id, c)
    [] c.kind = "Integer" -> V4L2PropertyIntegerImpl(c.id, c)
    [] c.kind = "Enum" -> V4L2PropertyEnumImpl(c.id, c, <<>>)
    [] c.kind = "Command" -> V4L2PropertyCommandImpl(c.id, c)
create_mapped_prop(ctrls, c, m) ==
  CASE c.id = "AUTO_WHITE_BALANCE" /\ is_id_present(ctrls, "ONE_PUSH") -> prop_impl_33U_balance_white_auto(m.name, c)
    [] m.kind = "Double" -> V4L2PropertyDoubleImpl(m.name, c, m.conv)
    [] m.kind = "Enum" -> V4L2PropertyEnumImpl(m.name, c, m.menu)
    [] m.kind = "Bool" -> V4L2PropertyBoolImpl(m.name, c)
    [] m.kind = "Integer" -> V4L2PropertyIntegerImpl(m.name, c)
    [] m.kind = "Command" -> V4L2PropertyCommandImpl(m.name, c)

\* only controls of the generic table become properties, in its order
get_ordered_v4l2_id_list(ctrls) == SelectSeq(generic_v4l2_conv_table, LAMBDA m : is_id_present(ctrls, m.id))
Chosen(u, ctrls) ==
  SelectSeq([i \in 1..Len(get_ordered_v4l2_id_list(ctrls)) |->
               find_mapping_info(u, get_ordered_v4l2_id_list(ctrls)[i].id)],
            LAMBDA m : ~is_id_present(ctrls, m.pref) /\ m.type # "blacklist")
generate_properties(u, ctrls) ==
  LET pub == SelectSeq(Chosen(u, ctrls), LAMBDA m : m.type = "normal")
      int == SelectSeq(Chosen(u, ctrls), LAMBDA m : m.type = "internal")
  IN [pub |-> [i \in 1..Len(pub) |-> create_mapped_prop(ctrls, ctrl(ctrls, pub[i].id), pub[i])],
      int |-> [i \in 1..Len(int) |-> create_unmapped_prop(ctrl(ctrls, int[i].id))]]

prop_impl_sensor_dim(name, x) == Prop(name, "Dim", name, <<x, x, 1>>, Same, <<>>)
SensorDims(list, size) ==
  IF find_property(list, "SensorWidth") # {} THEN <<>>
  ELSE <<prop_impl_sensor_dim("SensorWidth", size[1]), prop_impl_sensor_dim("SensorHeight", size[2])>>
create_if_needed(list) ==
  IF find_property(list, "OffsetAutoCenter") # {}
     \/ (find_property(list, "OffsetX") = {} /\ find_property(list, "OffsetY") = {}) THEN <<>>
  ELSE <<Prop("OffsetAutoCenter", "Center", "enabled_", <<0, 1, 1>>, Same, OffOn)>>
create_videoformat_dependent_properties(list, size) ==
  list \o SensorDims(list, size) \o create_if_needed(list)
\* disabled controls and control classes are left out
create_properties(u) ==
  LET made == generate_properties(u, SelectSeq(u.ctrls, LAMBDA c : ~c.off))
  IN [made EXCEPT !.pub = create_videoformat_dependent_properties(made.pub, u.size)]

-----------------------------------------------------------------------------
(* Aravis: GenICam nodes to properties.  A camera's description u.nodes    *)
(* maps a node name to [kind, impl, kids, min, max, step, menu].           *)

Blocked == {"PayloadSize", "UserSetLoad", "LUTValueAll", "WidthMax"}
Private == {"TLParamsLocked", "AcquisitionStart", "Width", "PixelFormat", "BalanceRatioSelector",
            "BalanceRatio", "BalanceRatioRaw", "FocusAuto", "IrisAuto"}
Renamed == [OffsetAuto |-> "OffsetAutoCenter"]
unlinked_property_map == <<"TestBinningHorizontal", "TestBinningVertical">>
new_name(n) == IF n \in DOMAIN Renamed THEN Renamed[n] ELSE n
find_map_info(n) == CASE n \in Blocked -> "blacklist"
                      [] n \in Private \union ToSet(unlinked_property_map) -> "priv"
                      [] OTHER -> "pub"

AravisPropertyEnumImpl(n, node) == Prop(new_name(n), "arvEnum", n, <<0, 0, 1>>, Same, node.menu)
AravisPropertyDoubleImpl(n, node) == Prop(new_name(n), "arvDouble", n, <<node.min, node.max, node.step>>, Same, <<>>)
AravisPropertyIntegerImpl(n, node) == Prop(new_name(n), "arvInteger", n, <<node.min, node.max, node.step>>, Same, <<>>)
AravisPropertyBoolImpl(n, node) == Prop(new_name(n), "arvBool", n, <<0, 1, 1>>, Same, <<>>)
AravisPropertyCommandImpl(n, node) == Prop(new_name(n), "arvCommand", n, <<0, 0, 1>>, Same, <<>>)
AravisPropertyStringImpl(n, node) == Prop(new_name(n), "arvString", n, <<0, 0, 1>>, Same, <<>>)
build_property_from_node(doc, n) ==
  CASE doc[n].kind = "Enumeration" -> <<AravisPropertyEnumImpl(n, doc[n])>>
    [] doc[n].kind = "Float" -> <<AravisPropertyDoubleImpl(n, doc[n])>>
    [] doc[n].kind = "Integer" -> <<AravisPropertyIntegerImpl(n, doc[n])>>
    [] doc[n].kind = "Boolean" -> <<AravisPropertyBoolImpl(n, doc[n])>>
    [] doc[n].kind = "Command" -> <<AravisPropertyCommandImpl(n, doc[n])>>
    [] doc[n].kind = "StringReg" -> <<AravisPropertyStringImpl(n, doc[n])>>
    [] OTHER -> <<>>

RECURSIVE create_ordered_property_list(_, _)
create_ordered_property_list(doc, n) ==
  CASE n \notin DOMAIN doc -> <<>>
    [] n \in DOMAIN doc /\ ~doc[n].impl -> <<>>
    [] n \in DOMAIN doc /\ doc[n].impl /\ doc[n].kind = "Category" ->
         FlattenSeq([i \in 1..Len(doc[n].kids) |-> create_ordered_property_list(doc, doc[n].kids[i])])
    [] OTHER -> <<n>>

Built(doc, names) ==
  FlattenSeq([i \in 1..Len(names) |-> build_property_from_node(doc, names[i])])
create_property_list_from_genicam_categories(doc) ==
  LET lst == create_ordered_property_list(doc, "Root")
      used == SelectSeq(lst, LAMBDA n : /\ find_map_info(n) # "blacklist"
                                        /\ new_name(n) # n => new_name(n) \notin ToSet(lst))
  IN [pub |-> Built(doc, SelectSeq(used, LAMBDA n : find_map_info(n) = "pub")),
      int |-> Built(doc, SelectSeq(used, LAMBDA n : find_map_info(n) = "priv"))]

\* first among the public, then among the internal properties
find_cam_property(made, class, n) ==
  SelectSeq(made.pub \o made.int, LAMBDA p : p.name = n /\ p.class = class)
add_property_after(list, n, p) ==
  IF find_property(list, n) = {} THEN Append(list, p)
  ELSE InsertAt(list, Max(find_property(list, n)) + 1, p)

\* three properties that share a value node and select their channel first
Channels3 == <<"Red", "Green", "Blue">>
BalanceWhite(class) ==
  [i \in 1..3 |-> Prop("BalanceWhite" \o Channels3[i], class, "Ratio" \o Channels3[i],
                       <<from_device(0), from_device(4), Ticks>>, Same, << <<i, Channels3[i]>> >>)]
WhiteProps(made) ==
  CASE find_cam_property(made, "arvEnum", "BalanceRatioSelector") = <<>> -> <<>>
    [] find_cam_property(made, "arvDouble", "BalanceRatio") # <<>> -> BalanceWhite("ratio")
    [] find_cam_property(made, "arvInteger", "BalanceRatioRaw") # <<>> -> BalanceWhite("rawratio")
    [] OTHER -> <<>>
WithFocus(made, list) ==
  IF find_cam_property(made, "arvCommand", "FocusAuto") = <<>> THEN list
  ELSE add_property_after(list, "Focus", Prop("FocusAuto", "focusauto", "FocusAuto", <<0, 1, 1>>, Same, OffOnce))
WithIris(made, list) ==
  IF find_cam_property(made, "arvBool", "IrisAuto") = <<>> THEN list
  ELSE add_property_after(list, "Iris", Prop("IrisAuto", "irisauto", "IrisAuto", <<0, 1, 1>>, Same, OffContinuous))
generate_properties_from_genicam(u) ==
  LET listed == create_property_list_from_genicam_categories(u.nodes)
      made == [listed EXCEPT !.int = @ \o Built(u.nodes, SelectSeq(unlinked_property_map,
                                                     LAMBDA n : n \in DOMAIN u.nodes))]
  IN [made EXCEPT !.pub = WithIris(made, WithFocus(made, made.pub \o WhiteProps(made)))]

-----------------------------------------------------------------------------
(* The AFU cameras: the lists are fixed, the AFU050 asks for the ranges.    *)
(* Frac stands for the 256 parts a colour gain of the AFU420 has, the other *)
(* ranges for those in the code.                                           *)

Frac == 4
LongExposure == 40
AFU420PropertyIntegerImpl(n, class, reg, max) == Prop(n, class, reg, <<0, max, 1>>, Same, <<>>)
AFU420PropertyDoubleImpl(n, class, reg, range) == Prop(n, class, reg, range, Same, <<>>)
AFU420PropertyEnumImpl(n, reg, menu) == Prop(n, "a420Enum", reg, <<0, 1, 1>>, Same, menu)
create_exposure == <<AFU420PropertyDoubleImpl("ExposureTime", "a420Cached", "exposure", <<Ticks, 5 * Ticks, Ticks>>)>>
create_gain == <<AFU420PropertyDoubleImpl("Gain", "a420Cached", "gain", <<Ticks, 4 * Ticks, Ticks>>)>>
create_focus == <<AFU420PropertyIntegerImpl("Focus", "a420Integer", "focus", 7)>>
create_iris == <<AFU420PropertyIntegerImpl("Iris", "a420Iris", "shutter", 1)>>
create_color_gain ==
  [i \in 1..3 |-> AFU420PropertyDoubleImpl("BalanceWhite" \o Channels3[i], "a420Color", "color" \o Channels3[i],
                                           <<0, (4 * Frac - 1) * Ticks, 1>>)]
CreateOffsets == <<AFU420PropertyIntegerImpl("OffsetX", "a420Offset", "m_offset_x", 4),
                   AFU420PropertyIntegerImpl("OffsetY", "a420Offset", "m_offset_y", 4),
                   AFU420PropertyEnumImpl("OffsetAutoCenter", "m_offset_auto", OffOn)>>
create_sensor_dimensions(size) ==
  <<prop_impl_sensor_dim("SensorWidth", size[1]), prop_impl_sensor_dim("SensorHeight", size[2])>>
CreateAfu420(u) ==
  create_exposure \o create_gain \o (IF u.ois THEN create_focus \o create_iris ELSE <<>>)
    \o create_color_gain \o CreateOffsets \o create_sensor_dimensions(u.size)

AFU050PropertyDoubleImpl(n, c) == Prop(n, "a050Double", n, to_range(Same, c), Same, <<>>)
AFU050PropertyIntegerImpl(n, c) == Prop(n, "a050Integer", n, <<c.min, c.max, c.step>>, Same, <<>>)
AFU050PropertyEnumImpl(n, menu) == Prop(n, "a050Enum", n, <<0, 1, 1>>, Same, menu)
add_double(u, name) == AFU050PropertyDoubleImpl(name, u.ranges)
add_int(u, name) == AFU050PropertyIntegerImpl(name, u.ranges)
add_enum(name, menu) == AFU050PropertyEnumImpl(name, menu)
CreateAfu050(u) ==
  <<add_double(u, "ExposureTime"), add_enum("ExposureAuto", OffContinuous),
    add_double(u, "Gain"), add_enum("GainAuto", OffContinuous), add_enum("FocusAuto", OffOnce)>>
  \o [i \in 1..3 |-> add_double(u, "BalanceWhite" \o Channels3[i])]
  \o <<add_enum("BalanceWhiteAuto", OffContinuous), add_double(u, "Saturation"),
       add_int(u, "Contrast"), add_int(u, "Sharpness")>>
  \o create_sensor_dimensions(u.size)

CreateProperties(u) ==
  CASE u.family = "v4l2" -> create_properties(u)
    [] u.family = "arv" -> generate_properties_from_genicam(u)
    [] u.family = "afu420" -> [pub |-> CreateAfu420(u), int |-> <<>>]
    [] u.family = "afu050" -> [pub |-> CreateAfu050(u), int |-> <<>>]

-----------------------------------------------------------------------------
(* Locks.  Aravis reports the camera's own locks instead.                  *)

DependentNames(p) == UNION {d.names : d \in find_dependency_entry(p.name)}
LockState(p) == UNION {{d.state} : d \in find_dependency_entry(p.name)}
update_dependency_information(list, i) ==
  {j \in UNION {find_property(list, n) : n \in DependentNames(list[i])} : list[j].class # "Dim"}
add_dependency_tracking(list, i) ==
  {j \in 1..Len(list) : list[j].name \in DependentNames(list[i])}
Dependents(list, i) ==
  CASE Family = "arv" -> {}
    [] Family = "afu050" -> add_dependency_tracking(list, i)
    [] OTHER -> update_dependency_information(list, i)

should_set_dependent_locked(p, reg) == \E e \in EntryOf(p.menu, reg[p.reg]) : e[2] \in LockState(p)
update_dependent_lock_state(list, i, lock, set) ==
  IF lock THEN set \union Dependents(list, i) ELSE set \ Dependents(list, i)

-----------------------------------------------------------------------------
(* What a call does: its steps.  A failing step skips the next drop steps; *)
(* Abort skips them all and makes the call return an error.                *)

Abort == 9
Access(op, reg, val, drop) == [op |-> op, reg |-> reg, val |-> val, drop |-> drop]
Refused == <<Access("refuse", "", 0, Abort)>>
Nothing == <<Access("none", "", 0, 0)>>
Member(reg, val) == <<Access("member", reg, val, Abort)>>
set_backend_value(reg, x) == <<Access("write", reg, x, Abort)>>
get_backend_value(reg) == <<Access("read", reg, 0, Abort)>>
\* a failing transfer is no error: x is returned as if it had been read
read_or(reg, x) == <<Access("read", reg, x, 0)>>
Relock(i) == IF Dependents(dvProps, i) = {} THEN <<>> ELSE <<Access("lock", dvProps[i].reg, i, 0)>>
get_entry_value(p, n) == SelectSeq(p.menu, LAMBDA e : e[2] = n)

V4L2PropertyIntegerImpl_set_value(p, v) ==
  IF v < p.lo \/ v > p.hi \/ v % p.stp # 0 THEN Refused ELSE set_backend_value(p.reg, v)
V4L2PropertyDoubleImpl_set_value(p, v) ==
  CASE v < p.lo /\ v + p.stp >= p.lo -> set_backend_value(p.reg, to_device(p.conv, p.lo))
    [] v > p.hi /\ v - p.stp <= p.hi -> set_backend_value(p.reg, to_device(p.conv, p.hi))
    [] v \in p.lo..p.hi -> set_backend_value(p.reg, to_device(p.conv, v))
    [] OTHER -> Refused
V4L2PropertyBoolImpl_set_value(p, v) == set_backend_value(p.reg, IF v # 0 THEN 1 ELSE 0)
V4L2PropertyCommandImpl_execute(p) == set_backend_value(p.reg, 1)
V4L2PropertyEnumImpl_set_value(p, i, n) ==
  IF get_entry_value(p, n) = <<>> THEN Refused
  ELSE set_backend_value(p.reg, Head(get_entry_value(p, n))[1]) \o Relock(i)
balance_white_auto_set_value(p, i, n) ==
  IF n = "Once" THEN set_backend_value("ONE_PUSH", 1) ELSE V4L2PropertyEnumImpl_set_value(p, i, n)
auto_center_set_value(i, n) ==
  CASE n = "Off" -> Member("enabled_", 0) \o Relock(i)
    [] n = "On" -> Member("enabled_", 1) \o <<Access("center", "", 0, 0)>> \o Relock(i)
    [] OTHER -> Refused

(* the offsets the centre step writes; a refused or failed x skips y *)
Centred(dim, stp, size) ==
  LET m == (dim \div 2) - (size \div 2)
  IN IF size > dim THEN 0 ELSE m - (m % stp)
update_offsets ==
  LET x == dvProps[Max(find_property(dvProps, "OffsetX"))]
      y == dvProps[Max(find_property(dvProps, "OffsetY"))]
      size == DvUnits[dvUnit].size
      fits == \A d \in 1..2 : dvFormat[d] <= size[d]
      steps == <<IF x.stp > 1 THEN x.stp ELSE 8, IF y.stp > 1 THEN y.stp ELSE 4>>
      to == [d \in 1..2 |-> IF fits THEN Centred(size[d], steps[d], dvFormat[d]) ELSE 0]
      sx == V4L2PropertyIntegerImpl_set_value(x, to[1])
      sy == V4L2PropertyIntegerImpl_set_value(y, to[2])
  IN IF dvReg["enabled_"] = 0 \/ dvFormat = <<>> \/ sx = Refused THEN <<>>
     ELSE IF sy = Refused THEN <<[sx[1] EXCEPT !.drop = 0]>>
     ELSE <<[sx[1] EXCEPT !.drop = 1], [sy[1] EXCEPT !.drop = 0]>>

AravisPropertyIntegerImpl_set_value(p, v) == set_backend_value(p.reg, v)
AravisPropertyDoubleImpl_set_value(p, v) == set_backend_value(p.reg, v)
AravisPropertyBoolImpl_set_value(p, v) == set_backend_value(p.reg, IF v # 0 THEN 1 ELSE 0)
AravisPropertyCommandImpl_execute(p) == set_backend_value(p.reg, 1)
AravisPropertyStringImpl_set_value(p, v) == set_backend_value(p.reg, v)
AravisPropertyEnumImpl_set_value(p, n) ==
  IF get_entry_value(p, n) = <<>> THEN Refused
  ELSE set_backend_value(p.reg, Head(get_entry_value(p, n))[1])
select(p) == set_backend_value("BalanceRatioSelector", p.menu[1][1])
balance_ratio_raw_set_value(p, v) == select(p) \o set_backend_value("BalanceRatio", v \div Ticks)
balance_ratio_set_value(p, v) == select(p) \o set_backend_value("BalanceRatio", v)
balance_ratio_get_value(p) == select(p) \o get_backend_value("BalanceRatio")
\* get_flags and get_range select too, and go on when that fails
balance_ratio_get_range(p) == <<[select(p)[1] EXCEPT !.drop = 0]>>
focus_auto_set_value(p, n) == IF n = "Once" THEN set_backend_value(p.reg, 1) ELSE Nothing
iris_auto_set_value(p, n) ==
  CASE n = "Off" -> set_backend_value(p.reg, 0)
    [] n = "Continuous" -> set_backend_value(p.reg, 1)
    [] OTHER -> Refused

\* the region is written too; whether that works is not looked at
set_partial_scan_offset == <<Access("write", "roi", 0, 0)>>
set_exposure(v) ==
  <<Access("write", "fps", Min({dvReg["fps"], LongExposure \div (v \div Ticks)}), 0)>>
    \o set_backend_value("exposure", v \div Ticks)
set_gain(v) == set_backend_value("gain", v \div Ticks)
set_focus(v) == set_backend_value("focus", v % 65536)
set_iris(v) == set_backend_value("shutter", IF v # 0 THEN 65535 ELSE 0)
\* the fraction is or-ed to the whole part, one bit above it included
ColorGain(v) ==
  LET whole == v \div (Frac * Ticks)
      part == ((v % (Frac * Ticks)) + Ticks \div 2) \div Ticks
  IN IF part = Frac /\ whole % 2 = 1 THEN whole * Frac ELSE whole * Frac + part
set_color_gain_factor(p, v) ==
  IF v \notin 0..(4 * Frac - 1) * Ticks THEN Refused ELSE set_backend_value(p.reg, ColorGain(v))
AFU420DeviceBackend_set_int(p, v) ==
  CASE p.class \in {"a420Offset", "a420Enum"} -> Member(p.reg, v) \o set_partial_scan_offset
    [] p.class = "a420Iris" -> set_iris(v)
    [] OTHER -> set_focus(v)
AFU420DeviceBackend_set_float(p, v) ==
  CASE p.name = "ExposureTime" -> set_exposure(v)
    [] p.name = "Gain" -> set_gain(v)
    [] OTHER -> set_color_gain_factor(p, v)
AFU420PropertyIntegerImpl_set_value(p, v) == AFU420DeviceBackend_set_int(p, v)
AFU420PropertyDoubleImpl_set_value(p, v) ==
  AFU420DeviceBackend_set_float(p, v)
    \o (IF p.class = "a420Cached" THEN Member(p.reg \o "_cache", v) ELSE <<>>)
AFU420PropertyEnumImpl_set_value(p, i, n) ==
  IF get_entry_value(p, n) = <<>> THEN Refused
  ELSE AFU420DeviceBackend_set_int(p, Head(get_entry_value(p, n))[1]) \o Relock(i)

\* a failing transfer is logged and reported as success
AFU050_set_control(reg, x) == <<Access("write", reg, x, 0)>>
AFU050_get_control(reg) == read_or(reg, 0)
AFU050DeviceBackend_set_int(reg, x) == AFU050_set_control(reg, x)
AFU050DeviceBackend_get_int(reg) == AFU050_get_control(reg)
AFU050PropertyIntegerImpl_set_value(p, v) == AFU050DeviceBackend_set_int(p.reg, v)
AFU050PropertyDoubleImpl_set_value(p, v) == AFU050DeviceBackend_set_int(p.reg, v \div Ticks)
AFU050PropertyEnumImpl_set_value(p, i, n) ==
  IF get_entry_value(p, n) = <<>> THEN Refused
  ELSE AFU050DeviceBackend_set_int(p.reg, Head(get_entry_value(p, n))[1]) \o Relock(i)

SetSteps(i, v) ==
  LET p == dvProps[i]
  IN CASE p.class = "Integer" -> V4L2PropertyIntegerImpl_set_value(p, v)
       [] p.class = "Double" -> V4L2PropertyDoubleImpl_set_value(p, v)
       [] p.class = "Bool" -> V4L2PropertyBoolImpl_set_value(p, v)
       [] p.class = "Command" -> V4L2PropertyCommandImpl_execute(p)
       [] p.class = "Enum" -> V4L2PropertyEnumImpl_set_value(p, i, v)
       [] p.class = "BalanceAuto" -> balance_white_auto_set_value(p, i, v)
       [] p.class = "Center" -> auto_center_set_value(i, v)
       [] p.class = "Dim" -> Refused
       [] p.class = "arvInteger" -> AravisPropertyIntegerImpl_set_value(p, v)
       [] p.class = "arvDouble" -> AravisPropertyDoubleImpl_set_value(p, v)
       [] p.class = "arvBool" -> AravisPropertyBoolImpl_set_value(p, v)
       [] p.class = "arvCommand" -> AravisPropertyCommandImpl_execute(p)
       [] p.class = "arvString" -> AravisPropertyStringImpl_set_value(p, v)
       [] p.class = "arvEnum" -> AravisPropertyEnumImpl_set_value(p, v)
       [] p.class = "ratio" -> balance_ratio_set_value(p, v)
       [] p.class = "rawratio" -> balance_ratio_raw_set_value(p, v)
       [] p.class = "focusauto" -> focus_auto_set_value(p, v)
       [] p.class = "irisauto" -> iris_auto_set_value(p, v)
       [] p.class \in {"a420Integer", "a420Offset", "a420Iris"} -> AFU420PropertyIntegerImpl_set_value(p, v)
       [] p.class \in {"a420Cached", "a420Color"} -> AFU420PropertyDoubleImpl_set_value(p, v)
       [] p.class = "a420Enum" -> AFU420PropertyEnumImpl_set_value(p, i, v)
       [] p.class = "a050Integer" -> AFU050PropertyIntegerImpl_set_value(p, v)
       [] p.class = "a050Double" -> AFU050PropertyDoubleImpl_set_value(p, v)
       [] p.class = "a050Enum" -> AFU050PropertyEnumImpl_set_value(p, i, v)

V4L2PropertyIntegerImpl_get_value(p) == get_backend_value(p.reg)
V4L2PropertyDoubleImpl_get_value(p) == get_backend_value(p.reg)
V4L2PropertyBoolImpl_get_value(p) == get_backend_value(p.reg)
V4L2PropertyEnumImpl_get_value(p) == get_backend_value(p.reg)
AravisPropertyIntegerImpl_get_value(p) == get_backend_value(p.reg)
AravisPropertyDoubleImpl_get_value(p) == get_backend_value(p.reg)
AravisPropertyBoolImpl_get_value(p) == get_backend_value(p.reg)
AravisPropertyStringImpl_get_value(p) == get_backend_value(p.reg)
AravisPropertyEnumImpl_get_value(p) == get_backend_value(p.reg)
iris_auto_get_value(p) == get_backend_value(p.reg)
LIBUSB_ERROR == -1
get_focus(p) == read_or(p.reg, LIBUSB_ERROR)
get_color_gain_factor(p) == read_or(p.reg, 0)
\* set_iris never updates the member that is read back
AFU420DeviceBackend_get_int(p) ==
  CASE p.class = "a420Iris" -> Nothing
    [] p.name = "Focus" -> get_focus(p)
    [] OTHER -> get_backend_value(p.reg)
AFU420DeviceBackend_get_float(p) == get_color_gain_factor(p)
AFU420PropertyIntegerImpl_get_value(p) == AFU420DeviceBackend_get_int(p)
AFU420PropertyDoubleImpl_get_value(p) ==
  IF p.class = "a420Cached" THEN Nothing ELSE AFU420DeviceBackend_get_float(p)
AFU420PropertyEnumImpl_get_value(p) == AFU420DeviceBackend_get_int(p)
AFU050PropertyIntegerImpl_get_value(p) == AFU050DeviceBackend_get_int(p.reg)
AFU050PropertyDoubleImpl_get_value(p) == AFU050DeviceBackend_get_int(p.reg)
AFU050PropertyEnumImpl_get_value(p) == AFU050DeviceBackend_get_int(p.reg)

GetSteps(p) ==
  CASE p.class = "Integer" -> V4L2PropertyIntegerImpl_get_value(p)
    [] p.class = "Double" -> V4L2PropertyDoubleImpl_get_value(p)
    [] p.class = "Bool" -> V4L2PropertyBoolImpl_get_value(p)
    [] p.class \in {"Enum", "BalanceAuto"} -> V4L2PropertyEnumImpl_get_value(p)
    [] p.class \in {"Center", "Dim", "focusauto", "Command", "arvCommand"} -> Nothing
    [] p.class = "arvInteger" -> AravisPropertyIntegerImpl_get_value(p)
    [] p.class = "arvDouble" -> AravisPropertyDoubleImpl_get_value(p)
    [] p.class = "arvBool" -> AravisPropertyBoolImpl_get_value(p)
    [] p.class = "arvString" -> AravisPropertyStringImpl_get_value(p)
    [] p.class = "arvEnum" -> AravisPropertyEnumImpl_get_value(p)
    [] p.class \in {"ratio", "rawratio"} -> balance_ratio_get_value(p)
    [] p.class = "irisauto" -> iris_auto_get_value(p)
    [] p.class \in {"a420Integer", "a420Offset", "a420Iris"} -> AFU420PropertyIntegerImpl_get_value(p)
    [] p.class \in {"a420Cached", "a420Color"} -> AFU420PropertyDoubleImpl_get_value(p)
    [] p.class = "a420Enum" -> AFU420PropertyEnumImpl_get_value(p)
    [] p.class = "a050Integer" -> AFU050PropertyIntegerImpl_get_value(p)
    [] p.class = "a050Double" -> AFU050PropertyDoubleImpl_get_value(p)
    [] p.class = "a050Enum" -> AFU050PropertyEnumImpl_get_value(p)

-----------------------------------------------------------------------------
(* The threads *)

Members == {"enabled_", "m_offset_x", "m_offset_y", "m_offset_auto", "exposure_cache", "gain_cache"}
IdleDv(t) == dvTodo[t] = <<>>
Related(i, j) == i = j \/ i \in Dependents(dvProps, j) \/ j \in Dependents(dvProps, i)
InTheWay(t, i) == ~IdleDv(t) /\ ~dvCall[t].get /\ Related(i, dvCall[t].at)

DvInit ==
  /\ dvUnit \in DOMAIN DvUnits /\ dvOpen = "new" /\ dvProps = <<>> /\ dvInner = <<>>
  /\ dvReg = DvUnits[dvUnit].init /\ dvFormat = <<>> /\ dvLocked = {}
  /\ dvTodo = [t \in DvThreads |-> <<>>] /\ dvCall = [t \in DvThreads |-> NoAsk] /\ dvHeld = 0
  /\ dvAsked = <<>> /\ dvDoubt = {} /\ dvRead = {} /\ dvCalls = 0 /\ dvFaults = 0

\* creating the properties of an AFU420 also writes the camera
OpenWrites(reg) ==
  IF Family # "afu420" THEN reg
  ELSE [reg EXCEPT !["exposure"] = 33, !["fps"] = Min({@, LongExposure \div 33}), !["gain"] = 1,
                   !["shutter"] = IF DvUnits[dvUnit].ois THEN 65535 ELSE @]
DvOpen ==
  /\ dvOpen = "new"
  /\ \E made \in {CreateProperties(DvUnits[dvUnit])} :
     LET autos == {i \in 1..Len(made.pub) : Dependents(made.pub, i) # {}}
         asked == {i \in autos : made.pub[i].reg \notin Members}
     IN \E bad \in {0} \union (IF dvFaults < DvFaults THEN asked ELSE {}) :
          /\ dvProps' = made.pub /\ dvInner' = made.int
          /\ dvLocked' = UNION {Dependents(made.pub, i) :
                                  i \in {k \in autos : k # bad /\ should_set_dependent_locked(made.pub[k], dvReg)}}
          /\ dvDoubt' = {bad} \ {0} /\ dvFaults' = dvFaults + Cardinality({bad} \ {0})
          /\ dvAsked' = [i \in 1..Len(made.pub) |-> {}]
  /\ dvOpen' = "open" /\ dvReg' = OpenWrites(dvReg)
  /\ UNCHANGED <<dvUnit, dvFormat, dvTodo, dvCall, dvHeld, dvRead, dvCalls>>

\* the properties live on, the backend behind them is gone
DvClose ==
  /\ dvOpen = "open" /\ \A t \in DvThreads : IdleDv(t)
  /\ dvOpen' = "closed"
  /\ UNCHANGED <<dvUnit, dvProps, dvInner, dvReg, dvFormat, dvLocked, dvTodo, dvCall, dvHeld, dvAsked,
                 dvDoubt, dvRead, dvCalls, dvFaults>>

Start(t, i, val, get, steps) ==
  /\ IdleDv(t) /\ dvCalls < DvCalls /\ dvCalls' = dvCalls + 1
  /\ dvTodo' = [dvTodo EXCEPT ![t] = steps]
  /\ dvCall' = [u \in DvThreads |->
                  IF u = t THEN [NoAsk EXCEPT !.at = i, !.val = val, !.get = get,
                                   !.mixed = ~get /\ \E w \in DvThreads : InTheWay(w, i)]
                  ELSE [dvCall[u] EXCEPT !.mixed = @ \/ (~get /\ InTheWay(u, i))]]
  /\ UNCHANGED <<dvUnit, dvOpen, dvProps, dvInner, dvReg, dvLocked, dvHeld, dvAsked, dvDoubt, dvRead, dvFaults>>

\* the layer above sets no locked property
DvSet(t) ==
  \E a \in DvUnits[dvUnit].asks : \E i \in find_property(dvProps, a[1]) \ dvLocked :
    Start(t, i, {a[2]}, FALSE, SetSteps(i, a[2])) /\ UNCHANGED dvFormat
DvGet(t) ==
  \E a \in DvUnits[dvUnit].asks : \E i \in find_property(dvProps, a[1]) :
    Start(t, i, {}, TRUE, GetSteps(dvProps[i])) /\ UNCHANGED dvFormat
DvQuery(t) ==
  \E i \in 1..Len(dvProps) :
    /\ dvProps[i].class = "ratio"
    /\ Start(t, i, {}, TRUE, balance_ratio_get_range(dvProps[i])) /\ UNCHANGED dvFormat
set_format(t) ==
  \E i \in 1..Len(dvProps) : \E f \in DvUnits[dvUnit].formats :
    /\ dvOpen = "open" /\ dvProps[i].class = "Center" /\ dvFormat' = f
    /\ Start(t, i, {}, FALSE, <<Access("center", "", 0, 0)>>)

-----------------------------------------------------------------------------
(* The steps.  A call on an Aravis camera holds the camera's mutex from    *)
(* its first step to its last.                                             *)

\* mutant: selecting a channel and using its value are not one critical section
NoGuard(t) == TRUE
acquire_backend_guard(t) == Family = "arv" => dvHeld \in {0, t}
MustFail(s) ==
  \/ s.op = "refuse"
  \/ dvOpen = "closed" /\ s.op \in {"write", "read", "lock", "member"}
     /\ ~(Family = "v4l2" /\ s.reg \in Members)
MayFail(s) == s.op \in {"write", "read", "lock"} /\ s.reg \notin Members /\ dvFaults < DvFaults
Drop(s) == IF dvOpen = "closed" /\ Family \in {"afu420", "afu050"} THEN Abort ELSE s.drop
\* BalanceRatio is the value of the channel that is selected
Target(reg) == IF reg = "BalanceRatio" THEN "Ratio" \o Channels3[dvReg["BalanceRatioSelector"]] ELSE reg

\* the rest of a call, and what is known once it has ended; knows holds
\* whether the state could be read back when the step tried to
Proceed(t, rest, ok, knows, lost) ==
  LET c == [dvCall[t] EXCEPT !.lost = @ \/ lost]
      done == rest = <<>>
      took == done /\ ok /\ ~c.get /\ c.val # {}
  IN /\ dvTodo' = [dvTodo EXCEPT ![t] = rest]
     /\ dvCall' = [dvCall EXCEPT ![t] = IF done THEN NoAsk ELSE c]
     /\ dvHeld' = IF Family = "arv" /\ ~done THEN t ELSE 0
     /\ dvDoubt' = CASE (done /\ ~c.get /\ c.mixed) \/ knows = {FALSE} -> dvDoubt \union {c.at}
                     [] ~c.mixed /\ knows = {TRUE} -> dvDoubt \ {c.at}
                     [] OTHER -> dvDoubt
     /\ dvAsked' = [j \in DOMAIN dvAsked |->
                      CASE done /\ ~c.get /\ c.mixed /\ Related(j, c.at) -> {}
                        [] took /\ j = c.at -> IF c.lost THEN {} ELSE c.val
                        [] took /\ j \in Dependents(dvProps, c.at) -> {}
                        [] OTHER -> dvAsked[j]]
     /\ UNCHANGED <<dvUnit, dvOpen, dvProps, dvInner, dvFormat, dvCalls>>

write_control(t, s) ==
  /\ s.op \in {"write", "member", "none"}
  /\ dvReg' = IF s.op = "none" THEN dvReg ELSE [dvReg EXCEPT ![Target(s.reg)] = s.val]
  /\ UNCHANGED <<dvLocked, dvRead>>
read_control(t, s) ==
  /\ s.op = "read"
  /\ dvRead' = {[val |-> dvReg[Target(s.reg)], own |-> dvReg[dvProps[dvCall[t].at].reg], failed |-> FALSE]}
  /\ UNCHANGED <<dvReg, dvLocked>>
\* the value a getter makes up when it does not report that the transfer failed
read_nothing(t, s) ==
  /\ s.op = "read"
  /\ dvRead' = IF Drop(s) = Abort THEN dvRead
               ELSE {[val |-> s.val, own |-> dvReg[dvProps[dvCall[t].at].reg], failed |-> TRUE]}
  /\ UNCHANGED <<dvReg, dvLocked>>
lock_dependents(s, lock) ==
  /\ s.op = "lock"
  /\ dvLocked' = update_dependent_lock_state(dvProps, s.val, lock, dvLocked)
  /\ UNCHANGED <<dvReg, dvRead>>

DvAccess(t) ==
  /\ ~IdleDv(t) /\ acquire_backend_guard(t) /\ ~MustFail(Head(dvTodo[t]))
  /\ \E s \in {Head(dvTodo[t])} :
       \/ write_control(t, s)
       \/ read_control(t, s)
       \/ lock_dependents(s, should_set_dependent_locked(dvProps[s.val], dvReg))
  /\ Proceed(t, Tail(dvTodo[t]), TRUE, IF Head(dvTodo[t]).op = "lock" THEN {TRUE} ELSE {}, FALSE)
  /\ UNCHANGED dvFaults

DvFail(t) ==
  /\ ~IdleDv(t) /\ acquire_backend_guard(t)
  /\ \E s \in {Head(dvTodo[t])} :
       /\ MustFail(s) \/ MayFail(s)
       /\ dvFaults' = IF MustFail(s) THEN dvFaults ELSE dvFaults + 1
       /\ \/ lock_dependents(s, FALSE)
          \/ read_nothing(t, s)
          \/ s.op \notin {"lock", "read"} /\ UNCHANGED <<dvReg, dvLocked, dvRead>>
       /\ Proceed(t, SubSeq(Tail(dvTodo[t]), 1 + Drop(s), Len(dvTodo[t]) - 1),
                  Drop(s) # Abort, IF s.op = "lock" THEN {FALSE} ELSE {}, s.op = "write" /\ Family = "afu050")

DvCenter(t) ==
  /\ ~IdleDv(t) /\ Head(dvTodo[t]).op = "center"
  /\ Proceed(t, update_offsets \o Tail(dvTodo[t]), TRUE, {}, FALSE)
  /\ UNCHANGED <<dvReg, dvLocked, dvRead, dvFaults>>

DvNext ==
  \/ DvOpen
  \/ DvClose
  \/ \E t \in DvThreads : \/ DvSet(t)
                          \/ DvGet(t)
                          \/ DvQuery(t)
                          \/ set_format(t)
                          \/ DvAccess(t)
                          \/ DvFail(t)
                          \/ DvCenter(t)
DvSpec == DvInit /\ [][DvNext]_dvVars

-----------------------------------------------------------------------------
(* Properties *)

BeingSet(i) == \E t \in DvThreads : InTheWay(t, i)

\* Whenever a property such as ExposureAuto is not being set, every listed
\* property that depends on it has its Locked flag exactly while the camera is
\* in the state that locks it, unless two threads set it at the same time or
\* its state could not be read back, which unlocks the dependents whatever the
\* camera does (dvDoubt; update_dependent_lock_state).
LocksFollowTheCamera ==
  Family # "arv" =>
    \A i \in 1..Len(dvProps) : ~BeingSet(i) /\ i \notin dvDoubt =>
      \A j \in 1..Len(dvProps) : dvProps[j].name \in DependentNames(dvProps[i]) =>
        (j \in dvLocked <=> should_set_dependent_locked(dvProps[i], dvReg))

InUse(p, v) ==
  CASE p.class \in {"Enum", "BalanceAuto", "Center", "arvEnum", "irisauto", "a420Enum", "a050Enum"} ->
         v # "Once" => <<dvReg[p.reg], v>> \in ToSet(p.menu)
    [] p.class \in {"Double", "rawratio", "a420Cached", "a420Color", "a050Double"} ->
         from_device(dvReg[p.reg]) \in v - Max({p.stp, Ticks})..v + Max({p.stp, Ticks})
    [] p.class = "a420Iris" -> (dvReg[p.reg] # 0) <=> (v # 0)
    [] p.class \in {"Command", "arvCommand", "focusauto"} -> TRUE
    [] OTHER -> dvReg[p.reg] = v
\* what the AFU drivers take without looking at the range they publish, and
\* the fractions of a colour gain that round up to a whole
Unchecked(p, v) ==
  \/ p.class \in {"a420Integer", "a420Cached", "a050Integer", "a050Double"} /\ v \notin p.lo..p.hi
  \/ p.class = "a420Color" /\ (v % (Frac * Ticks)) + Ticks \div 2 >= Frac * Ticks

\* A value a call accepted is what the camera uses, to within a step, until the
\* property or the automatic it depends on is set again, and a read returns the
\* register of its own property, whatever other threads do and whichever
\* accesses fail (set_value and get_value of the four backends).  Two things the
\* AFU backends do are exceptions: the AFU050 takes a value it could not
\* transfer, which is then forgotten here (c.lost), and both return 0 or the
\* error number as the value of a register they could not read.
AcceptedIsInUse ==
  /\ \A i \in 1..Len(dvProps) : \A v \in dvAsked[i] :
       BeingSet(i) \/ Unchecked(dvProps[i], v) \/ InUse(dvProps[i], v)
  /\ \A r \in dvRead :
       \/ r.val = r.own
       \/ Family \in {"afu050", "afu420"} /\ r.failed /\ r.val \in {0, LIBUSB_ERROR}

\* The properties agree with the camera, but for the cases named above.
PropertiesHold == LocksFollowTheCamera /\ AcceptedIsInUse
=============================================================================
