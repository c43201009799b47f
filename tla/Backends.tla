------------------------------ MODULE Backends ------------------------------
(***************************************************************************)
(* The three camera backends below DeviceInterface: which cameras they     *)
(* list (v4l2_utils.cpp, aravis_utils.cpp, UsbHandler.cpp), which camera   *)
(* an open call reaches, which video formats an opened camera offers, and  *)
(* what setting a format and asking for frame rates do to the camera       *)
(* (V4l2Device.cpp, AravisDevice.cpp, AravisDeviceScaling.cpp).            *)
(*                                                                         *)
(* A camera's settings are one record.  A call into a camera is a sequence *)
(* of writes, each a function from the fields it sets to their values; the *)
(* camera may refuse any of them.  Pixel formats are names, sizes small    *)
(* numbers, rates thousandths of a frame per second.                       *)
(***************************************************************************)
EXTENDS Integers, Sequences, FiniteSets, SequencesExt, FiniteSetsExt, TLC

CONSTANTS
  BkUnits,     \* unit -> [bus, serial, vendor, product, dev]: the hardware
  BkPaths,     \* where cameras are plugged in: "usb" or "net", in listing order
  BkLayouts,   \* the sets of plugged units to start from: sequences per path
  BkReplugs,   \* how often a unit is moved while nothing is open
  BkCalls      \* how many calls are made on the opened camera

VARIABLES
  bkAt,        \* path -> the unit plugged there, or NoUnit
  bkReplugs,   \* replugs so far
  bkFound,     \* the device list fetched last
  bkFresh,     \* history: nothing was replugged since that list was fetched
  bkAsked,     \* history: the list entry that was opened
  bkReached,   \* the unit this open call reached, or NoUnit
  bkUnit,      \* the unit whose device object is looked at, NoUnit, or "closed"
  bkCam,       \* what the camera is set to
  bkActive,    \* active_video_format_
  bkList,      \* available_videoformats_
  bkStream,    \* a stream is running
  bkLost,      \* is_lost_
  bkTold,      \* how often the loss was reported
  bkLast,      \* history: the last call, its argument and how it went
  bkCalls

bkBusVars == <<bkAt, bkReplugs, bkFound, bkFresh, bkAsked, bkReached>>
bkCamVars == <<bkCam, bkActive, bkList, bkStream, bkLost, bkTold, bkLast, bkCalls>>
bkVars == <<bkBusVars, bkUnit, bkCamVars>>

NoUnit == "none"
NoInfo == [type |-> "none", id |-> 0, serial |-> "", unit |-> NoUnit]
NoCall == [call |-> "none", fmt |-> <<>>, ret |-> FALSE, clean |-> FALSE]

-----------------------------------------------------------------------------
(* Listing cameras *)

Plugged(u) == \E i \in 1..Len(BkPaths) : bkAt[i] = u
OnBus(b) == SelectSeq([i \in 1..Len(BkPaths) |-> <<i, bkAt[i]>>],
                      LAMBDA n : n[2] # NoUnit /\ BkUnits[n[2]].bus = b)
Info(type, n) == [type |-> type, id |-> n[1], serial |-> BkUnits[n[2]].serial, unit |-> n[2]]

\* a UVC camera has a capture node (index 0) and a metadata node (index 1)
Nodes == FlattenSeq([i \in 1..Len(OnBus("usb")) |->
           <<[node |-> OnBus("usb")[i], index |-> 0], [node |-> OnBus("usb")[i], index |-> 1]>>])

device_is_known(list, info) == \E i \in 1..Len(list) : list[i].serial = info.serial

get_v4l2_device_list ==
  LET Add(list, n) ==
        LET unit == BkUnits[n.node[2]] info == Info("v4l2", n.node)
        IN  IF \/ n.index # 0
               \/ unit.vendor # "tis"
               \/ unit.product \in {"usb2pro", "blacklisted", "afu"}
               \/ device_is_known(list, info)
            THEN list ELSE Append(list, info)
  IN  FoldLeft(Add, <<>>, Nodes)

\* Type=1 and Type=2 cameras are passed over unless they have a zoom lens
is_blacklisted_gige(unit) == unit.product = "blacklisted"

get_aravis_device_list ==
  LET cams == SelectSeq(OnBus("net"), LAMBDA n : ~is_blacklisted_gige(BkUnits[n[2]]))
  IN  [i \in 1..Len(cams) |-> Info("aravis", cams[i])]

\* the two cameras driven through libusb; no video4linux driver binds to them
IsAfu(unit) == unit.vendor = "tis" /\ unit.product = "afu"
UsbDevices(refused) == SelectSeq(OnBus("usb"), LAMBDA n : IsAfu(BkUnits[n[2]]) /\ n[2] \notin refused)

get_usb_device_list(refused) ==
  LET cams == UsbDevices(refused) IN [i \in 1..Len(cams) |-> Info("libusb", cams[i])]

get_device_list(refused) ==
  get_aravis_device_list \o get_v4l2_device_list \o get_usb_device_list(refused)

-----------------------------------------------------------------------------
(* Opening one of them *)

FirstOr(s, Test(_)) == LET m == SelectSeq(s, Test) IN IF m = <<>> THEN NoUnit ELSE m[1][2]

\* UsbHandler::open_device_: the first camera that opens and has the serial
open_device_(serial, refused) ==
  FirstOr(UsbDevices(refused), LAMBDA n : BkUnits[n[2]].serial = serial)

open_device_interface(info, refused) ==
  CASE info.type = "libusb" -> open_device_(info.serial, refused)
    [] info.type = "v4l2"   -> LET u == bkAt[info.id]      \* whatever has the node now
                               IN  IF u = NoUnit \/ u \in refused THEN NoUnit
                                   ELSE IF IsAfu(BkUnits[u]) THEN NoUnit ELSE u
    [] info.type = "aravis" -> IF Plugged(info.unit) /\ info.unit \notin refused
                               THEN info.unit ELSE NoUnit

-----------------------------------------------------------------------------
(* Scaling *)

Scale(bh, bv, sh, sv) == [bh |-> bh, bv |-> bv, sh |-> sh, sv |-> sv]
Default == Scale(1, 1, 1, 1)
LegalFactors == {1, 2, 4, 8}

legal_resolution(s, sensor, size) ==
  size[1] <= sensor[1] \div (s.bh * s.sh) /\ size[2] <= sensor[2] \div (s.bv * s.sv)
allowed_max(s, sensor) == <<sensor[1] \div (s.bh * s.sh), sensor[2] \div (s.bv * s.sv)>>

ScalingType(features, binning, skipping) ==
  CASE features \cap binning # {} /\ features \cap skipping # {} -> "BinningSkipping"
    [] features \cap binning # {} /\ features \cap skipping = {} -> "Binning"
    [] features \cap binning = {} /\ features \cap skipping # {} -> "Skipping"
    [] OTHER -> "None"
Binnings == {"Binning", "BinningHorizontal", "BinningVertical"}
Bins(type) == type \in {"Binning", "BinningSkipping"}
Skips(type) == type \in {"Skipping", "BinningSkipping"}

determine_scaling_type(dev) ==
  ScalingType(dev.features, Binnings, {"DecimationHorizontal", "DecimationVertical"})

\* a camera that only skips equally in both directions answers 2x2 for 1x2
Coupled(dev, s) == IF dev.coupled THEN [s EXCEPT !.sh = Max({s.sh, s.sv}), !.sv = Max({s.sh, s.sv})] ELSE s

generate_scaling_information(dev) ==
  LET f == dev.factors \cap LegalFactors IN
  CASE determine_scaling_type(dev) = "Binning" ->
         IF {"BinningHorizontal", "BinningVertical"} \subseteq dev.features
         THEN {Scale(h, v, 1, 1) : h \in f, v \in f}
         ELSE {Scale(b, b, 1, 1) : b \in f \cap {1, 2, 4}}
    [] determine_scaling_type(dev) = "Skipping" -> {Scale(1, 1, h, v) : h \in f, v \in f}
    [] determine_scaling_type(dev) = "BinningSkipping" ->
         {Coupled(dev, Scale(bh, bv, sh, sv)) : bh \in f, bv \in f, sh \in f, sv \in f}
    [] OTHER -> {}

-----------------------------------------------------------------------------
(* AravisDevice: GenICam cameras *)

Format(fourcc, size, s, rate) == [fourcc |-> fourcc, size |-> size, scaling |-> s, rate |-> rate]
Entry(fourcc, min, max, s, rates) ==
  [fourcc |-> fourcc, min |-> min, max |-> max, scaling |-> s, rates |-> rates]

\* arv_fourcc_conversion_table: some formats have no fourcc, two share one
Conversions == << <<"Y800", "Mono8">>, <<"none", "Mono8Signed">>, <<"GRBG", "BayerGR8">>,
                  <<"PBG12", "PolarizedGigE">>, <<"PBG12", "PolarizedUsb3">> >>
aravis2fourcc(p) == LET m == SelectSeq(Conversions, LAMBDA c : c[2] = p)
                    IN  IF m = <<>> THEN "none" ELSE m[1][1]
fourcc2aravis(f) == LET m == SelectSeq(Conversions, LAMBDA c : c[1] = f)
                    IN  IF m = <<>> THEN "none" ELSE m[1][2]

\* the largest image: some cameras count the pixels that scaling leaves
SizeLimits(dev, s) == IF dev.scaled THEN allowed_max(s, dev.sensor) ELSE dev.sensor
ScalingOf(c) == Scale(c.bh, c.bv, c.sh, c.sv)
\* those make an image that a new scaling has no room for smaller
Settled(dev, c, w) ==
  LET d == w @@ c
      max == SizeLimits(dev, ScalingOf(d))
  IN  IF ScalingOf(d) = ScalingOf(c) THEN d
      ELSE [w |-> Min({d.w, max[1] - d.x}), h |-> Min({d.h, max[2] - d.y})] @@ d
\* what the sensor can be set to: a write that leads elsewhere is refused
Accepts(dev, c) == /\ c.pixel \in ToSet(dev.formats)
                   /\ c.w \in dev.min[1]..(SizeLimits(dev, ScalingOf(c))[1] - c.x)
                   /\ c.h \in dev.min[2]..(SizeLimits(dev, ScalingOf(c))[2] - c.y)
Write(dev, c, w) == IF Accepts(dev, Settled(dev, c, w)) THEN Settled(dev, c, w) ELSE c
WriteAll(dev, c, ws) ==
  LET after[i \in 0..Len(ws)] ==
        IF i = 0 THEN c ELSE CHOOSE d \in {Write(dev, b, ws[i]) : b \in {after[i - 1]}} : TRUE
  IN  after[Len(ws)]
\* how many of the writes a camera that refuses only what it cannot do takes
Taken(dev, c, ws) ==
  LET after[i \in 0..Len(ws)] == IF i = 0 THEN c ELSE Settled(dev, after[i - 1], ws[i])
      bad == {i \in 1..Len(ws) : ~Accepts(dev, after[i])}
  IN  IF bad = {} THEN Len(ws) ELSE Min(bad) - 1

\* (int)(fps * 100 + 0.5) / 100.0 for the list and the setter ...
RoundedRate(rate) == 10 * ((rate + 5) \div 10)
\* ... but (fps * 100 + 0.5) / 100.0, without the cast, for the getter
get_framerate(dev, c) == IF dev.rateNode = "enum" THEN c.rate + 5 ELSE c.rate

fetch_FPS_enum_framerates(dev) == {RoundedRate(r) : r \in dev.rates}
get_framerate_bounds(dev) == dev.rates
fetch_test_itf_framerates(dev) == dev.rates

set_frame_rate(dev, rate) ==
  CASE dev.rateNode = "float" -> <<[rate |-> rate]>>
    [] dev.rateNode = "enum"  -> LET m == {r \in dev.rates : RoundedRate(r) = rate}
                                 IN  IF m = {} THEN <<>> ELSE <<[rate |-> Max(m)]>>
    \* arv_camera_set_frame_rate overwrites the trigger settings
    [] dev.rateNode = "none"  -> <<[rate |-> rate, selector |-> "FrameStart", mode |-> "Off"]>>

SizeWrites(dev, x, y, size) ==
  IF dev.offset THEN <<[x |-> x, y |-> y, w |-> size[1], h |-> size[2]]>>
  ELSE <<[w |-> size[1]], [h |-> size[2]]>>

set_scaling(dev, s) ==
  LET type == determine_scaling_type(dev)
      bin  == IF "Binning" \in dev.features THEN <<[bh |-> s.bh, bv |-> s.bh]>>
              ELSE <<[bh |-> s.bh], [bv |-> s.bv]>>
      skip == IF dev.coupled THEN <<[sh |-> s.sh, sv |-> s.sh], [sh |-> s.sv, sv |-> s.sv]>>
              ELSE <<[sh |-> s.sh], [sv |-> s.sv]>>
  IN  (IF Bins(type) THEN bin ELSE <<>>) \o (IF Skips(type) THEN skip ELSE <<>>)

get_current_scaling(dev, c) ==
  LET type == determine_scaling_type(dev)
      b(f) == IF Bins(type) THEN f ELSE 1
      k(f) == IF Skips(type) THEN f ELSE 1
  IN  Scale(b(c.bh), b(c.bv), k(c.sh), k(c.sv))

read_camera_current_video_format(dev, c) ==
  Format(aravis2fourcc(c.pixel), <<c.w, c.h>>, get_current_scaling(dev, c), get_framerate(dev, c))

\* the settings get_framerate_info saves, and how it puts them back
restore_data_fetch(dev, c) ==
  IF dev.offset THEN [x1 |-> c.x, y1 |-> c.y, x2 |-> c.w, y2 |-> c.h]
  ELSE [x1 |-> c.w, x2 |-> c.h, y1 |-> 0, y2 |-> 0]
restore_data_reapply(dev, data) ==
  IF dev.offset THEN <<[x |-> data.x1, y |-> data.x2, w |-> data.y1, h |-> data.y1]>>
  ELSE <<[w |-> data.x1], [h |-> data.x2]>>

\* AravisDevice::get_framerate_info: the camera afterwards (errors are logged)
TouchesCamera(dev) == dev.bus = "net" /\ ~dev.test /\ dev.rateNode # "enum"
arv_framerate_info(dev, c, fourcc, size) ==
  IF ~TouchesCamera(dev) THEN c
  ELSE WriteAll(dev, c, <<[pixel |-> fourcc2aravis(fourcc)]>> \o SizeWrites(dev, 0, 0, size)
                        \o restore_data_reapply(dev, restore_data_fetch(dev, c)))
RatesOf(dev) == CASE dev.test -> fetch_test_itf_framerates(dev)
                  [] ~dev.test /\ dev.rateNode = "enum" -> fetch_FPS_enum_framerates(dev)
                  [] OTHER -> get_framerate_bounds(dev)

fetch_pixel_format_list(dev) == SelectSeq(dev.formats, LAMBDA p : aravis2fourcc(p) # "none")
Stepped(dev, size) == <<size[1] - (size[1] % dev.step[1]), size[2] - (size[2] % dev.step[2])>>

\* the entries of one pixel format, one per scaling that leaves a size
EntriesOf(dev, p) ==
  LET scales == generate_scaling_information(dev)
      f == aravis2fourcc(p)
  IN  IF scales = {} THEN {Entry(f, dev.min, dev.sensor, Default, RatesOf(dev))}
      ELSE IF dev.min = dev.sensor
      THEN {Entry(f, dev.min, dev.sensor, s, RatesOf(dev)) :
              s \in {t \in scales : legal_resolution(t, dev.sensor, dev.sensor)}}
      ELSE {Entry(f, dev.min, Stepped(dev, allowed_max(s, dev.sensor)), s, RatesOf(dev)) : s \in scales}

\* the list, without the pixel formats the camera refuses to switch to, and
\* what the probing leaves the camera at
generate_video_formats(dev, refused) ==
  UNION {EntriesOf(dev, p) : p \in ToSet(fetch_pixel_format_list(dev)) \ refused}
CameraAfterProbing(dev, c, refused) ==
  LET whole == WriteAll(dev, c, SizeWrites(dev, 0, 0, dev.sensor))
      Probe(a, p) == IF p \in refused THEN a
                     ELSE LET b == arv_framerate_info(dev, Write(dev, a, [pixel |-> p]),
                                                      aravis2fourcc(p), dev.sensor)
                              sizes == SetToSeq({e.max : e \in EntriesOf(dev, p)})
                          IN  FoldLeft(LAMBDA z, size : arv_framerate_info(dev, z, aravis2fourcc(p), size),
                                       b, sizes)
  IN  FoldLeft(Probe, whole, fetch_pixel_format_list(dev))

-----------------------------------------------------------------------------
(* V4l2Device: UVC cameras *)

\* kernels before 3.15 report 8-bit bayer formats as unknown, by their GUID
checkForBayer(d) == IF d[2] = "guid" THEN [pixel |-> "GRBG", emulate |-> TRUE]
                    ELSE [pixel |-> d[1], emulate |-> FALSE]
\* m_emulate_bayer is assigned for every format: the last one decides
EmulatesBayer(dev) == checkForBayer(Last(dev.descs)).emulate
Y800(p) == IF p = "GREY" THEN "Y800" ELSE p

determine_scaling(dev) ==
  IF "Override Scanning Mode" \in dev.features
  THEN IF "Scanning Mode Flags" \in dev.features THEN "Override" ELSE "None"
  ELSE ScalingType(dev.features, Binnings, {"Skipping", "SkippingHorizontal", "SkippingVertical"})

\* the override modes the camera confirms; mode 1 is the default
OverrideModes(dev) == {m \in DOMAIN dev.modes : m # 1 /\ dev.modes[m].id = m}

generate_scales(dev) ==
  CASE determine_scaling(dev) = "Override" -> {dev.modes[m].scaling : m \in OverrideModes(dev)}
    [] Bins(determine_scaling(dev)) /\ "Binning" \in dev.features ->
         {Scale(i, i, 1, 1) : i \in dev.factors \cap {2, 4, 8}}
    [] OTHER -> {}

v4l2_get_current_scaling(dev, c) ==
  CASE determine_scaling(dev) = "Override" ->
         IF c.scan \in OverrideModes(dev) THEN dev.modes[c.scan].scaling ELSE Default
    [] Bins(determine_scaling(dev)) /\ "Binning" \in dev.features -> Scale(c.bh, c.bh, 1, 1)
    [] Bins(determine_scaling(dev)) /\ "Binning" \notin dev.features -> Scale(c.bh, c.bv, 1, 1)
    [] OTHER -> Default

\* the writes of V4l2Device::set_scaling; its result is not looked at
v4l2_set_scaling(dev, s) ==
  CASE s \notin generate_scales(dev) \cup {Default} -> <<>>
    [] s \in generate_scales(dev) \cup {Default} /\ determine_scaling(dev) = "Override" ->
         IF s = Default THEN <<[scan |-> 1]>>
         ELSE <<[scan |-> Min({m \in OverrideModes(dev) : dev.modes[m].scaling = s})]>>
    [] s \in generate_scales(dev) \cup {Default} /\ Bins(determine_scaling(dev)) ->
         IF "Binning" \in dev.features THEN <<[bh |-> s.bh, bv |-> s.bh]>>
         ELSE <<[bh |-> s.bh], [bv |-> s.bv]>>
    [] OTHER -> <<>>

index_framerates(dev, size) == dev.sizes[CHOOSE i \in 1..Len(dev.sizes) : dev.sizes[i].size = size].rates
get_sensor_size(dev) == <<Max({z.size[1] : z \in ToSet(dev.sizes)}), Max({z.size[2] : z \in ToSet(dev.sizes)})>>

ScalesFor(dev, size) == {Default} \cup {s \in generate_scales(dev) : legal_resolution(s, get_sensor_size(dev), size)}
index_formats(dev) ==
  UNION {{Entry(Y800(checkForBayer(d).pixel), z.size, z.size, s, index_framerates(dev, z.size)) :
            s \in ScalesFor(dev, z.size)} : d \in ToSet(dev.descs), z \in ToSet(dev.sizes)}

\* VIDIOC_S_FMT: an unknown pixel format becomes the driver's first one, an
\* unknown size its first one; the frame interval goes back to its default
S_FMT(dev, c, pixel, size) ==
  LET p == IF \E d \in ToSet(dev.descs) : d[1] = pixel THEN pixel ELSE dev.descs[1][1]
      z == IF \E y \in ToSet(dev.sizes) : y.size = size THEN size ELSE dev.sizes[1].size
  IN  [pixel |-> p, w |-> z[1], h |-> z[2], rate |-> Max(index_framerates(dev, z))] @@ c
\* VIDIOC_S_PARM: the interval of the current size that is nearest
S_PARM(dev, c, rate) ==
  LET rates == index_framerates(dev, <<c.w, c.h>>)
      Off(r) == IF r > rate THEN r - rate ELSE rate - r
  IN  [rate |-> CHOOSE r \in rates : \A q \in rates : Off(r) <= Off(q)] @@ c

\* set_framerate: the smallest rate of any size that is not below the wanted one
CandidateRates(dev, rate) == {r \in UNION {z.rates : z \in ToSet(dev.sizes)} : r >= rate}
set_framerate(dev, c, rate) ==
  IF CandidateRates(dev, rate) = {} THEN c ELSE S_PARM(dev, c, Min(CandidateRates(dev, rate)))

DriverPixel(dev, fourcc) == IF EmulatesBayer(dev) \/ fourcc = "Y800" THEN "GREY" ELSE fourcc
determine_active_video_format(dev, c) ==
  Format(Y800(c.pixel), <<c.w, c.h>>, v4l2_get_current_scaling(dev, c), c.rate)

-----------------------------------------------------------------------------
(* The calls *)

IsUvcUnit(u) == BkUnits[u].bus = "usb" /\ ~IsAfu(BkUnits[u])
IsNet == bkCam # <<>> /\ bkUnit # "closed" /\ BkUnits[bkUnit].bus = "net"
IsUvc == bkCam # <<>> /\ bkUnit # "closed" /\ IsUvcUnit(bkUnit)
Dev == BkUnits[bkUnit]
Called(call, fmt, ret, clean) ==
  /\ bkCalls < BkCalls
  /\ bkCalls' = bkCalls + 1
  /\ bkLast' = [call |-> call, fmt |-> fmt, ret |-> ret, clean |-> clean]

\* Which camera an open call reaches, and what the device object of a camera
\* does, are explored apart from each other.
BkInit ==
  /\ bkReplugs = 0 /\ bkFound = <<>> /\ bkFresh = FALSE
  /\ bkAsked = NoInfo /\ bkReached = NoUnit
  /\ \/ bkUnit = NoUnit /\ bkAt \in BkLayouts
     \/ /\ bkUnit \in {u \in DOMAIN BkUnits : BkUnits[u].bus = "net" \/ IsUvcUnit(u)}
        /\ bkAt = [i \in 1..Len(BkPaths) |-> NoUnit]
  /\ bkCam = <<>> /\ bkActive = <<>> /\ bkList = {} /\ bkStream = FALSE
  /\ bkLost = FALSE /\ bkTold = 0 /\ bkLast = NoCall /\ bkCalls = 0

\* tcam::get_device_list; libusb_open may fail for some of the cameras
BkListDevices ==
  /\ bkUnit = NoUnit
  /\ \E refused \in SUBSET {u \in DOMAIN BkUnits : IsAfu(BkUnits[u])} : bkFound' = get_device_list(refused)
  /\ bkFresh' = TRUE
  /\ UNCHANGED <<bkAt, bkReplugs, bkAsked, bkReached, bkUnit, bkCamVars>>

\* a camera is unplugged, or two are plugged in the other way round
BkReplug ==
  /\ bkUnit = NoUnit /\ bkReplugs < BkReplugs
  /\ bkReplugs' = bkReplugs + 1
  /\ \E i, j \in 1..Len(BkPaths) :
       /\ bkAt[i] # NoUnit /\ BkPaths[i] = BkPaths[j]
       /\ bkAt' = [bkAt EXCEPT ![i] = IF i = j THEN NoUnit ELSE bkAt[j], ![j] = IF i = j THEN NoUnit ELSE bkAt[i]]
  /\ bkFresh' = FALSE
  /\ UNCHANGED <<bkFound, bkAsked, bkReached, bkUnit, bkCamVars>>

-----------------------------------------------------------------------------
(* Opening, and the calls on an open camera *)

\* AravisDevice::set_video_format up to the frame rate: all or up to a refusal
FormatWrites(dev, c, fmt) ==
  <<[pixel |-> fourcc2aravis(fmt.fourcc)]>> \o SizeWrites(dev, c.x, c.y, fmt.size)
    \o set_scaling(dev, fmt.scaling)
\* its end: TriggerSelector and TriggerMode are written again, as they were;
\* a variant leaves them as the frame rate call did
TriggerLeft(c, d) == d
Retriggered(c, d) == [selector |-> c.selector, mode |-> c.mode] @@ d
SetUpTo(dev, c, writes, n) == WriteAll(dev, c, SubSeq(writes, 1, n))
SetWhole(dev, c, writes, rate) == WriteAll(dev, c, writes \o set_frame_rate(dev, rate))

\* AravisDevice::index_genicam: list the formats, then set the old one again
index_genicam(dev, c, refused) ==
  LET active == read_camera_current_video_format(dev, c)
      probed == CameraAfterProbing(dev, c, refused)
      Reset(p, writes) == IF Taken(dev, p, writes) = Len(writes) THEN SetWhole(dev, p, writes, active.rate)
                          ELSE SetUpTo(dev, p, writes, Taken(dev, p, writes))
      whole  == Taken(dev, probed, FormatWrites(dev, probed, active)) = Len(FormatWrites(dev, probed, active))
      after  == Reset(probed, FormatWrites(dev, probed, active))
  IN  [cam |-> Retriggered(probed, after), list |-> generate_video_formats(dev, refused),
       active |-> IF whole THEN read_camera_current_video_format(dev, after) ELSE active]

open_aravis(dev) ==
  \E c \in dev.starts, refused \in SUBSET {dev.formats[1]} :
    LET opened == index_genicam(dev, c, refused)
    IN  bkCam' = opened.cam /\ bkActive' = opened.active /\ bkList' = opened.list

open_v4l2(dev) ==
  \E c \in dev.starts :
    bkCam' = c /\ bkActive' = determine_active_video_format(dev, c) /\ bkList' = index_formats(dev)

BkOpen ==
  /\ bkUnit = NoUnit
  /\ \E i \in 1..Len(bkFound), refused \in {{}, DOMAIN BkUnits} :
       /\ bkAsked' = bkFound[i]
       /\ bkReached' = open_device_interface(bkFound[i], refused)
  /\ UNCHANGED <<bkAt, bkReplugs, bkFound, bkFresh, bkUnit, bkCamVars>>

\* the constructors of AravisDevice and V4l2Device
BkConstruct ==
  /\ bkUnit \notin {NoUnit, "closed"} /\ bkCam = <<>>
  /\ IF Dev.bus = "net" THEN open_aravis(Dev) ELSE open_v4l2(Dev)
  /\ UNCHANGED <<bkBusVars, bkUnit, bkStream, bkLost, bkTold, bkLast, bkCalls>>

\* the formats an application picks: an entry, its smallest or largest size
Offers == UNION {{Format(e.fourcc, size, e.scaling, rate) : size \in {e.min, e.max}, rate \in e.rates} : e \in bkList}

arv_set_video_format(fmt) ==
  \E writes \in {FormatWrites(Dev, bkCam, fmt)} :
  \E possible \in {Taken(Dev, bkCam, writes)}, n \in 0..Len(writes), rated, reset \in BOOLEAN :
    /\ n <= possible
    /\ (rated => n = Len(writes)) /\ (~reset => rated)
    /\ bkLost => n = 0 /\ ~rated
    /\ \E done \in {n = Len(writes) /\ ~bkLost} :
       \E set \in {IF done /\ rated THEN SetWhole(Dev, bkCam, writes, fmt.rate)
                   ELSE SetUpTo(Dev, bkCam, writes, n)} :
         /\ bkCam' = IF reset THEN Retriggered(bkCam, set) ELSE set
         /\ bkActive' = IF done THEN read_camera_current_video_format(Dev, set) ELSE bkActive
         /\ Called("set", fmt, done, ~bkLost /\ n = possible /\ (done => rated) /\ reset)

v4l2_set_video_format(fmt) ==
  LET c1 == S_FMT(Dev, bkCam, DriverPixel(Dev, fmt.fourcc), fmt.size)
      c2 == set_framerate(Dev, c1, fmt.rate)
      scale == v4l2_set_scaling(Dev, fmt.scaling)
      known == CandidateRates(Dev, fmt.rate) # {}
  IN  \/ /\ bkCam' = bkCam /\ bkActive' = bkActive                  \* S_FMT fails
         /\ Called("set", fmt, FALSE, FALSE)
      \/ /\ ~bkLost /\ bkCam' = c1 /\ bkActive' = bkActive          \* no rate, or S_PARM fails
         /\ Called("set", fmt, FALSE, ~known)
      \/ /\ ~bkLost /\ known
         /\ \E n \in 0..Len(scale), read \in BOOLEAN :
              /\ bkCam' = FoldLeft(LAMBDA a, w : w @@ a, c2, SubSeq(scale, 1, n))
              /\ bkActive' = IF read THEN determine_active_video_format(Dev, bkCam') ELSE bkActive
              /\ Called("set", fmt, TRUE, read /\ n = Len(scale))

BkSetFormat ==
  /\ \E fmt \in Offers :
       \/ IsNet /\ ~bkStream /\ arv_set_video_format(fmt)
       \/ IsUvc /\ ~bkStream /\ v4l2_set_video_format(fmt)
       \/ IsUvc /\ bkStream /\ UNCHANGED <<bkCam, bkActive>> /\ Called("set", fmt, FALSE, FALSE)
  /\ UNCHANGED <<bkBusVars, bkUnit, bkList, bkStream, bkLost, bkTold>>

\* get_framerate_info for an offered format
BkQueryRates ==
  /\ \E fmt \in Offers :
       \/ /\ IsNet /\ (bkStream => ~TouchesCamera(Dev))
          /\ bkCam' = IF bkLost THEN bkCam ELSE arv_framerate_info(Dev, bkCam, fmt.fourcc, fmt.size)
          /\ Called("query", fmt, TRUE, TRUE)
       \/ /\ IsNet /\ bkStream /\ TouchesCamera(Dev)
          /\ bkCam' = bkCam /\ Called("query", fmt, FALSE, TRUE)
       \/ /\ IsUvc                              \* DeviceInterface: looked up in the list
          /\ bkCam' = bkCam /\ Called("query", fmt, TRUE, TRUE)
  /\ UNCHANGED <<bkBusVars, bkUnit, bkActive, bkList, bkStream, bkLost, bkTold>>

\* the user sets TriggerMode or moves the image area
BkUser ==
  /\ IsNet /\ ~bkLost
  /\ \/ bkCam' = [mode |-> "On", selector |-> "ExposureActive"] @@ bkCam
     \/ Dev.offset /\ \E x \in 0..1, y \in 0..2 : bkCam' = Write(Dev, bkCam, [x |-> x, y |-> y])
  /\ Called("user", <<>>, TRUE, TRUE)
  /\ UNCHANGED <<bkBusVars, bkUnit, bkActive, bkList, bkStream, bkLost, bkTold>>

BkStreaming ==
  /\ IsNet \/ IsUvc
  /\ bkStream' = ~bkStream
  /\ Called("stream", <<>>, TRUE, TRUE)
  /\ UNCHANGED <<bkBusVars, bkUnit, bkCam, bkActive, bkList, bkLost, bkTold>>

\* AravisDevice::device_lost, or the udev monitor's thread, which then ends
BkLose ==
  /\ IsNet \/ IsUvc
  /\ ~bkLost /\ bkLost' = TRUE
  /\ bkTold' = bkTold + 1
  /\ UNCHANGED <<bkBusVars, bkUnit, bkCam, bkActive, bkList, bkStream, bkLast, bkCalls>>

\* the destructors; a V4l2Device that still streams stops first
BkClose ==
  /\ IsNet \/ IsUvc
  /\ bkUnit' = "closed" /\ bkStream' = FALSE
  /\ UNCHANGED <<bkBusVars, bkCam, bkActive, bkList, bkLost, bkTold, bkLast, bkCalls>>

BkClosed == bkUnit = "closed" /\ UNCHANGED bkVars

BkNext == \/ BkListDevices \/ BkReplug \/ BkOpen \/ BkConstruct \/ BkSetFormat \/ BkQueryRates
          \/ BkUser \/ BkStreaming \/ BkLose \/ BkClose \/ BkClosed
BkSpec == BkInit /\ [][BkNext]_bkVars

-----------------------------------------------------------------------------
(* Properties *)

\* What opening a list entry reaches: the very camera that was listed, or no
\* camera.  Only a UVC camera, which is opened by its device node, can be
\* another one, and only if something was replugged since the list was made.
OpensWhatIsListed ==
  bkReached' # bkReached /\ bkReached' # NoUnit =>
    \/ bkReached' = bkAsked'.unit
    \/ bkAsked'.type = "v4l2" /\ ~bkFresh

\* The format can be set as it stands: its fourcc leads back to a pixel format
\* of the camera, there is room for it at the current offset, with the scaling
\* that is left (the size is written first), with the new one and with the new
\* binning over the old skipping, and bayer patterns are not emulated.
Settable(dev, c, fmt) ==
  IF dev.bus = "net"
  THEN /\ fourcc2aravis(fmt.fourcc) \in ToSet(dev.formats)
       /\ \A s \in {ScalingOf(c), fmt.scaling, Scale(fmt.scaling.bh, fmt.scaling.bv, c.sh, c.sv)} :
            c.x + fmt.size[1] <= SizeLimits(dev, s)[1] /\ c.y + fmt.size[2] <= SizeLimits(dev, s)[2]
  ELSE ~EmulatesBayer(dev)

\* The rate the camera reports for a rate it was set to.
ReadBack(dev, fmt) == IF dev.bus = "net" /\ dev.rateNode = "enum"
                      THEN {r + 5 : r \in {q \in dev.rates : RoundedRate(q) = fmt.rate}}
                      ELSE {fmt.rate}

\* A format the device lists can be had: set_video_format of one of them, when
\* the camera refuses nothing it can do, succeeds, leaves exactly this format
\* active and set in the camera, and leaves the trigger as it was.
ListedFormatIsApplied ==
  bkCalls' # bkCalls /\ bkLast'.call = "set" /\ bkLast'.clean /\ Settable(Dev, bkCam, bkLast'.fmt) =>
    LET fmt == bkLast'.fmt IN
    /\ bkLast'.ret
    /\ \E r \in ReadBack(Dev, fmt) : bkActive' = [fmt EXCEPT !.rate = r]
    /\ <<bkCam'.w, bkCam'.h>> = fmt.size
    /\ bkCam'.mode = bkCam.mode /\ bkCam'.selector = bkCam.selector

\* What opening a camera and setting a listed format promise.
BackendHolds == [][OpensWhatIsListed /\ ListedFormatIsApplied]_bkVars
=============================================================================
