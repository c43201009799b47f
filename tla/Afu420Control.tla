---------------------------- MODULE Afu420Control ----------------------------
(***************************************************************************)
(* Formats, the region of interest and the controls of the AFU420 camera    *)
(* (libusb/AFU420Device.cpp, AFU420DeviceProperties.cpp, the property       *)
(* classes and their backend).  The driver keeps its own view of the        *)
(* camera's registers; each call is several control transfers, and any of   *)
(* them may fail.  Sizes are <<width, height>>, the sensor's are the code's.*)
(***************************************************************************)
EXTENDS Integers

CONSTANTS
    AcFormats,     \* formats the program sets: [bpp, size, binning, fps]
    AcOffsets,     \* values of OffsetX and OffsetY
    AcExposures,   \* exposure times in microseconds
    MaxAcFaults    \* bound on failing transfers

max_sensor_dim == <<7716, 5360>>
max_sensor_dim_by12 == <<5424, 5360>>
min_sensor_dim == <<264, 256>>
acStep == <<12, 4>>
PixelMax == <<7719, 5367>>
PixelMin == <<256, 152>>
Binnings == {1, 2, 4, 8}

VARIABLES
    acCamera,   \* the registers [depth, conf, fps, roi, exposure]
    acDriver,   \* [on, depth, format, offset, auto, locked, exposure]: is_stream_on_, image_bit_depth_, active_video_format, m_offset,
                \* m_offset_auto, the lock of OffsetX and OffsetY, the cached exposure, 0 before the first set
    acFaults,   \* failing transfers left
    acClean     \* a format was set as a whole, and no setting of one has failed since

acVars == <<acCamera, acDriver, acFaults, acClean>>

-----------------------------------------------------------------------------
(* sizes *)
Both(P(_)) == P(1) /\ P(2)
Pair(F(_)) == <<F(1), F(2)>>

(* unsigned short *)
U16(x) == x % 65536

NoConf == [start |-> <<0, 0>>, end |-> <<0, 0>>, output |-> <<0, 0>>, binning |-> <<0, 0>>]

transform_roi_start(pos, dim) == Pair(LAMBDA i : max_sensor_dim[i] - pos[i] - dim[i])

(* the pixels on the sensor behind an image *)
OnSensor(dim, bin) == Pair(LAMBDA i : IF bin[i] > 0 THEN dim[i] * bin[i] ELSE dim[i])

(* Mutant: the start is compared as a signed number.                        *)
InVisibleAreaSigned(roi) == Both(LAMBDA i : roi[i] <= PixelMax[i] - PixelMin[i])

(* the start is unsigned: left of the sensor is far right of it *)
InVisibleArea(roi) == Both(LAMBDA i : roi[i] >= 0 /\ roi[i] <= PixelMax[i] - PixelMin[i])

(* the firmware wants 0 instead of a factor of 1 *)
FirmwareBinning(binning) == Pair(LAMBDA i : IF binning[i] = 1 THEN 0 ELSE binning[i])

(* the region of sensor pixels that starts at roi, or nothing at all *)
RegionOf(roi, sensor, bin) ==
    LET start == Pair(LAMBDA i : U16(4 + roi[i]))
        end == Pair(LAMBDA i : U16(start[i] + sensor[i] - 1))
        valid == /\ ~(bin[1] \notin {0, 2, 4, 8} /\ bin[2] \notin {0, 2, 4, 8})
                 /\ InVisibleArea(roi) /\ Both(LAMBDA i : roi[i] % 4 = 0)
                 /\ Both(LAMBDA i : sensor[i] <= PixelMax[i] /\ sensor[i] % acStep[i] = 0)
                 /\ Both(LAMBDA i : end[i] <= PixelMax[i])
    IN IF ~valid THEN NoConf
       ELSE [start |-> start, end |-> end,
             output |-> Pair(LAMBDA i : IF bin[i] > 0 THEN sensor[i] \div bin[i] ELSE sensor[i]), binning |-> bin]

CreateResolutionConf(pos, dim, binning) ==
    LET bin == FirmwareBinning(binning)
        sensor == OnSensor(dim, bin)
    IN RegionOf(transform_roi_start(pos, sensor), sensor, bin)

legal_resolution(sensor, binning, size) == Both(LAMBDA i : size[i] <= sensor[i] \div binning[i])

calculate_auto_center(sensor, size, binning) ==
    LET middle == Pair(LAMBDA i : (sensor[i] \div 2) - (size[i] * binning[i]) \div 2)
        center == Pair(LAMBDA i : middle[i] - (middle[i] % acStep[i]))
    IN IF (\E i \in {1, 2} : size[i] > sensor[i]) \/ ~legal_resolution(sensor, binning, center)
       THEN <<0, 0>> ELSE center

calculate_auto_offset(f) ==
    calculate_auto_center(IF f.bpp = 8 THEN max_sensor_dim ELSE max_sensor_dim_by12, f.size, f.binning)

videoformat_to_resolution_conf(f, driver) ==
    LET offset == IF ~driver.auto THEN driver.offset
                  ELSE IF f.size \in {max_sensor_dim, max_sensor_dim_by12} THEN <<0, 0>>
                  ELSE calculate_auto_offset(f)
    IN CreateResolutionConf(offset, f.size, f.binning)

(* the resolutions a format is offered with: the largest unbinned, the      *)
(* smallest in every binning, and standard ones that fit                    *)
create_formats(standard) ==
    LET largest(bpp) == IF bpp = 8 THEN max_sensor_dim ELSE max_sensor_dim_by12
        fits(s) == Both(LAMBDA i : s[i] >= min_sensor_dim[i] /\ s[i] % acStep[i] = 0)
    IN {f \in [bpp : {8, 12}, size : {max_sensor_dim, max_sensor_dim_by12, min_sensor_dim} \cup standard,
               binning : {<<b, b>> : b \in Binnings}] :
          \/ f.size = largest(f.bpp) /\ f.binning = <<1, 1>>
          \/ f.size = min_sensor_dim
          \/ f.size \in standard /\ fits(f.size) /\ legal_resolution(largest(f.bpp), f.binning, f.size)}

(* the program sets formats that are offered with some standard resolutions *)
ASSUME AcAssumption ==
    /\ \A f \in AcFormats :
         /\ f.size \in Nat \X Nat /\ f.fps \in Nat
         /\ [bpp |-> f.bpp, size |-> f.size, binning |-> f.binning] \in create_formats({f.size})
    /\ AcOffsets \subseteq Int /\ MaxAcFaults \in Nat

-----------------------------------------------------------------------------
(* a call of control transfers of which the one named fails fails, if any *)
Fails(what) ==
    IF what = "none" THEN UNCHANGED acFaults ELSE acFaults > 0 /\ acFaults' = acFaults - 1

(* setup_bit_depth, set_resolution_config and set_framerate, one after the  *)
(* other; a failure leaves the registers before it written, and the format  *)
(* as it was                                                                *)
set_video_format(f, fails) ==
    LET depth == fails # "depth"
        conf == depth /\ fails # "resolution"
        fps == conf /\ fails # "fps"
    IN
    /\ ~acDriver.on /\ Fails(fails)
    /\ acCamera' = [acCamera EXCEPT
         !.depth = IF depth THEN f.bpp ELSE @,
         !.conf = IF conf THEN videoformat_to_resolution_conf(f, acDriver) ELSE @,
         !.fps = IF fps THEN U16(f.fps * 100) ELSE @]
    /\ acDriver' = [acDriver EXCEPT !.depth = IF depth THEN f.bpp ELSE @, !.format = IF fps THEN f ELSE @]
    /\ acClean' = fps

(* the number of the largest offset is computed unsigned: an image wider    *)
(* than it makes the largest offset huge                                    *)
calc_partial_scan_offset_positions(driver) ==
    LET room(i) == (PixelMax[i] - acStep[i]) \div driver.format.binning[i] - driver.format.size[i]
    IN Pair(LAMBDA i :
        IF driver.auto THEN U16(room(i) \div 2)
        ELSE IF room(i) >= 0 /\ driver.offset[i] > room(i) THEN room(i) ELSE driver.offset[i])

set_partial_scan_offset(driver, fails) ==
    /\ Fails(fails) /\ acDriver' = driver
    /\ acCamera' = IF fails = "none"
                   THEN [acCamera EXCEPT !.roi = calc_partial_scan_offset_positions(driver)] ELSE acCamera
    /\ UNCHANGED acClean

(* OffsetX and OffsetY are locked while OffsetAutoCenter is on *)
set_offset(i, v, fails) ==
    ~acDriver.locked /\ set_partial_scan_offset([acDriver EXCEPT !.offset[i] = v], fails)

update_dependent_lock_state(driver) == [driver EXCEPT !.locked = driver.auto]

set_offset_auto(on, fails) ==
    set_partial_scan_offset(update_dependent_lock_state([acDriver EXCEPT !.auto = on]), fails)

(* a long exposure lowers the frame rate first; whether that worked is not  *)
(* asked                                                                    *)
set_exposure(e, fails) ==
    LET slower == 1000000 < acDriver.format.fps * e
    IN
    /\ Fails(fails)
    /\ acCamera' = [acCamera EXCEPT
         !.fps = CASE fails = "fps" -> @ [] slower -> U16(100000000 \div e) [] OTHER -> U16(acDriver.format.fps * 100),
         !.exposure = IF fails = "exposure" THEN @ ELSE e]
    /\ acDriver' = [acDriver EXCEPT !.exposure = IF fails = "exposure" THEN @ ELSE e]
    /\ UNCHANGED acClean

(* the stream is started or stopped *)
acStream == acDriver' = [acDriver EXCEPT !.on = ~@] /\ UNCHANGED <<acCamera, acFaults, acClean>>

(* a VideoFormat that nothing was put into *)
NoFormat == [bpp |-> 0, size |-> <<0, 0>>, binning |-> <<1, 1>>, fps |-> 0]

(* the depth and the size are asked for; the binning and the rate are not,  *)
(* and after a read that fails nothing is known                             *)
query_active_format(camera, fails) ==
    IF fails = "query" THEN NoFormat
    ELSE [NoFormat EXCEPT !.bpp = camera.depth, !.size = camera.conf.output]

(* create_exposure's set_exposure, with no format known: a rate of 0, and   *)
(* an exposure beyond its own range                                         *)
DefaultExposure == 3333333

(* A camera that was left in some format is opened: create_exposure sets    *)
(* the exposure, query_active_format follows, and image_bit_depth_ is 8     *)
(* whatever the camera has.                                                 *)
acInit ==
    \E f \in AcFormats, fails \in {"none"} \cup (IF MaxAcFaults = 0 THEN {} ELSE {"fps", "exposure", "query"}) :
        /\ acCamera = [depth |-> f.bpp, fps |-> IF fails = "fps" THEN U16(f.fps * 100) ELSE 0, roi |-> <<0, 0>>,
                       exposure |-> IF fails = "exposure" THEN 100 ELSE DefaultExposure,
                       conf |-> CreateResolutionConf(<<0, 0>>, f.size, f.binning)]
        /\ acDriver = [on |-> FALSE, depth |-> 8, format |-> query_active_format(acCamera, fails),
                       offset |-> <<0, 0>>, auto |-> TRUE, locked |-> TRUE, exposure |-> 0]
        /\ acFaults = MaxAcFaults - (IF fails = "none" THEN 0 ELSE 1) /\ acClean = FALSE

acNext ==
    \/ acStream
    \/ \E f \in AcFormats, w \in {"none", "depth", "resolution", "fps"} : set_video_format(f, w)
    \/ \E i \in {1, 2}, v \in AcOffsets, w \in {"none", "roi"} : set_offset(i, v, w)
    \/ \E on \in BOOLEAN, w \in {"none", "roi"} : set_offset_auto(on, w)
    \/ \E e \in AcExposures, w \in {"none", "fps", "exposure"} : set_exposure(e, w)

acSpec == acInit /\ [][acNext]_acVars

-----------------------------------------------------------------------------
acTypeOK ==
    /\ acCamera.depth \in {8, 12} /\ acDriver.depth \in {8, 12}
    /\ acDriver.format.bpp \in {0, 8, 12}
    /\ acFaults \in 0..MaxAcFaults /\ acClean \in BOOLEAN

(* What the camera is set to read lies on the sensor and gives the image    *)
(* size of the format, or is nothing at all: CreateResolutionConf refuses   *)
(* every offset that does not fit, also those that wrap around.             *)
RegionOnSensor ==
    acCamera.conf # NoConf =>
        LET c == acCamera.conf IN
        /\ Both(LAMBDA i : 4 <= c.start[i] /\ c.start[i] < c.end[i] /\ c.end[i] <= PixelMax[i])
        /\ Both(LAMBDA i : c.output[i] * (IF c.binning[i] = 0 THEN 1 ELSE c.binning[i]) = c.end[i] - c.start[i] + 1)

(* After a format was set the camera, the bit depth the headers are read    *)
(* with and active_video_format agree, through any changes of the controls, *)
(* unless a manual offset that does not fit made the region empty.          *)
FormatIsReal ==
    acClean =>
        /\ acCamera.depth = acDriver.format.bpp /\ acDriver.depth = acDriver.format.bpp
        /\ acCamera.conf.output \in {acDriver.format.size, <<0, 0>>}

(* A format that is offered can be set whenever the offsets are automatic:  *)
(* the centred region passes every test of CreateResolutionConf.            *)
OfferedIsValid ==
    acDriver.auto =>
        \A f \in AcFormats : videoformat_to_resolution_conf(f, acDriver).output = f.size

(* What formats and offsets promise over failing control transfers: the     *)
(* region lies on the sensor, the format in force is the one of the camera, *)
(* and what is offered can be set.                                          *)
RegionsHold == acTypeOK /\ RegionOnSensor /\ FormatIsReal /\ OfferedIsValid
=============================================================================
