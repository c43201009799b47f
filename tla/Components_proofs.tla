------------------------- MODULE Components_proofs --------------------------
(***************************************************************************)
(* Theorems about parts that stand alone: the time-out bookkeeping of the  *)
(* V4L2 stream thread, the one-push focus, the region of interest of the   *)
(* automatic functions, and formats and regions of the AFU420 camera.      *)
(***************************************************************************)
EXTENDS V4l2Watchdog, AutoFocus, AutoRegion, Afu420Control, TLAPS

-----------------------------------------------------------------------------
(* the tests of RegionOf for a region of u x v pixels that starts at       *)
(* <<x, y>>, and what it makes of one that passes them                     *)
RegionPasses(x, y, u, v) ==
    /\ 0 <= x /\ x <= 7463 /\ x % 4 = 0 /\ u <= 7719 /\ u % 12 = 0
    /\ 0 <= y /\ y <= 5215 /\ y % 4 = 0 /\ v <= 5367 /\ v % 4 = 0
    /\ (((4 + x) % 65536) + u - 1) % 65536 <= 7719 /\ (((4 + y) % 65536) + v - 1) % 65536 <= 5367

RegionMade(x, y, u, v, n) ==
    [start |-> <<(4 + x) % 65536, (4 + y) % 65536>>,
     end |-> <<(((4 + x) % 65536) + u - 1) % 65536, (((4 + y) % 65536) + v - 1) % 65536>>,
     output |-> IF n > 0 THEN <<u \div n, v \div n>> ELSE <<u, v>>, binning |-> <<n, n>>]

(* RegionOf tests both coordinates and makes a region, or none.            *)
LEMMA RegionIs ==
  ASSUME NEW x \in Int, NEW y \in Int, NEW u \in Nat, NEW v \in Nat, NEW n \in {0, 2, 4, 8}
  PROVE  RegionOf(<<x, y>>, <<u, v>>, <<n, n>>) =
           IF RegionPasses(x, y, u, v) THEN RegionMade(x, y, u, v, n) ELSE NoConf
BY DEF RegionOf, RegionPasses, RegionMade, Pair, Both, InVisibleArea, U16, PixelMax, PixelMin, acStep

-----------------------------------------------------------------------------
(* V4l2Watchdog: for every timeout and every countdown the bookkeeping of  *)
(* stream() stays in its bounds, and a warning follows a row of failures.  *)

(* The countdown says how many failures there were since the last image or *)
(* warning; as long as warnings are given it does not reach zero.          *)
CountsMisses ==
  /\ lostCountdown = LostDefault - misses
  /\ logCounter < LogRepetition => lostCountdown > 0

WatchdogInv == TypeOK /\ CountsMisses

(* The counters of a stream that begins satisfy the invariant.            *)
LEMMA WatchdogInit == Init => WatchdogInv
BY WatchdogAssumption DEF Init, WatchdogInv, TypeOK, CountsMisses, SelectTimeout

(* Every pass of the loop in stream() preserves the invariant.            *)
LEMMA WatchdogNext == WatchdogInv /\ [Next]_vars => WatchdogInv'
<1> SUFFICES ASSUME WatchdogInv, [Next]_vars PROVE WatchdogInv'
  OBVIOUS
<1> USE WatchdogAssumption
    DEF WatchdogInv, TypeOK, CountsMisses, SelectTimeout, Warn, StillWaiting
<1>1. CASE Timeout
  BY <1>1 DEF Timeout
<1>2. CASE Image
  BY <1>2 DEF Image
<1>3. CASE NoFrame
  BY <1>3 DEF NoFrame
<1>4. CASE SetTriggerMode
  BY <1>4 DEF SetTriggerMode
<1>5. CASE UNCHANGED vars
  BY <1>5 DEF vars
<1> QED BY <1>1, <1>2, <1>3, <1>4, <1>5 DEF Next

(* waited_seconds exceeds the waiting period by less than one select       *)
(* timeout, and the counters keep their ranges.                            *)
THEOREM WatchdogTypes == Spec => []TypeOK
<1>1. WatchdogInv => TypeOK
  BY DEF WatchdogInv
<1> QED BY <1>1, WatchdogInit, WatchdogNext, PTL DEF Spec

(* The warning of stream() comes only after lost_countdown_default         *)
(* failures in a row with no image among them.                             *)
THEOREM WarningsEarned == Spec => WarnAfterRowOfMisses
<1>1. WatchdogInv /\ [Next]_vars => [logCounter' > logCounter => misses = LostDefault - 1]_vars
  <2> SUFFICES ASSUME WatchdogInv, Next, logCounter' > logCounter
               PROVE  misses = LostDefault - 1
    OBVIOUS
  <2> USE WatchdogAssumption DEF WatchdogInv, TypeOK, CountsMisses, Warn
  <2>1. CASE Timeout
    BY <2>1 DEF Timeout
  <2>2. CASE Image
    BY <2>2 DEF Image
  <2>3. CASE NoFrame
    BY <2>3 DEF NoFrame
  <2>4. CASE SetTriggerMode
    BY <2>4 DEF SetTriggerMode
  <2> QED BY <2>1, <2>2, <2>3, <2>4 DEF Next
<1> QED BY <1>1, WatchdogInit, WatchdogNext, PTL DEF Spec, WarnAfterRowOfMisses

-----------------------------------------------------------------------------
(* AutoFocus: the lens stays in its range, for every lens.                 *)

foSpec == FoInit /\ [][FoNext]_foVars

(* A part of a way is no longer than the way, and at least one step.       *)
LEMMA PartOfTheWay ==
  ASSUME NEW d \in Nat \ {0}
  PROVE AtLeastOne(d \div FoDivisor) \in 1..d
  BY DEF AtLeastOne, FoDivisor

(* From inside the range, with an interval that is not empty, the next     *)
(* position is inside the range: the farther end lies in it.               *)
LEMMA NextInRange ==
  ASSUME NEW lo \in Int, NEW hi \in Int,
         NEW left \in lo..hi, NEW right \in lo..hi, NEW prev \in lo..hi,
         left < right
  PROVE calc_next_focus(left, right, prev) \in lo..hi
<1> DEFINE dl == Distance(left, prev)
           dr == Distance(right, prev)
<1>1. dl \in Nat /\ dr \in Nat
  BY DEF Distance
<1>2. CASE dl > dr
  <2>1. AtLeastOne(dl \div FoDivisor) \in 1..dl
    BY <1>1, <1>2, PartOfTheWay
  <2>2. prev - dl >= lo
    BY <1>2 DEF Distance
  <2> QED
    BY <1>1, <1>2, <2>1, <2>2 DEF calc_next_focus
<1>3. CASE ~(dl > dr)
  <2>1. dr # 0 /\ prev + dr <= hi
    BY <1>3 DEF Distance
  <2>2. AtLeastOne(dr \div FoDivisor) \in 1..dr
    BY <1>1, <2>1, PartOfTheWay
  <2> QED
    BY <1>1, <1>3, <2>1, <2>2 DEF calc_next_focus
<1> QED
  BY <1>2, <1>3

(* The inductive invariant: while a search is under way its interval and   *)
(* the best position so far are inside the range.                          *)
FocusInv ==
  /\ foRun \in FoRuns
  /\ FocusStaysInRange
  /\ foPrev \in foRun.min..foRun.max
  /\ foLeft \in foRun.min..foRun.max
  /\ foRight \in foRun.min..foRun.max

(* A lens that nobody has moved is within its range.                       *)
LEMMA FocusInvInit == FoInit => FocusInv
  BY FocusAssumption DEF FoInit, FocusInv, FocusStaysInRange

(* setup_run begins a search within the range of the lens.                 *)
LEMMA SetupKeepsRange ==
  ASSUME FocusInv, NEW region, NEW sharp, UNCHANGED foRun,
         SetupRun(region, sharp) \/ OtherRegion(region, sharp)
  PROVE FocusInv'
<1>1. foRun.min \in Int /\ foRun.max \in Int /\ foRun.min < foRun.max
  BY FocusAssumption DEF FocusInv
<1>2. calc_next_focus(foRun.min, foRun.max, foLens) \in foRun.min..foRun.max
  BY <1>1, NextInRange DEF FocusInv, FocusStaysInRange
<1> QED
  BY <1>1, <1>2 DEF FocusInv, FocusStaysInRange, SetupRun, OtherRegion, restart_roi, MoveLens

(* analyze_frame_ moves one end of the interval to the middle.             *)
LEMMA NarrowKeepsRange ==
  ASSUME FocusInv, NEW sharp, Narrow(sharp)
  PROVE /\ foLeft' \in foRun.min..foRun.max
        /\ foRight' \in foRun.min..foRun.max
        /\ foPrev' \in foRun.min..foRun.max
  BY DEF FocusInv, FocusStaysInRange, Narrow

(* An interval of more than two steps has two ends.                        *)
LEMMA Ordered == \A l, r \in Int : r - l > 2 => l < r
  OBVIOUS

(* The binary search stays between its ends.                               *)
LEMMA SearchKeepsRange ==
  ASSUME FocusInv, NEW sharp, UNCHANGED foRun, BinarySearch(sharp)
  PROVE FocusInv'
<1>1. foRun.min \in Int /\ foRun.max \in Int
  BY FocusAssumption DEF FocusInv
<1>2. /\ foLeft' \in foRun.min..foRun.max
      /\ foRight' \in foRun.min..foRun.max
      /\ foPrev' \in foRun.min..foRun.max
  BY NarrowKeepsRange DEF BinarySearch
<1>3. CASE foRight' - foLeft' > 2
  <2>1. foLeft' < foRight'
    <3>1. foLeft' \in Int /\ foRight' \in Int
      BY <1>1, <1>2
    <3> QED
      BY <1>3, <3>1, Ordered, Zenon
  <2>2. calc_next_focus(foLeft', foRight', foPrev') \in foRun.min..foRun.max
    BY <1>1, <1>2, <2>1, NextInRange
  <2>3. foLens' = calc_next_focus(foLeft', foRight', foPrev')
    BY <1>3 DEF BinarySearch, MoveLens
  <2> QED
    BY <1>2, <2>2, <2>3 DEF FocusInv, FocusStaysInRange
<1>4. CASE ~(foRight' - foLeft' > 2)
  BY <1>2, <1>4 DEF FocusInv, FocusStaysInRange, BinarySearch
<1> QED
  BY <1>3, <1>4

(* Every step of the one-push focus preserves the invariant.               *)
LEMMA FocusInvNext == FocusInv /\ [FoNext]_foVars => FocusInv'
<1> SUFFICES ASSUME FocusInv, [FoNext]_foVars PROVE FocusInv'
  OBVIOUS
<1>1. CASE FoImage
  <2>1. PICK region \in FoRegions, sharp \in FoSharp : FoFrame(region, sharp)
    BY <1>1 DEF FoImage
  <2>2. UNCHANGED foRun
    BY <2>1 DEF FoFrame
  <2>3. CASE SetupRun(region, sharp) \/ OtherRegion(region, sharp)
    BY <2>2, <2>3, SetupKeepsRange
  <2>4. CASE BinarySearch(sharp)
    BY <2>2, <2>4, SearchKeepsRange
  <2>5. CASE check_wait_condition
    BY <2>2, <2>5 DEF check_wait_condition, foSearch, FocusInv, FocusStaysInRange
  <2> QED
    BY <2>1, <2>3, <2>4, <2>5 DEF FoFrame, AnalyzeFrame
<1>2. CASE FoOtherImage
  BY <1>2 DEF FoOtherImage, FoEnd, foSearch, FocusInv, FocusStaysInRange
<1>3. CASE FoTimePasses
  BY <1>3 DEF FoTimePasses, foSearch, FocusInv, FocusStaysInRange
<1>4. CASE FoAskForRun
  BY <1>4 DEF FoAskForRun, foSearch, FocusInv, FocusStaysInRange
<1>5. CASE FoMoveByHand
  BY <1>5 DEF FoMoveByHand, foSearch, FocusInv, FocusStaysInRange
<1>6. CASE UNCHANGED foVars
  BY <1>6 DEF foVars, FocusInv, FocusStaysInRange
<1> QED
  BY <1>1, <1>2, <1>3, <1>4, <1>5, <1>6 DEF FoNext

(* auto_focus never asks for a position outside the camera's range, for    *)
(* every range, every sequence of images and every interference.           *)
THEOREM LensStaysInRange == foSpec => []FocusStaysInRange
<1>1. FocusInv => FocusStaysInRange
  BY DEF FocusInv
<1> QED
  BY <1>1, FocusInvInit, FocusInvNext, PTL DEF foSpec

-----------------------------------------------------------------------------
(* AutoRegion: the region the automatic functions measure.                 *)

arNumbers ==
  /\ arKind \in {"brightness", "focus"} /\ arOn \in BOOLEAN
  /\ arMode \in ArModes \cup {"custom"} /\ (arKind = "focus" => arMode = "custom")
  /\ arLeft \in Nat /\ arTop \in Nat /\ arWidth \in Nat /\ arHeight \in Nat
  /\ arImage[1] \in Nat /\ arImage[2] \in Nat
  /\ arImage = <<0, 0>> \/ (arImage[1] > 0 /\ arImage[2] > 0)

(* A preset lies in the image.                                             *)
arPreset ==
  arMode \in ArModes => /\ arLeft + arWidth <= arImage[1] /\ arTop + arHeight <= arImage[2]
                        /\ arMode = "full" => arImage[1] - arWidth < ArStepSize

(* A rectangle lies in an image, and is large enough for the focus.        *)
arInside(r) ==
  /\ 0 <= r.left /\ r.left < r.right /\ r.right <= arImage[1]
  /\ 0 <= r.top /\ r.top < r.bottom /\ r.bottom <= arImage[2]
  /\ arKind = "focus" => r.right - r.left >= ArLeastRegion /\ r.bottom - r.top >= ArLeastRegion

arInv == arNumbers /\ arPreset /\ (arSeen # NoRect /\ (arKind = "focus" => HasSquares) => arInside(arSeen))

(* RoundDown takes less than one step off.                                 *)
LEMMA RoundedDown == ASSUME NEW v \in Nat PROVE RoundDown(v) \in Nat /\ RoundDown(v) <= v /\ v - RoundDown(v) < 4
BY DEF RoundDown, ArStepSize

(* The presets lie in any image.                                           *)
LEMMA PresetInImage ==
  ASSUME NEW mode \in ArModes, NEW w \in Nat, NEW h \in Nat
  PROVE  /\ PresetOf(mode, w, h)[1] \in Nat /\ PresetOf(mode, w, h)[2] \in Nat
         /\ PresetOf(mode, w, h)[3] \in Nat /\ PresetOf(mode, w, h)[4] \in Nat
         /\ PresetOf(mode, w, h)[1] + PresetOf(mode, w, h)[3] <= w
         /\ PresetOf(mode, w, h)[2] + PresetOf(mode, w, h)[4] <= h
         /\ mode = "full" => PresetOf(mode, w, h)[3] = w
<1>1. CASE mode = "full"
  BY <1>1 DEF PresetOf
<1>2. CASE mode = "center_50"
  <2>1. w \div 4 \in Nat /\ h \div 4 \in Nat /\ w \div 2 \in Nat /\ h \div 2 \in Nat
        /\ w \div 4 + w \div 2 <= w /\ h \div 4 + h \div 2 <= h
    OBVIOUS
  <2> QED BY <1>2, <2>1 DEF PresetOf
<1>3. CASE mode = "center_25"
  <2>1. (w \div 8) * 3 \in Nat /\ (h \div 8) * 3 \in Nat /\ w \div 4 \in Nat /\ h \div 4 \in Nat
        /\ (w \div 8) * 3 + w \div 4 <= w /\ (h \div 8) * 3 + h \div 4 <= h
    OBVIOUS
  <2> QED BY <1>3, <2>1 DEF PresetOf
<1>4. CASE mode = "bottom_half"
  <2>1. h \div 2 \in Nat /\ h \div 2 + h \div 2 <= h
    OBVIOUS
  <2> QED BY <1>4, <2>1 DEF PresetOf
<1>5. CASE mode = "top_half"
  <2>1. h \div 2 \in Nat /\ h \div 2 <= h
    OBVIOUS
  <2> QED BY <1>5, <2>1 DEF PresetOf
<1> QED BY <1>1, <1>2, <1>3, <1>4, <1>5 DEF ArModes

(* set_auto_functions_preset_mode: a preset region fits into the image it  *)
(* is made for, and the full one leaves less than a step out.              *)
LEMMA SetPresetFits ==
  ASSUME arNumbers, NEW mode \in ArModes \cup {"custom"}, NEW image, image[1] \in Nat, image[2] \in Nat,
         set_auto_functions_preset_mode(mode, image)
  PROVE  /\ arMode' = mode /\ arLeft' \in Nat /\ arTop' \in Nat /\ arWidth' \in Nat /\ arHeight' \in Nat
         /\ mode \in ArModes => /\ arLeft' + arWidth' <= image[1] /\ arTop' + arHeight' <= image[2]
                                /\ mode = "full" => image[1] - arWidth' < ArStepSize
<1>1. CASE mode = "custom"
  BY <1>1, RoundedDown DEF set_auto_functions_preset_mode, arNumbers, arRegion, ArModes
<1>2. CASE mode \in ArModes
  <2>1. PICK l, t, x, y \in Nat :
          /\ l = PresetOf(mode, image[1], image[2])[1] /\ t = PresetOf(mode, image[1], image[2])[2]
          /\ x = PresetOf(mode, image[1], image[2])[3] /\ y = PresetOf(mode, image[1], image[2])[4]
          /\ l + x <= image[1] /\ t + y <= image[2] /\ (mode = "full" => x = image[1])
    <3>1. PICK w \in Nat, h \in Nat : w = image[1] /\ h = image[2]
      OBVIOUS
    <3>2. /\ PresetOf(mode, w, h)[1] \in Nat /\ PresetOf(mode, w, h)[2] \in Nat
          /\ PresetOf(mode, w, h)[3] \in Nat /\ PresetOf(mode, w, h)[4] \in Nat
          /\ PresetOf(mode, w, h)[1] + PresetOf(mode, w, h)[3] <= w
          /\ PresetOf(mode, w, h)[2] + PresetOf(mode, w, h)[4] <= h
          /\ mode = "full" => PresetOf(mode, w, h)[3] = w
      BY <1>2, PresetInImage
    <3> QED BY <3>1, <3>2
  <2>2. mode # "custom"
    BY <1>2 DEF ArModes
  <2>3. arMode' = mode /\ arLeft' = RoundDown(l) /\ arTop' = RoundDown(t) /\ arWidth' = RoundDown(x)
        /\ arHeight' = RoundDown(y)
    BY <2>1, <2>2 DEF set_auto_functions_preset_mode
  <2>4. /\ RoundDown(l) \in Nat /\ RoundDown(l) <= l /\ RoundDown(t) \in Nat /\ RoundDown(t) <= t
        /\ RoundDown(x) \in Nat /\ RoundDown(x) <= x /\ x - RoundDown(x) < 4
        /\ RoundDown(y) \in Nat /\ RoundDown(y) <= y
    BY RoundedDown
  <2> QED BY <2>1, <2>3, <2>4 DEF ArStepSize
<1> QED BY <1>1, <1>2

(* What auto_pass asks for is a rectangle, cut to the image it is one of   *)
(* its parts.                                                              *)
LEMMA ClippedInImage ==
  ASSUME arNumbers
  PROVE  LET r == clip_to_img_desc_region(Asked) IN
         r = NoRect \/ /\ r.left \in Nat /\ r.left < r.right /\ r.right \in Nat /\ r.right <= arImage[1]
                       /\ r.top \in Nat /\ r.top < r.bottom /\ r.bottom \in Nat /\ r.bottom <= arImage[2]
<1>1. PICK l, t, x, y \in Nat : Asked = [left |-> l, top |-> t, right |-> x, bottom |-> y] /\ l <= x /\ t <= y
  <2>1. CASE arOn
    <3>1. PICK l, t, w, h \in Nat : l = arLeft /\ t = arTop /\ w = arWidth /\ h = arHeight
      BY DEF arNumbers
    <3>2. Asked = [left |-> l, top |-> t, right |-> l + w, bottom |-> t + h]
      BY <2>1, <3>1 DEF Asked
    <3>3. l + w \in Nat /\ t + h \in Nat /\ l <= l + w /\ t <= t + h
      OBVIOUS
    <3> QED BY <3>2, <3>3
  <2>2. CASE ~arOn
    BY <2>2 DEF Asked, NoRect
  <2> QED BY <2>1, <2>2
<1>2. PICK w, h \in Nat : w = arImage[1] /\ h = arImage[2]
  BY DEF arNumbers
<1> DEFINE c == [left |-> ClipTo(l, w), top |-> ClipTo(t, h), right |-> ClipTo(x, w), bottom |-> ClipTo(y, h)]
<1>3. clip_to_img_desc_region(Asked) = IF c = Whole \/ is_empty_rect(c) THEN NoRect ELSE c
  BY <1>1, <1>2 DEF clip_to_img_desc_region
<1>4. /\ ClipTo(l, w) \in Nat /\ ClipTo(x, w) \in Nat /\ ClipTo(l, w) <= ClipTo(x, w) /\ ClipTo(x, w) <= w
      /\ ClipTo(t, h) \in Nat /\ ClipTo(y, h) \in Nat /\ ClipTo(t, h) <= ClipTo(y, h) /\ ClipTo(y, h) <= h
  BY <1>1, <1>2 DEF ClipTo
<1>5. ~is_empty_rect(c) => ClipTo(l, w) # ClipTo(x, w) /\ ClipTo(t, h) # ClipTo(y, h)
  BY DEF is_empty_rect
<1>6. CASE c = Whole \/ is_empty_rect(c)
  BY <1>3, <1>6
<1>7. CASE ~(c = Whole \/ is_empty_rect(c))
  BY <1>2, <1>3, <1>4, <1>5, <1>7
<1> QED BY <1>6, <1>7

(* brightness_view: the region that is measured lies in the image.         *)
LEMMA BrightnessInImage ==
  ASSUME arNumbers, arImage # <<0, 0>>, arKind = "brightness"
  PROVE  arInside(brightness_view)
<1> DEFINE r == clip_to_img_desc_region(Asked)
<1>1. arInside(Whole)
  BY DEF arInside, Whole, arNumbers
<1>2. CASE r = NoRect
  BY <1>1, <1>2 DEF brightness_view
<1>3. CASE r # NoRect
  <2>1. /\ r.left \in Nat /\ r.left < r.right /\ r.right \in Nat /\ r.right <= arImage[1]
        /\ r.top \in Nat /\ r.top < r.bottom /\ r.bottom \in Nat /\ r.bottom <= arImage[2]
    BY <1>3, ClippedInImage
  <2>2. brightness_view = make_safe_img_view(r)
    BY <1>3 DEF brightness_view
  <2> HIDE DEF r
  <2> DEFINE q == intersect_with_image_dim(r)
  <2>3. arImage[1] \in Nat /\ arImage[2] \in Nat
    BY DEF arNumbers
  <2>4. q = [r EXCEPT !.right = r.right, !.bottom = r.bottom]
    <3>1. ~(r.left > arImage[1]) /\ ~(r.top > arImage[2]) /\ ~(r.right > arImage[1]) /\ ~(r.bottom > arImage[2])
      BY <2>1, <2>3
    <3> QED BY <3>1 DEF intersect_with_image_dim, ClipTo
  <2>5. make_safe_img_view(r) = IF is_empty_rect(q) THEN Whole ELSE q
    BY DEF make_safe_img_view
  <2>6. q.left = r.left /\ q.right = r.right /\ q.top = r.top /\ q.bottom = r.bottom
    BY <2>4
  <2> HIDE DEF q
  <2>7. arInside(q)
    BY <2>1, <2>6 DEF arInside
  <2> QED BY <1>1, <2>2, <2>5, <2>7
<1> QED BY <1>2, <1>3

(* find_region: what is searched for sharpness lies in the image.          *)
LEMMA FocusInImage ==
  ASSUME arNumbers, HasSquares, NEW r, r \in find_region(clip_to_img_desc_region(Asked))
  PROVE  arInside(r)
<1> DEFINE u == clip_to_img_desc_region(Asked)
<1>1. CASE is_user_roi_valid(u)
  <2>1. r = u /\ u # NoRect
    BY <1>1 DEF find_region, is_user_roi_valid, NoRect, ArLeastRegion
  <2>2. /\ u.left \in Nat /\ u.left < u.right /\ u.right \in Nat /\ u.right <= arImage[1]
        /\ u.top \in Nat /\ u.top < u.bottom /\ u.bottom \in Nat /\ u.bottom <= arImage[2]
    BY <2>1, ClippedInImage
  <2> QED BY <1>1, <2>1, <2>2 DEF is_user_roi_valid, arInside
<1>2. CASE ~is_user_roi_valid(u)
  <2>1. PICK w, h \in Nat : w = arImage[1] /\ h = arImage[2] /\ w >= 128 /\ h >= 128
    BY DEF arNumbers, HasSquares, ArRegionSize
  <2> DEFINE nx == w \div 128
             ny == h \div 128
             x0 == (w - nx * 128) \div 2
             y0 == (h - ny * 128) \div 2
             squares == {[left |-> x0 + x * 128, top |-> y0 + y * 128, right |-> x0 + (x + 1) * 128,
                          bottom |-> y0 + (y + 1) * 128] : x \in 0 .. nx - 1, y \in 0 .. ny - 1}
  <2>2. autofocus_get_all_regions = squares
    BY <2>1 DEF autofocus_get_all_regions, ArRegionSize
  <2>3. /\ nx \in Nat /\ nx >= 1 /\ nx * 128 <= w /\ ny \in Nat /\ ny >= 1 /\ ny * 128 <= h
        /\ x0 \in Nat /\ x0 <= w - nx * 128 /\ y0 \in Nat /\ y0 <= h - ny * 128
    BY <2>1
  <2> HIDE DEF nx, ny, x0, y0
  <2>4. squares # {}
    <3>1. 0 \in 0 .. nx - 1 /\ 0 \in 0 .. ny - 1
      BY <2>3
    <3>2. [left |-> x0 + 0 * 128, top |-> y0 + 0 * 128, right |-> x0 + (0 + 1) * 128,
           bottom |-> y0 + (0 + 1) * 128] \in squares
      BY <3>1
    <3> HIDE DEF squares
    <3> QED BY <3>2
  <2>5. r \in squares
    BY <1>2, <2>2, <2>4 DEF find_region, autofocus_find_region
  <2>6. PICK x \in 0 .. nx - 1, y \in 0 .. ny - 1 :
          r = [left |-> x0 + x * 128, top |-> y0 + y * 128, right |-> x0 + (x + 1) * 128, bottom |-> y0 + (y + 1) * 128]
    BY <2>5
  <2>7. /\ 0 <= x0 + x * 128 /\ x0 + x * 128 < x0 + (x + 1) * 128 /\ x0 + (x + 1) * 128 <= w
        /\ x0 + (x + 1) * 128 - (x0 + x * 128) >= 64
    BY <2>1, <2>3
  <2>8. /\ 0 <= y0 + y * 128 /\ y0 + y * 128 < y0 + (y + 1) * 128 /\ y0 + (y + 1) * 128 <= h
        /\ y0 + (y + 1) * 128 - (y0 + y * 128) >= 64
    BY <2>1, <2>3
  <2>9. PICK a, b \in Int : r.left = a /\ r.right = b /\ 0 <= a /\ a < b /\ b <= w /\ b - a >= 64
    BY <2>3, <2>6, <2>7
  <2>10. PICK c, d \in Int : r.top = c /\ r.bottom = d /\ 0 <= c /\ c < d /\ d <= h /\ d - c >= 64
    BY <2>3, <2>6, <2>8
  <2> HIDE DEF squares
  <2> QED BY <2>1, <2>9, <2>10 DEF arInside, ArLeastRegion
<1> QED BY <1>1, <1>2

(* The region generate_auto_functions_roi makes satisfies the invariant.   *)
LEMMA arInitially == ASSUME ArInit PROVE arInv
<1>1. /\ arImage = <<0, 0>> /\ arImage[1] = 0 /\ arImage[2] = 0 /\ arSeen = NoRect
      /\ arLeft = 0 /\ arTop = 0 /\ arWidth = 0 /\ arHeight = 0
      /\ arKind \in {"brightness", "focus"} /\ arOn \in BOOLEAN
      /\ arMode \in {"full", "custom"} /\ (arKind = "focus" => arMode = "custom")
  BY DEF ArInit, generate_auto_functions_roi, generate_focus_auto
<1>2. arMode \in ArModes \cup {"custom"}
  BY <1>1 DEF ArModes
<1>3. arNumbers
  BY <1>1, <1>2 DEF arNumbers
<1> QED BY <1>1, <1>3 DEF arInv, arPreset, ArModes, ArStepSize

(* set_int of the left, top, width and height of the region.               *)
LEMMA SettersKeep ==
  ASSUME arInv, NEW v \in ArSteps, SetLeft(v) \/ SetTop(v) \/ SetWidth(v) \/ SetHeight(v)
  PROVE  arInv'
<1>1. v \in Nat
  BY ArAssumption
<1>2. /\ arKind' = arKind /\ arImage' = arImage /\ arOn' = arOn /\ arSeen' = arSeen
      /\ arMode' = IF arKind = "brightness" THEN "custom" ELSE arMode
  BY DEF SetLeft, SetTop, SetWidth, SetHeight, CustomMode
<1>3. arLeft' \in Nat /\ arTop' \in Nat /\ arWidth' \in Nat /\ arHeight' \in Nat
  BY <1>1 DEF arInv, arNumbers, SetLeft, SetTop, SetWidth, SetHeight, Shrunk, InRange
<1>4. arMode' = "custom"
  BY <1>2 DEF arInv, arNumbers
<1> QED BY <1>2, <1>3, <1>4 DEF arInv, arNumbers, arPreset, arInside, HasSquares, ArModes

(* set_int of the switch that turns the region on and off.                 *)
LEMMA EnableKeeps == ASSUME arInv, NEW on \in BOOLEAN, SetEnable(on) PROVE arInv'
BY DEF arInv, arNumbers, arPreset, arInside, HasSquares, SetEnable, arRegion

(* set_int of the preset.                                                  *)
LEMMA PresetKeeps == ASSUME arInv, NEW mode \in ArModes \cup {"custom"}, SetPreset(mode) PROVE arInv'
<1>1. arNumbers /\ arImage[1] \in Nat /\ arImage[2] \in Nat /\ set_auto_functions_preset_mode(mode, arImage)
  BY DEF arInv, arNumbers, SetPreset
<1>2. arKind = "brightness" /\ arKind' = arKind /\ arImage' = arImage /\ arOn' = arOn /\ arSeen' = arSeen
  BY DEF SetPreset
<1>3. /\ arMode' = mode /\ arLeft' \in Nat /\ arTop' \in Nat /\ arWidth' \in Nat /\ arHeight' \in Nat
      /\ mode \in ArModes => /\ arLeft' + arWidth' <= arImage[1] /\ arTop' + arHeight' <= arImage[2]
                             /\ mode = "full" => arImage[1] - arWidth' < ArStepSize
  BY <1>1, SetPresetFits
<1> QED BY <1>2, <1>3 DEF arInv, arNumbers, arPreset, arInside, HasSquares

(* update_to_new_format: the region follows the new image size.            *)
LEMMA FormatKeeps == ASSUME arInv, NEW image \in ArImages, ArNewFormat(image) PROVE arInv'
<1>1. image[1] \in Nat /\ image[2] \in Nat /\ image[1] > 0 /\ image[2] > 0
  BY ArAssumption
<1>2. arKind' = arKind /\ arImage' = image /\ arOn' = arOn /\ arSeen' = NoRect /\ arNumbers
  BY DEF ArNewFormat, arInv
<1>3. CASE arKind = "brightness" /\ arMode # "custom"
  <2>1. arMode \in ArModes /\ set_auto_functions_preset_mode(arMode, image)
    BY <1>3 DEF arInv, arNumbers, ArNewFormat, RegionFollows
  <2>2. /\ arMode' = arMode /\ arLeft' \in Nat /\ arTop' \in Nat /\ arWidth' \in Nat /\ arHeight' \in Nat
        /\ arMode \in ArModes => /\ arLeft' + arWidth' <= image[1] /\ arTop' + arHeight' <= image[2]
                                 /\ arMode = "full" => image[1] - arWidth' < ArStepSize
    BY <1>1, <1>2, <2>1, SetPresetFits
  <2> QED BY <1>1, <1>2, <2>1, <2>2 DEF arInv, arNumbers, arPreset
<1>4. CASE ~(arKind = "brightness" /\ arMode # "custom")
  <2>1. /\ arMode = "custom" /\ arMode' = arMode /\ arLeft' = arLeft /\ arTop' = arTop /\ arWidth' = arWidth
        /\ arHeight' = arHeight
    BY <1>4 DEF arInv, arNumbers, ArNewFormat, RegionFollows, arRegion
  <2> QED BY <1>1, <1>2, <2>1 DEF arInv, arNumbers, arPreset, ArModes
<1> QED BY <1>3, <1>4

(* auto_pass measures an image.                                            *)
LEMMA LookKeeps == ASSUME arInv, ArLook PROVE arInv'
<1>1. /\ arKind' = arKind /\ arImage' = arImage /\ arOn' = arOn /\ arMode' = arMode /\ arNumbers /\ arImage # <<0, 0>>
      /\ arLeft' = arLeft /\ arTop' = arTop /\ arWidth' = arWidth /\ arHeight' = arHeight /\ arPreset
  BY DEF ArLook, arInv, arRegion
<1>2. ASSUME arKind = "focus" => HasSquares PROVE arInside(arSeen')
  <2>1. CASE arKind = "brightness"
    BY <1>1, <2>1, BrightnessInImage DEF ArLook
  <2>2. CASE arKind = "focus"
    BY <1>1, <1>2, <2>2, FocusInImage DEF ArLook
  <2> QED BY <1>1, <2>1, <2>2 DEF arNumbers
<1>3. arNumbers' /\ arPreset'
  BY <1>1 DEF arNumbers, arPreset
<1> QED BY <1>1, <1>2, <1>3 DEF arInv, arInside, HasSquares

(* Whatever region is set, whichever preset, switch or image format        *)
(* follows, the automatic functions measure pixels of the image they are   *)
(* given, and a preset region is measured whole (auto_pass,                *)
(* clip_to_img_desc_region).                                               *)
THEOREM RegionMeasured == ArSpec => []MeasuresItsRegion
<1>1. ArInit => arInv
  BY arInitially
<1>2. arInv /\ [ArNext]_arVars => arInv'
  <2> SUFFICES ASSUME arInv, [ArNext]_arVars PROVE arInv'
    OBVIOUS
  <2>1. CASE UNCHANGED arVars
    BY <2>1 DEF arVars, arRegion, arInv, arNumbers, arPreset, arInside, HasSquares
  <2>2. CASE ArNext
    BY <2>2, SettersKeep, EnableKeeps, PresetKeeps, FormatKeeps, LookKeeps DEF ArNext
  <2> QED BY <2>1, <2>2
<1>3. arInv => MeasuresItsRegion
  BY DEF arInv, arPreset, arInside, MeasuresItsRegion
<1> QED BY <1>1, <1>2, <1>3, PTL DEF ArSpec

-----------------------------------------------------------------------------
(* Afu420Control: formats and the region of interest.                      *)

(* a format of w x h pixels binned by b that is offered *)
OfferedAs(f, w, h, b) ==
    /\ f.size = <<w, h>> /\ f.binning = <<b, b>> /\ f.bpp \in {8, 12} /\ f.fps \in Nat
    /\ w >= 264 /\ h >= 256 /\ w % 12 = 0 /\ h % 4 = 0
    /\ w * b <= (IF f.bpp = 8 THEN 7716 ELSE 5424) /\ h * b <= 5360

(* What is known of a format that is offered: create_formats.              *)
LEMMA Offered ==
  ASSUME NEW f \in AcFormats
  PROVE  \E w \in Nat, h \in Nat, b \in {1, 2, 4, 8} : OfferedAs(f, w, h, b)
<1> DEFINE g == [bpp |-> f.bpp, size |-> f.size, binning |-> f.binning]
           largest(bpp) == IF bpp = 8 THEN max_sensor_dim ELSE max_sensor_dim_by12
<1>1. g \in create_formats({f.size}) /\ f.fps \in Nat /\ f.size \in Nat \X Nat
  BY AcAssumption
<1>2. g.bpp \in {8, 12} /\ g.binning \in {<<b, b>> : b \in {1, 2, 4, 8}}
  BY <1>1 DEF create_formats, Binnings
<1>3. PICK w \in Nat, h \in Nat : f.size = <<w, h>>
  BY <1>1
<1>4. PICK b \in {1, 2, 4, 8} : f.binning = <<b, b>>
  BY <1>2
<1>5. \/ f.size = largest(f.bpp) /\ f.binning = <<1, 1>>
      \/ f.size = min_sensor_dim
      \/ /\ w >= 264 /\ h >= 256 /\ w % 12 = 0 /\ h % 4 = 0
         /\ w <= largest(f.bpp)[1] \div b /\ h <= largest(f.bpp)[2] \div b
  BY <1>1, <1>3, <1>4 DEF create_formats, Binnings, Both, legal_resolution, min_sensor_dim, acStep
<1>6. /\ w >= 264 /\ h >= 256 /\ w % 12 = 0 /\ h % 4 = 0
      /\ w * b <= (IF f.bpp = 8 THEN 7716 ELSE 5424) /\ h * b <= 5360
  <2>1. CASE f.size = largest(f.bpp) /\ f.binning = <<1, 1>>
    BY <2>1, <1>3, <1>4 DEF max_sensor_dim, max_sensor_dim_by12
  <2>2. CASE f.size = min_sensor_dim
    BY <2>2, <1>3, <1>4 DEF min_sensor_dim
  <2>3. CASE /\ w >= 264 /\ h >= 256 /\ w % 12 = 0 /\ h % 4 = 0
             /\ w <= largest(f.bpp)[1] \div b /\ h <= largest(f.bpp)[2] \div b
    BY <2>3, <1>2 DEF max_sensor_dim, max_sensor_dim_by12
  <2> QED BY <1>5, <2>1, <2>2, <2>3
<1> QED BY <1>1, <1>2, <1>3, <1>4, <1>6 DEF OfferedAs

(* The factor the firmware is given, and the size on the sensor.           *)
LEMMA BinnedBy ==
  ASSUME NEW w \in Nat, NEW h \in Nat, NEW b \in {1, 2, 4, 8}
  PROVE  LET n == IF b = 1 THEN 0 ELSE b IN
         /\ FirmwareBinning(<<b, b>>) = <<n, n>>
         /\ OnSensor(<<w, h>>, <<n, n>>) = <<w * b, h * b>>
BY DEF FirmwareBinning, OnSensor, Pair

(* transform_roi_start in numbers: the sensor counts from the other        *)
(* corner.                                                                 *)
LEMMA StartOf ==
  ASSUME NEW p \in Int, NEW q \in Int, NEW u \in Nat, NEW v \in Nat
  PROVE  transform_roi_start(<<p, q>>, <<u, v>>) = <<7716 - p - u, 5360 - q - v>>
BY DEF transform_roi_start, Pair, max_sensor_dim

(* what is promised of a region *)
Inside(c) ==
    /\ 4 <= c.start[1] /\ c.start[1] < c.end[1] /\ c.end[1] <= 7719
    /\ 4 <= c.start[2] /\ c.start[2] < c.end[2] /\ c.end[2] <= 5367
    /\ c.output[1] * (IF c.binning[1] = 0 THEN 1 ELSE c.binning[1]) = c.end[1] - c.start[1] + 1
    /\ c.output[2] * (IF c.binning[2] = 0 THEN 1 ELSE c.binning[2]) = c.end[2] - c.start[2] + 1

(* Binning and undoing it gives the size back.                             *)
LEMMA BinnedBack ==
  ASSUME NEW w \in Nat, NEW b \in {1, 2, 4, 8}
  PROVE  w * b \in Nat /\ (b > 1 => (w * b) \div b = w) /\ w * b >= w
OBVIOUS

(* CreateResolutionConf, at any offset: refused, or a region on the sensor *)
(* that gives the size that was asked for.                                 *)
LEMMA RegionInside ==
  ASSUME NEW p \in Int, NEW q \in Int, NEW w \in Nat, NEW h \in Nat, NEW b \in {1, 2, 4, 8},
         w >= 264, h >= 256
  PROVE  LET c == CreateResolutionConf(<<p, q>>, <<w, h>>, <<b, b>>) IN
         c = NoConf \/ (Inside(c) /\ c.output = <<w, h>>)
<1>1. PICK n \in {0, 2, 4, 8} : n = IF b = 1 THEN 0 ELSE b
  OBVIOUS
<1>2. PICK u \in Nat, v \in Nat : /\ u = w * b /\ v = h * b /\ u >= w /\ v >= h
                                  /\ (b > 1 => u \div b = w /\ v \div b = h)
  BY BinnedBack
<1>3. PICK x \in Int, y \in Int : x = 7716 - p - u /\ y = 5360 - q - v
  OBVIOUS
<1>4. CreateResolutionConf(<<p, q>>, <<w, h>>, <<b, b>>) = RegionOf(<<x, y>>, <<u, v>>, <<n, n>>)
  <2>1. FirmwareBinning(<<b, b>>) = <<n, n>> /\ OnSensor(<<w, h>>, <<n, n>>) = <<u, v>>
    BY <1>1, <1>2, BinnedBy, ZenonT(30)
  <2>2. transform_roi_start(<<p, q>>, <<u, v>>) = <<x, y>>
    BY <1>3, StartOf
  <2> QED BY <2>1, <2>2 DEF CreateResolutionConf
<1>5. (IF n > 0 THEN <<u \div n, v \div n>> ELSE <<u, v>>) = <<w, h>>
  BY <1>1, <1>2
<1>6. ASSUME 0 <= x, x <= 7463, 0 <= y, y <= 5215, u <= 7719, v <= 5367
      PROVE  /\ (4 + x) % 65536 = 4 + x /\ (4 + y) % 65536 = 4 + y
             /\ (4 + x + u - 1) % 65536 = 3 + x + u /\ (4 + y + v - 1) % 65536 = 3 + y + v
  BY <1>6, <1>2
<1>7. \/ RegionOf(<<x, y>>, <<u, v>>, <<n, n>>) = NoConf
      \/ /\ 0 <= x /\ 0 <= y /\ 3 + x + u <= 7719 /\ 3 + y + v <= 5367
         /\ RegionOf(<<x, y>>, <<u, v>>, <<n, n>>) =
              [start |-> <<4 + x, 4 + y>>, end |-> <<3 + x + u, 3 + y + v>>, output |-> <<w, h>>, binning |-> <<n, n>>]
  <2> DEFINE R == RegionOf(<<x, y>>, <<u, v>>, <<n, n>>)
             sx == (4 + x) % 65536
             sy == (4 + y) % 65536
             ex == (sx + u - 1) % 65536
             ey == (sy + v - 1) % 65536
  <2>1. \/ R = NoConf
        \/ /\ 0 <= x /\ x <= 7463 /\ 0 <= y /\ y <= 5215 /\ u <= 7719 /\ v <= 5367 /\ ex <= 7719 /\ ey <= 5367
           /\ R = [start |-> <<sx, sy>>, end |-> <<ex, ey>>,
                   output |-> IF n > 0 THEN <<u \div n, v \div n>> ELSE <<u, v>>, binning |-> <<n, n>>]
    <3>1. R = IF RegionPasses(x, y, u, v) THEN RegionMade(x, y, u, v, n) ELSE NoConf
      BY RegionIs
    <3> QED BY <3>1 DEF RegionPasses, RegionMade
  <2>2. ASSUME 0 <= x, x <= 7463, 0 <= y, y <= 5215, u <= 7719, v <= 5367
        PROVE  sx = 4 + x /\ sy = 4 + y /\ ex = 3 + x + u /\ ey = 3 + y + v
    BY <1>6, <2>2
  <2> HIDE DEF sx, sy, ex, ey, R
  <2> QED BY <2>1, <2>2, <1>5 DEF R
<1>8. u = w * (IF n = 0 THEN 1 ELSE n) /\ v = h * (IF n = 0 THEN 1 ELSE n)
  BY <1>1, <1>2
<1>9. ASSUME 0 <= x, 0 <= y, 3 + x + u <= 7719, 3 + y + v <= 5367
      PROVE  Inside([start |-> <<4 + x, 4 + y>>, end |-> <<3 + x + u, 3 + y + v>>, output |-> <<w, h>>, binning |-> <<n, n>>])
  <2> DEFINE c == [start |-> <<4 + x, 4 + y>>, end |-> <<3 + x + u, 3 + y + v>>, output |-> <<w, h>>, binning |-> <<n, n>>]
  <2>1. /\ c.start[1] = 4 + x /\ c.end[1] = 3 + x + u /\ c.output[1] = w /\ c.binning[1] = n
        /\ c.start[2] = 4 + y /\ c.end[2] = 3 + y + v /\ c.output[2] = h /\ c.binning[2] = n
    OBVIOUS
  <2> HIDE DEF c
  <2>2. 4 <= c.start[1] /\ c.start[1] < c.end[1] /\ c.end[1] <= 7719
    BY <1>2, <1>9, <2>1
  <2>3. 4 <= c.start[2] /\ c.start[2] < c.end[2] /\ c.end[2] <= 5367
    BY <1>2, <1>9, <2>1
  <2>4. /\ c.output[1] * (IF c.binning[1] = 0 THEN 1 ELSE c.binning[1]) = c.end[1] - c.start[1] + 1
        /\ c.output[2] * (IF c.binning[2] = 0 THEN 1 ELSE c.binning[2]) = c.end[2] - c.start[2] + 1
    BY <1>8, <2>1
  <2>5. Inside(c)
    BY <2>2, <2>3, <2>4 DEF Inside
  <2> QED BY <2>5, Zenon DEF c
<1> QED BY <1>4, <1>7, <1>9

(* Where the region of a centred image starts.                             *)
LEMMA Centre ==
  ASSUME NEW W \in {7716, 5424, 5360}, NEW k \in {4, 12}, NEW u \in Nat, u <= W, u % 4 = 0
  PROVE  LET m == W \div 2 - u \div 2
             c == m - (m % k)
         IN m \in Nat /\ c \in Nat /\ c <= m /\ c % 4 = 0 /\ c + u <= W
<1>1. PICK a \in Nat : u = 2 * a
  OBVIOUS
<1>2. u \div 2 = a
  BY <1>1
<1>3. PICK m \in Nat : m = W \div 2 - u \div 2
  BY <1>1, <1>2
<1>4. CASE k = 4
  <2>1. m - (m % 4) \in Nat /\ m - (m % 4) <= m /\ (m - (m % 4)) % 4 = 0
    OBVIOUS
  <2> QED BY <1>4, <2>1, <1>1, <1>2, <1>3
<1>5. CASE k = 12
  <2>1. m - (m % 12) \in Nat /\ m - (m % 12) <= m /\ (m - (m % 12)) % 4 = 0
    OBVIOUS
  <2> QED BY <1>5, <2>1, <1>1, <1>2, <1>3
<1> QED BY <1>4, <1>5

(* an image of w x h pixels binned by b lies at <<p, q>> on the sensor *)
LiesAt(p, q, w, h, b) ==
    /\ p \in Nat /\ q \in Nat /\ w \in Nat /\ h \in Nat /\ b \in {1, 2, 4, 8}
    /\ w >= 264 /\ h >= 256 /\ w % 12 = 0 /\ h % 4 = 0
    /\ p % 4 = 0 /\ q % 4 = 0 /\ p + w * b <= 7716 /\ q + h * b <= 5360

(* CreateResolutionConf accepts a region that lies on the visible part.    *)
LEMMA RegionFits ==
  ASSUME NEW p, NEW q, NEW w, NEW h, NEW b, LiesAt(p, q, w, h, b)
  PROVE  CreateResolutionConf(<<p, q>>, <<w, h>>, <<b, b>>).output = <<w, h>>
<1> USE DEF LiesAt
<1>1. PICK n \in {0, 2, 4, 8} : n = IF b = 1 THEN 0 ELSE b
  OBVIOUS
<1>2. PICK u \in Nat, v \in Nat : /\ u = w * b /\ v = h * b /\ u >= w /\ v >= h
                                  /\ (b > 1 => u \div b = w /\ v \div b = h)
  BY BinnedBack
<1>2a. u % 12 = 0 /\ v % 4 = 0
  BY <1>2
<1>3. PICK x \in Int, y \in Int : x = 7716 - p - u /\ y = 5360 - q - v
  OBVIOUS
<1>4. CreateResolutionConf(<<p, q>>, <<w, h>>, <<b, b>>) = RegionOf(<<x, y>>, <<u, v>>, <<n, n>>)
  <2>1. FirmwareBinning(<<b, b>>) = <<n, n>> /\ OnSensor(<<w, h>>, <<n, n>>) = <<u, v>>
    BY <1>1, <1>2, BinnedBy, SMTT(30)
  <2>2. transform_roi_start(<<p, q>>, <<u, v>>) = <<x, y>>
    BY <1>3, StartOf
  <2> QED BY <2>1, <2>2 DEF CreateResolutionConf
<1>5. (IF n > 0 THEN <<u \div n, v \div n>> ELSE <<u, v>>) = <<w, h>>
  BY <1>1, <1>2
<1>6. 0 <= x /\ x <= 7463 /\ 0 <= y /\ y <= 5215 /\ u <= 7719 /\ v <= 5367
  BY <1>2, <1>3
<1>7. x % 4 = 0 /\ y % 4 = 0
  BY <1>2a, <1>3
<1>8. (4 + x) % 65536 = 4 + x /\ (4 + y) % 65536 = 4 + y
  BY <1>6
<1>9. (4 + x + u - 1) % 65536 <= 7719 /\ (4 + y + v - 1) % 65536 <= 5367
  BY <1>2, <1>3, <1>6
<1>10. RegionOf(<<x, y>>, <<u, v>>, <<n, n>>).output = IF n > 0 THEN <<u \div n, v \div n>> ELSE <<u, v>>
  <2>1. RegionOf(<<x, y>>, <<u, v>>, <<n, n>>) =
          IF RegionPasses(x, y, u, v) THEN RegionMade(x, y, u, v, n) ELSE NoConf
    BY RegionIs
  <2>2. RegionPasses(x, y, u, v)
    BY <1>2a, <1>6, <1>7, <1>8, <1>9 DEF RegionPasses
  <2>3. RegionMade(x, y, u, v, n).output = IF n > 0 THEN <<u \div n, v \div n>> ELSE <<u, v>>
    BY DEF RegionMade
  <2> QED BY <2>1, <2>2, <2>3
<1> QED BY <1>4, <1>5, <1>10

(* The middle of the sensor, one coordinate at a time.                      *)
(* half of what the image leaves of a sensor of W x H pixels *)
HalfLeft(m, k, W, H, w, h, b) ==
    /\ W \in Nat /\ H \in Nat /\ w \in Nat /\ h \in Nat /\ b \in {1, 2, 4, 8} /\ m \in Int /\ k \in Int
    /\ m = W \div 2 - (w * b) \div 2 /\ k = H \div 2 - (h * b) \div 2

(* calculate_auto_center in numbers.                                       *)
LEMMA CentreOf ==
  ASSUME NEW W, NEW H, NEW w, NEW h, NEW b, NEW m, NEW k, HalfLeft(m, k, W, H, w, h, b)
  PROVE  calculate_auto_center(<<W, H>>, <<w, h>>, <<b, b>>) \in {<<0, 0>>, <<m - (m % 12), k - (k % 4)>>}
<1> USE DEF HalfLeft
<1> DEFINE middle == <<(<<W, H>>[1] \div 2) - (<<w, h>>[1] * <<b, b>>[1]) \div 2, (<<W, H>>[2] \div 2) - (<<w, h>>[2] * <<b, b>>[2]) \div 2>>
           center == <<middle[1] - (middle[1] % acStep[1]), middle[2] - (middle[2] % acStep[2])>>
<1>1. middle = <<m, k>>
  OBVIOUS
<1>2. calculate_auto_center(<<W, H>>, <<w, h>>, <<b, b>>) \in {<<0, 0>>, center}
  BY DEF calculate_auto_center, Pair
<1>3. center = <<m - (m % 12), k - (k % 4)>>
  <2> HIDE DEF middle
  <2>1. middle[1] = m /\ middle[2] = k
    BY <1>1
  <2>2. acStep[1] = 12 /\ acStep[2] = 4
    BY DEF acStep
  <2>3. middle[1] - (middle[1] % acStep[1]) = m - (m % 12)
    BY <2>1, <2>2
  <2>4. middle[2] - (middle[2] % acStep[2]) = k - (k % 4)
    BY <2>1, <2>2
  <2> QED BY <2>3, <2>4, Zenon
<1> QED BY <1>2, <1>3, Zenon

(* A format that is offered fits in the centre and in the corner.          *)
LEMMA CentredFits ==
  ASSUME NEW f \in AcFormats
  PROVE  /\ CreateResolutionConf(calculate_auto_offset(f), f.size, f.binning).output = f.size
         /\ CreateResolutionConf(<<0, 0>>, f.size, f.binning).output = f.size
<1>0. PICK w \in Nat, h \in Nat, b \in {1, 2, 4, 8} : OfferedAs(f, w, h, b)
  BY Offered
<1>1. /\ f.size = <<w, h>> /\ f.binning = <<b, b>> /\ f.bpp \in {8, 12} /\ f.fps \in Nat
      /\ w >= 264 /\ h >= 256 /\ w % 12 = 0 /\ h % 4 = 0
      /\ w * b <= (IF f.bpp = 8 THEN 7716 ELSE 5424) /\ h * b <= 5360
  BY <1>0 DEF OfferedAs
<1>2. PICK W \in {7716, 5424} : W = IF f.bpp = 8 THEN 7716 ELSE 5424
  OBVIOUS
<1>3. PICK u \in Nat, v \in Nat : u = w * b /\ v = h * b /\ u % 4 = 0 /\ v % 4 = 0
  BY <1>1
<1>4. u <= W /\ v <= 5360
  BY <1>1, <1>2, <1>3
<1>5. PICK m \in Nat : m = W \div 2 - u \div 2 /\ m - (m % 12) \in Nat /\ (m - (m % 12)) % 4 = 0 /\ m - (m % 12) + u <= W
  BY <1>3, <1>4, Centre
<1>6. PICK k \in Nat : k = 5360 \div 2 - v \div 2 /\ k - (k % 4) \in Nat /\ (k - (k % 4)) % 4 = 0 /\ k - (k % 4) + v <= 5360
  BY <1>3, <1>4, Centre
<1>7. PICK p \in Nat, q \in Nat : p = m - (m % 12) /\ q = k - (k % 4) /\ p % 4 = 0 /\ q % 4 = 0 /\ p + u <= W /\ q + v <= 5360
  BY <1>5, <1>6
<1>8. calculate_auto_offset(f) \in {<<0, 0>>, <<p, q>>}
  <2>1. calculate_auto_offset(f) = calculate_auto_center(<<W, 5360>>, <<w, h>>, <<b, b>>)
    BY <1>1, <1>2 DEF calculate_auto_offset, max_sensor_dim, max_sensor_dim_by12
  <2>2. HalfLeft(m, k, W, 5360, w, h, b)
    BY <1>3, <1>5, <1>6 DEF HalfLeft
  <2>4. calculate_auto_center(<<W, 5360>>, <<w, h>>, <<b, b>>) \in {<<0, 0>>, <<m - (m % 12), k - (k % 4)>>}
    BY <2>2, CentreOf
  <2> QED BY <2>1, <2>4, <1>7
<1>9. w >= 264 /\ h >= 256 /\ w % 12 = 0 /\ h % 4 = 0 /\ f.size = <<w, h>> /\ f.binning = <<b, b>>
  BY <1>1
<1>10. CreateResolutionConf(<<p, q>>, <<w, h>>, <<b, b>>).output = <<w, h>>
  <2>1. p % 4 = 0 /\ q % 4 = 0 /\ p + w * b <= 7716 /\ q + h * b <= 5360
    BY <1>2, <1>3, <1>7
  <2>2. LiesAt(p, q, w, h, b)
    BY <1>9, <2>1 DEF LiesAt
  <2> QED BY <2>2, RegionFits
<1>11. CreateResolutionConf(<<0, 0>>, <<w, h>>, <<b, b>>).output = <<w, h>>
  <2>1. 0 \in Nat /\ 0 % 4 = 0 /\ 0 + w * b <= 7716 /\ 0 + h * b <= 5360
    BY <1>2, <1>3, <1>4
  <2>2. LiesAt(0, 0, w, h, b)
    BY <1>9, <2>1 DEF LiesAt
  <2> QED BY <2>2, RegionFits
<1> QED BY <1>8, <1>9, <1>10, <1>11

(* what a camera set to format f may be told to read *)
ConfFor(c, f) == c = NoConf \/ (Inside(c) /\ c.output = f.size)

(* A format that is offered is set, or refused, at any offset.             *)
LEMMA AnyOffset ==
  ASSUME NEW f \in AcFormats, NEW pos \in Int \X Int
  PROVE  ConfFor(CreateResolutionConf(pos, f.size, f.binning), f)
<1>0. PICK w \in Nat, h \in Nat, b \in {1, 2, 4, 8} : OfferedAs(f, w, h, b)
  BY Offered
<1>1. f.size = <<w, h>> /\ f.binning = <<b, b>> /\ w >= 264 /\ h >= 256
  BY <1>0 DEF OfferedAs
<1>2. PICK p \in Int, q \in Int : pos = <<p, q>>
  OBVIOUS
<1>3. LET c == CreateResolutionConf(<<p, q>>, <<w, h>>, <<b, b>>) IN
      c = NoConf \/ (Inside(c) /\ c.output = <<w, h>>)
  BY <1>1, RegionInside, ZenonT(30)
<1> QED BY <1>1, <1>2, <1>3 DEF ConfFor

(* The offset of the centre is a pair of numbers.                          *)
LEMMA CentreIsPair ==
  ASSUME NEW f \in AcFormats
  PROVE  calculate_auto_offset(f) \in Int \X Int
<1>0. PICK w \in Nat, h \in Nat, b \in {1, 2, 4, 8} : OfferedAs(f, w, h, b)
  BY Offered
<1>1. f.size = <<w, h>> /\ f.binning = <<b, b>>
  BY <1>0 DEF OfferedAs
<1>2. PICK W \in Nat : W = IF f.bpp = 8 THEN 7716 ELSE 5424
  OBVIOUS
<1>3. calculate_auto_offset(f) = calculate_auto_center(<<W, 5360>>, <<w, h>>, <<b, b>>)
  BY <1>1, <1>2 DEF calculate_auto_offset, max_sensor_dim, max_sensor_dim_by12
<1>4. PICK m \in Int, k \in Int : HalfLeft(m, k, W, 5360, w, h, b)
  BY DEF HalfLeft
<1>5. calculate_auto_offset(f) \in {<<0, 0>>, <<m - (m % 12), k - (k % 4)>>}
  BY <1>3, <1>4, CentreOf
<1> QED BY <1>5

(* the offsets of a driver *)
Offsets(driver) == driver.auto \in BOOLEAN /\ driver.offset \in Int \X Int

(* The region a format is set with fits the format, and is never refused    *)
(* while the offsets are automatic.                                         *)
LEMMA FormatFits ==
  ASSUME NEW f \in AcFormats, NEW driver, Offsets(driver)
  PROVE  /\ ConfFor(videoformat_to_resolution_conf(f, driver), f)
         /\ driver.auto => videoformat_to_resolution_conf(f, driver).output = f.size
<1> USE DEF Offsets
<1>1. CASE ~driver.auto
  <2>1. videoformat_to_resolution_conf(f, driver) = CreateResolutionConf(driver.offset, f.size, f.binning)
    BY <1>1 DEF videoformat_to_resolution_conf
  <2> QED BY <2>1, <1>1, AnyOffset
<1>2. CASE driver.auto
  <2>1. \/ videoformat_to_resolution_conf(f, driver) = CreateResolutionConf(<<0, 0>>, f.size, f.binning)
        \/ videoformat_to_resolution_conf(f, driver) = CreateResolutionConf(calculate_auto_offset(f), f.size, f.binning)
    BY <1>2 DEF videoformat_to_resolution_conf
  <2>2. <<0, 0>> \in Int \X Int
    OBVIOUS
  <2> QED BY <2>1, <2>2, AnyOffset, CentreIsPair, CentredFits
<1> QED BY <1>1, <1>2

(* the registers and the driver's view of them *)
acTypes ==
    /\ DOMAIN acCamera = {"depth", "conf", "fps", "roi", "exposure"}
    /\ DOMAIN acDriver = {"on", "depth", "format", "offset", "auto", "locked", "exposure"}
    /\ acDriver.offset \in Int \X Int /\ acDriver.auto \in BOOLEAN

acInv ==
    /\ acTypes /\ acTypeOK
    /\ acCamera.conf = NoConf \/ Inside(acCamera.conf)
    /\ acClean => /\ acCamera.depth = acDriver.format.bpp /\ acDriver.depth = acDriver.format.bpp
                  /\ ConfFor(acCamera.conf, acDriver.format)

(* The invariant implies what the run checks.                              *)
LEMMA acInvIsEnough ==
  ASSUME acInv
  PROVE  RegionsHold
<1>1. RegionOnSensor
  <2>1. acCamera.conf = NoConf \/ Inside(acCamera.conf)
    BY DEF acInv
  <2> DEFINE c == acCamera.conf
  <2> HIDE DEF c
  <2>2. ASSUME Inside(c)
        PROVE  /\ Both(LAMBDA i : 4 <= c.start[i] /\ c.start[i] < c.end[i] /\ c.end[i] <= PixelMax[i])
               /\ Both(LAMBDA i : c.output[i] * (IF c.binning[i] = 0 THEN 1 ELSE c.binning[i]) = c.end[i] - c.start[i] + 1)
    BY <2>2 DEF Inside, Both, PixelMax
  <2> QED BY <2>1, <2>2, Zenon DEF RegionOnSensor, c
<1>2. FormatIsReal
  <2>1. NoConf.output = <<0, 0>>
    BY DEF NoConf
  <2>2. acClean => /\ acCamera.depth = acDriver.format.bpp /\ acDriver.depth = acDriver.format.bpp
                   /\ ConfFor(acCamera.conf, acDriver.format)
    BY Zenon DEF acInv
  <2> QED BY <2>1, <2>2, Zenon DEF FormatIsReal, ConfFor
<1>3. OfferedIsValid
  <2>1. Offsets(acDriver)
    BY DEF acInv, acTypes, Offsets
  <2> QED BY <2>1, FormatFits DEF OfferedIsValid
<1> QED BY <1>1, <1>2, <1>3 DEF acInv, RegionsHold

(* The camera as it is opened satisfies the invariant.                     *)
LEMMA acInitially ==
  ASSUME acInit
  PROVE  acInv
<1> DEFINE someFaults == IF MaxAcFaults = 0 THEN {} ELSE {"fps", "exposure", "query"}
<1>1. PICK f \in AcFormats, fails \in {"none"} \cup someFaults :
         /\ acCamera = [depth |-> f.bpp, fps |-> IF fails = "fps" THEN U16(f.fps * 100) ELSE 0, roi |-> <<0, 0>>,
                        exposure |-> IF fails = "exposure" THEN 100 ELSE DefaultExposure,
                        conf |-> CreateResolutionConf(<<0, 0>>, f.size, f.binning)]
         /\ acDriver = [on |-> FALSE, depth |-> 8, format |-> query_active_format(acCamera, fails),
                        offset |-> <<0, 0>>, auto |-> TRUE, locked |-> TRUE, exposure |-> 0]
         /\ acFaults = MaxAcFaults - (IF fails = "none" THEN 0 ELSE 1) /\ acClean = FALSE
  BY Zenon DEF acInit
<1>2. f.bpp \in {8, 12}
  BY Offered DEF OfferedAs
<1>3. <<0, 0>> \in Int \X Int
  OBVIOUS
<1>4. ConfFor(CreateResolutionConf(<<0, 0>>, f.size, f.binning), f)
  BY <1>3, AnyOffset
<1>5. acTypes
  BY <1>1, <1>3 DEF acTypes
<1>6. acTypeOK
  <2>1. acCamera.depth = f.bpp /\ acDriver.depth = 8 /\ acClean = FALSE
    BY <1>1
  <2>2. acFaults \in 0 .. MaxAcFaults
    BY <1>1, AcAssumption
  <2>3. acDriver.format.bpp \in {0, f.bpp}
    BY <1>1, <2>1 DEF query_active_format, NoFormat
  <2> QED BY <1>2, <2>1, <2>2, <2>3, Zenon DEF acTypeOK
<1>7. acClean = FALSE /\ acCamera.conf = CreateResolutionConf(<<0, 0>>, f.size, f.binning)
  BY <1>1
<1> QED BY <1>4, <1>5, <1>6, <1>7 DEF acInv, ConfFor

(* A transfer that fails is one of those that may.                          *)
LEMMA FaultsLeft ==
  ASSUME acTypeOK, NEW w, Fails(w)
  PROVE  acFaults' \in 0..MaxAcFaults
<1>1. MaxAcFaults \in Nat
  BY AcAssumption
<1>2. acFaults \in 0..MaxAcFaults
  BY DEF acTypeOK
<1> QED BY <1>1, <1>2 DEF Fails

(* start_stream and stop_stream.                                           *)
LEMMA StreamKeeps ==
  ASSUME acInv, acStream
  PROVE  acInv'
<1>1. acTypes' /\ acTypeOK'
  BY DEF acInv, acTypes, acTypeOK, acStream
<1> QED BY <1>1 DEF acInv, acStream, acTypes

(* set_video_format, with whichever of its writes fails.                   *)
LEMMA VideoFormatKeeps ==
  ASSUME acInv, NEW f \in AcFormats, NEW w, set_video_format(f, w)
  PROVE  acInv'
<1> DEFINE depth == w # "depth"
           conf == depth /\ w # "resolution"
           fps == conf /\ w # "fps"
           c == videoformat_to_resolution_conf(f, acDriver)
<1>1. /\ DOMAIN acCamera' = DOMAIN acCamera /\ DOMAIN acDriver' = DOMAIN acDriver
      /\ acCamera'.depth = (IF depth THEN f.bpp ELSE acCamera.depth)
      /\ acCamera'.conf = (IF conf THEN c ELSE acCamera.conf)
      /\ acDriver'.depth = (IF depth THEN f.bpp ELSE acDriver.depth)
      /\ acDriver'.format = (IF fps THEN f ELSE acDriver.format)
      /\ acDriver'.offset = acDriver.offset /\ acDriver'.auto = acDriver.auto
      /\ acClean' = fps /\ Fails(w)
  BY DEF set_video_format, acInv, acTypes
<1>2. f.bpp \in {8, 12}
  BY Offered DEF OfferedAs
<1>3. ConfFor(c, f)
  <2>1. Offsets(acDriver)
    BY DEF acInv, acTypes, Offsets
  <2> QED BY <2>1, FormatFits
<1>4. acFaults' \in 0..MaxAcFaults
  BY <1>1, FaultsLeft, Zenon DEF acInv
<1> HIDE DEF c
<1>5. acTypes'
  BY <1>1 DEF acInv, acTypes
<1>6. acTypeOK'
  BY <1>1, <1>2, <1>4 DEF acInv, acTypeOK
<1>7. acCamera'.conf = NoConf \/ Inside(acCamera'.conf)
  BY <1>1, <1>3 DEF acInv, ConfFor
<1>8. acClean' => /\ acCamera'.depth = acDriver'.format.bpp /\ acDriver'.depth = acDriver'.format.bpp
                  /\ ConfFor(acCamera'.conf, acDriver'.format)
  BY <1>1, <1>3, Zenon
<1> QED BY <1>5, <1>6, <1>7, <1>8 DEF acInv

(* A step that leaves format, depth and region alone.                       *)
LEMMA ControlKeeps ==
  ASSUME acInv, acTypes', UNCHANGED acClean, acFaults' \in 0..MaxAcFaults,
         acCamera'.depth = acCamera.depth, acCamera'.conf = acCamera.conf,
         acDriver'.depth = acDriver.depth, acDriver'.format = acDriver.format
  PROVE  acInv'
<1>1. acTypeOK'
  BY DEF acInv, acTypeOK
<1> QED BY <1>1 DEF acInv

(* set_partial_scan_offset, with or without a failing write.               *)
LEMMA PartialScanKeeps ==
  ASSUME acInv, NEW driver, NEW w, set_partial_scan_offset(driver, w),
         DOMAIN driver = DOMAIN acDriver, driver.offset \in Int \X Int, driver.auto \in BOOLEAN,
         driver.depth = acDriver.depth, driver.format = acDriver.format
  PROVE  acInv'
<1>1. /\ DOMAIN acCamera' = DOMAIN acCamera /\ acDriver' = driver /\ UNCHANGED acClean /\ Fails(w)
      /\ acCamera'.depth = acCamera.depth /\ acCamera'.conf = acCamera.conf
  BY DEF set_partial_scan_offset, acInv, acTypes
<1>2. acFaults' \in 0..MaxAcFaults
  BY <1>1, FaultsLeft, Zenon DEF acInv
<1>3. acTypes'
  BY <1>1 DEF acTypes, acInv
<1> QED BY <1>1, <1>2, <1>3, ControlKeeps

(* set_value_int of OffsetX and OffsetY.                                   *)
LEMMA OffsetKeeps ==
  ASSUME acInv, NEW i \in {1, 2}, NEW v \in AcOffsets, NEW w, set_offset(i, v, w)
  PROVE  acInv'
<1> DEFINE driver == [acDriver EXCEPT !.offset[i] = v]
<1>1. v \in Int /\ acDriver.offset \in Int \X Int
  BY AcAssumption DEF acInv, acTypes
<1>2. [acDriver.offset EXCEPT ![i] = v] \in Int \X Int
  BY <1>1
<1>3. /\ DOMAIN driver = DOMAIN acDriver /\ driver.offset = [acDriver.offset EXCEPT ![i] = v]
      /\ driver.auto = acDriver.auto /\ driver.depth = acDriver.depth /\ driver.format = acDriver.format
  BY DEF acInv, acTypes
<1>4. set_partial_scan_offset(driver, w) /\ acDriver.auto \in BOOLEAN
  BY DEF set_offset, acInv, acTypes
<1> HIDE DEF driver
<1> QED BY <1>2, <1>3, <1>4, PartialScanKeeps

(* set_value_int of OffsetAutoCenter.                                      *)
LEMMA OffsetAutoKeeps ==
  ASSUME acInv, NEW on \in BOOLEAN, NEW w, set_offset_auto(on, w)
  PROVE  acInv'
<1> DEFINE driver == update_dependent_lock_state([acDriver EXCEPT !.auto = on])
<1>1. /\ DOMAIN driver = DOMAIN acDriver /\ driver.offset = acDriver.offset
      /\ driver.auto = on /\ driver.depth = acDriver.depth /\ driver.format = acDriver.format
  BY DEF acInv, acTypes, update_dependent_lock_state
<1>2. set_partial_scan_offset(driver, w) /\ acDriver.offset \in Int \X Int
  BY DEF set_offset_auto, acInv, acTypes
<1> HIDE DEF driver
<1> QED BY <1>1, <1>2, PartialScanKeeps

(* set_exposure.                                                           *)
LEMMA ExposureKeeps ==
  ASSUME acInv, NEW e \in AcExposures, NEW w, set_exposure(e, w)
  PROVE  acInv'
<1>1. /\ DOMAIN acCamera' = DOMAIN acCamera /\ acCamera'.depth = acCamera.depth /\ acCamera'.conf = acCamera.conf
      /\ Fails(w) /\ UNCHANGED acClean
  BY DEF set_exposure, acInv, acTypes
<1>2. /\ DOMAIN acDriver' = DOMAIN acDriver /\ acDriver'.depth = acDriver.depth /\ acDriver'.format = acDriver.format
      /\ acDriver'.offset = acDriver.offset /\ acDriver'.auto = acDriver.auto
  BY DEF set_exposure, acInv, acTypes
<1>3. acFaults' \in 0..MaxAcFaults
  BY <1>1, FaultsLeft, Zenon DEF acInv
<1>4. acTypes'
  BY <1>1, <1>2 DEF acTypes, acInv
<1> QED BY <1>1, <1>2, <1>3, <1>4, ControlKeeps

(* Over any formats that are offered, any offsets and exposures and any     *)
(* failing control transfers the camera reads a region of the sensor or     *)
(* nothing, the format in force is the camera's, and an offered format can  *)
(* be set while OffsetAutoCenter is on (AFU420Device.cpp, set_video_format, *)
(* AFU420DeviceProperties.cpp, CreateResolutionConf).                       *)
THEOREM RegionsCorrect == acSpec => []RegionsHold
<1>1. acInit => acInv
  BY acInitially
<1>2. acInv /\ [acNext]_acVars => acInv'
  <2> SUFFICES ASSUME acInv, [acNext]_acVars PROVE acInv'
    OBVIOUS
  <2>1. CASE acStream
    BY <2>1, StreamKeeps
  <2>2. CASE \E f \in AcFormats, w \in {"none", "depth", "resolution", "fps"} : set_video_format(f, w)
    BY <2>2, VideoFormatKeeps
  <2>3. CASE \E i \in {1, 2}, v \in AcOffsets, w \in {"none", "roi"} : set_offset(i, v, w)
    BY <2>3, OffsetKeeps
  <2>4. CASE \E on \in BOOLEAN, w \in {"none", "roi"} : set_offset_auto(on, w)
    BY <2>4, OffsetAutoKeeps
  <2>5. CASE \E e \in AcExposures, w \in {"none", "fps", "exposure"} : set_exposure(e, w)
    BY <2>5, ExposureKeeps
  <2>6. CASE UNCHANGED acVars
    BY <2>6 DEF acVars, acInv, acTypes, acTypeOK
  <2> QED BY <2>1, <2>2, <2>3, <2>4, <2>5, <2>6 DEF acNext
<1>3. acInv => RegionsHold
  BY acInvIsEnough
<1> QED BY <1>1, <1>2, <1>3, PTL DEF acSpec
=============================================================================
