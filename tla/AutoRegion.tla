------------------------------ MODULE AutoRegion ------------------------------
(***************************************************************************)
(* The part of the image the automatics of SoftwareProperties look at: the *)
(* AutoFunctionsROI and AutoFocusROI properties, the presets, what a new   *)
(* format makes of them, and how auto_pass cuts them to the image it gets. *)
(* The camera's offset and binning are always {0, 0} and {1, 1} here.      *)
(***************************************************************************)
EXTENDS Integers

CONSTANTS
  ArImages,   \* the sizes of the formats, <<width, height>>
  ArSteps,    \* the values of left, top, width and height that are set
  ArCalls     \* bound on calls and formats

ASSUME ArAssumption ==
  /\ \A image \in ArImages : image \in (Nat \ {0}) \X (Nat \ {0})
  /\ ArSteps \subseteq Nat

ArStepSize == 4        \* ROI_STEP_SIZE
ArRegionSize == 128    \* REGION_SIZE: the squares the focus looks for contrast in
ArLeastRegion == 64    \* what is_user_roi_valid accepts
ArModes == {"full", "center_50", "center_25", "bottom_half", "top_half"}
NoRect == [left |-> 0, top |-> 0, right |-> 0, bottom |-> 0]

VARIABLES
  arKind,    \* whose region this is: brightness | focus
  arImage,   \* m_format.get_size(), <<0, 0>> before a format is known
  arLeft, arTop, arWidth, arHeight,
  arMode,    \* m_brightness_roi_mode
  arOn,      \* m_active_brightness_roi
  arSeen,    \* the region the last image was measured in
  arCalls

arRegion == <<arLeft, arTop, arWidth, arHeight>>
arVars == <<arKind, arImage, arRegion, arMode, arOn, arSeen, arCalls>>

generate_auto_functions_roi == arKind = "brightness" /\ arOn = FALSE /\ arMode = "full"
generate_focus_auto == arKind = "focus" /\ arOn = TRUE /\ arMode = "custom"

ArInit ==
  /\ arKind \in {"brightness", "focus"} /\ arOn \in BOOLEAN /\ arMode \in {"full", "custom"}
  /\ generate_auto_functions_roi \/ generate_focus_auto
  /\ arImage = <<0, 0>>
  /\ arLeft = 0 /\ arTop = 0 /\ arWidth = 0 /\ arHeight = 0
  /\ arSeen = NoRect /\ arCalls = 0

ArMayCall == arCalls < ArCalls /\ arCalls' = arCalls + 1

-----------------------------------------------------------------------------
\* set_int

(* set_property_value refuses what is outside the range, which is that of  *)
(* the sensor until a format is known.                                     *)
InRange(v, all) == all = 0 \/ v <= all

CustomMode == arMode' = IF arKind = "brightness" THEN "custom" ELSE arMode

(* Reduced so that the region remains within the image, if one is known.   *)
Shrunk(start, size, all) == IF all # 0 /\ start + size > all THEN all - start ELSE size

(* AutoFunctionsROILeft, FocusAutoLeft                                     *)
SetLeft(v) ==
  /\ ArMayCall /\ InRange(v, arImage[1]) /\ CustomMode
  /\ arLeft' = v /\ arWidth' = Shrunk(v, arWidth, arImage[1])
  /\ UNCHANGED <<arKind, arImage, arTop, arHeight, arOn, arSeen>>

(* AutoFunctionsROITop, FocusAutoTop                                       *)
SetTop(v) ==
  /\ ArMayCall /\ InRange(v, arImage[2]) /\ CustomMode
  /\ arTop' = v /\ arHeight' = Shrunk(v, arHeight, arImage[2])
  /\ UNCHANGED <<arKind, arImage, arLeft, arWidth, arOn, arSeen>>

(* AutoFunctionsROIWidth and Height, FocusAutoWidth and Height: the region *)
(* may reach out of the image.                                             *)
SetWidth(v) ==
  /\ ArMayCall /\ InRange(v, arImage[1]) /\ CustomMode /\ arWidth' = v
  /\ UNCHANGED <<arKind, arImage, arLeft, arTop, arHeight, arOn, arSeen>>

SetHeight(v) ==
  /\ ArMayCall /\ InRange(v, arImage[2]) /\ CustomMode /\ arHeight' = v
  /\ UNCHANGED <<arKind, arImage, arLeft, arTop, arWidth, arOn, arSeen>>

(* AutoFunctionsROIEnable                                                  *)
SetEnable(on) ==
  /\ ArMayCall /\ arKind = "brightness" /\ arOn' = on
  /\ UNCHANGED <<arKind, arImage, arRegion, arMode, arSeen>>

RoundDown(v) == v - (v % ArStepSize)

(* <<left, top, width, height>> of a preset in an image of w x h           *)
PresetOf(mode, w, h) ==
  CASE mode = "full" -> <<0, 0, w, h>>
    [] mode = "center_50" -> <<w \div 4, h \div 4, w \div 2, h \div 2>>
    [] mode = "center_25" -> <<(w \div 8) * 3, (h \div 8) * 3, w \div 4, h \div 4>>
    [] mode = "bottom_half" -> <<0, h \div 2, w, h \div 2>>
    [] mode = "top_half" -> <<0, 0, w, h \div 2>>

(* set_auto_functions_preset_mode; "custom" leaves the region, but rounded *)
set_auto_functions_preset_mode(mode, image) ==
  LET r == IF mode = "custom" THEN arRegion ELSE PresetOf(mode, image[1], image[2])
  IN /\ arMode' = mode
     /\ arLeft' = RoundDown(r[1]) /\ arTop' = RoundDown(r[2])
     /\ arWidth' = RoundDown(r[3]) /\ arHeight' = RoundDown(r[4])

SetPreset(mode) ==
  /\ ArMayCall /\ arKind = "brightness"
  /\ set_auto_functions_preset_mode(mode, arImage)
  /\ UNCHANGED <<arKind, arImage, arOn, arSeen>>

(* Mutant: a preset keeps the numbers of the format before.                *)
RegionStays(image) == UNCHANGED <<arRegion, arMode>>

RegionFollows(image) ==
  IF arKind = "brightness" /\ arMode # "custom"
  THEN set_auto_functions_preset_mode(arMode, image)
  ELSE UNCHANGED <<arRegion, arMode>>

(* update_to_new_format                                                    *)
ArNewFormat(image) ==
  /\ ArMayCall /\ image # arImage
  /\ arImage' = image
  /\ RegionFollows(image)
  /\ arSeen' = NoRect
  /\ UNCHANGED <<arKind, arOn>>

-----------------------------------------------------------------------------
\* an image

Whole == [left |-> 0, top |-> 0, right |-> arImage[1], bottom |-> arImage[2]]

is_empty_rect(r) == r.left = r.right \/ r.top = r.bottom

ClipTo(v, all) == IF v > all THEN all ELSE v

(* A null rectangle stands for the whole image.                            *)
clip_to_img_desc_region(r) ==
  LET c == [left |-> ClipTo(r.left, arImage[1]), top |-> ClipTo(r.top, arImage[2]),
            right |-> ClipTo(r.right, arImage[1]), bottom |-> ClipTo(r.bottom, arImage[2])]
  IN IF c = Whole \/ is_empty_rect(c) THEN NoRect ELSE c

intersect_with_image_dim(r) ==
  IF r.left > arImage[1] \/ r.top > arImage[2] THEN NoRect
  ELSE [r EXCEPT !.right = ClipTo(r.right, arImage[1]), !.bottom = ClipTo(r.bottom, arImage[2])]

make_safe_img_view(r) ==
  LET roi == intersect_with_image_dim(r)
  IN IF is_empty_rect(roi) THEN Whole ELSE roi

(* The rectangle that auto_pass copies.                                    *)
Asked ==
  IF arOn THEN [left |-> arLeft, top |-> arTop, right |-> arLeft + arWidth, bottom |-> arTop + arHeight]
  ELSE NoRect

brightness_view ==
  LET r == clip_to_img_desc_region(Asked)
  IN IF r = NoRect THEN Whole ELSE make_safe_img_view(r)

is_user_roi_valid(r) ==
  /\ r.bottom - r.top >= ArLeastRegion /\ r.right - r.left >= ArLeastRegion
  /\ r.right <= arImage[1] /\ r.bottom <= arImage[2]

(* The squares an image holds, the rest left over on both sides.           *)
autofocus_get_all_regions ==
  LET nx == arImage[1] \div ArRegionSize
      ny == arImage[2] \div ArRegionSize
      x0 == (arImage[1] - nx * ArRegionSize) \div 2
      y0 == (arImage[2] - ny * ArRegionSize) \div 2
  IN {[left |-> x0 + x * ArRegionSize, top |-> y0 + y * ArRegionSize,
       right |-> x0 + (x + 1) * ArRegionSize, bottom |-> y0 + (y + 1) * ArRegionSize] :
        x \in 0 .. nx - 1, y \in 0 .. ny - 1}

(* Read from an array of no squares: any numbers, here ones outside.       *)
Garbage == [left |-> -1, top |-> -1, right |-> -1, bottom |-> -1]

(* Any of the squares may hold the best contrast.                          *)
autofocus_find_region ==
  IF autofocus_get_all_regions = {} THEN {Garbage} ELSE autofocus_get_all_regions

find_region(r) == IF is_user_roi_valid(r) THEN {r} ELSE autofocus_find_region

ArLook ==
  /\ arImage # <<0, 0>>
  /\ IF arKind = "brightness" THEN arSeen' = brightness_view
     ELSE arSeen' \in find_region(clip_to_img_desc_region(Asked))
  /\ UNCHANGED <<arKind, arImage, arRegion, arMode, arOn, arCalls>>

ArNext ==
  \/ \E v \in ArSteps : SetLeft(v) \/ SetTop(v) \/ SetWidth(v) \/ SetHeight(v)
  \/ \E on \in BOOLEAN : SetEnable(on)
  \/ \E mode \in ArModes \cup {"custom"} : SetPreset(mode)
  \/ \E image \in ArImages : ArNewFormat(image)
  \/ ArLook

ArSpec == ArInit /\ [][ArNext]_arVars

-----------------------------------------------------------------------------
HasSquares == arImage[1] >= ArRegionSize /\ arImage[2] >= ArRegionSize

(* Whatever sequence of setters, presets and formats came before, an image *)
(* is measured in a part of it that is not empty: for the focus one of at  *)
(* least 64 pixels each way, if the image holds a square of 128; for a     *)
(* preset the part of THIS image it names, not cut and not that of an      *)
(* earlier format (auto_pass, find_region, update_to_new_format).          *)
MeasuresItsRegion ==
  arSeen # NoRect /\ (arKind = "focus" => HasSquares) =>
    /\ 0 <= arSeen.left /\ arSeen.left < arSeen.right /\ arSeen.right <= arImage[1]
    /\ 0 <= arSeen.top /\ arSeen.top < arSeen.bottom /\ arSeen.bottom <= arImage[2]
    /\ arKind = "focus" => /\ arSeen.right - arSeen.left >= ArLeastRegion
                           /\ arSeen.bottom - arSeen.top >= ArLeastRegion
    /\ arMode \in ArModes =>
         /\ arLeft + arWidth <= arImage[1] /\ arTop + arHeight <= arImage[2]
         /\ arMode = "full" => arImage[1] - arWidth < ArStepSize
=============================================================================
