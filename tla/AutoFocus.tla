------------------------------ MODULE AutoFocus ------------------------------
(***************************************************************************)
(* The software one-push focus: auto_alg::impl::auto_focus, driven by one  *)
(* auto_pass per image.  The camera thread runs the search; the            *)
(* application asks for a run (FocusAuto) and moves the lens (Focus) while *)
(* the search is under way.  What a picture shows is external: every       *)
(* measurement finds any sharpness, and any region of the image may be the *)
(* sharpest.                                                               *)
(***************************************************************************)
EXTENDS Integers

CONSTANTS
  FoRuns,        \* run_cmd_params: [min, max] of a camera's lens
  FoSharp,       \* what a region's sharpness can be
  FoRegions,     \* the regions autofocus_find_region can choose
  FoMoves        \* bound on what the application does while images arrive

ASSUME FocusAssumption ==
  /\ FoMoves \in Nat /\ FoSharp \subseteq Nat
  /\ \A r \in FoRuns : r.min \in Int /\ r.max \in Int /\ r.min < r.max

\* auto_step_divisor and suggest_sweep keep their defaults, 4 and false: nothing
\* in this program sets them, so a search never sweeps
FoDivisor == 4

VARIABLES
  foRun,         \* run_cmd_params of this camera
  foLens,        \* m_auto_params.focus_onepush_params.device_focus_val
  foCmd,         \* is_run_cmd
  foState,       \* data.state; "init" never outlives a call
  foLeft, foRight, foPrev, foPrevSharp, foRegion,
  foStep,        \* data.stepCount, 9 for everything above 8
  foWait,        \* img_wait_cnt_
  foDue,         \* now > img_wait_endtime_
  foMoves        \* what the application did, up to FoMoves

foVars == <<foRun, foLens, foCmd, foState, foLeft, foRight, foPrev, foPrevSharp,
            foRegion, foStep, foWait, foDue, foMoves>>

foSearch == <<foLeft, foRight, foPrev, foPrevSharp, foRegion, foStep>>

FoInit ==
  /\ foRun \in FoRuns
  /\ foLens \in foRun.min..foRun.max
  /\ foCmd = FALSE /\ foState = "ended"
  /\ foLeft = foRun.min /\ foRight = foRun.max /\ foPrev = foLens
  /\ foPrevSharp = 0
  /\ foRegion \in FoRegions /\ foStep = 0
  /\ foWait = 0 /\ foDue = TRUE
  /\ foMoves = 0

-----------------------------------------------------------------------------
\* the search

Distance(a, b) == IF a < b THEN b - a ELSE a - b
AtLeastOne(n) == IF n = 0 THEN 1 ELSE n

(* Mutant: the step always goes towards the upper end.                     *)
NextUpwards(left, right, prev) == prev + AtLeastOne(Distance(right, prev) \div FoDivisor)

(* The next lens position: a part of the way to the farther end.           *)
calc_next_focus(left, right, prev) ==
  LET dl == Distance(left, prev)
      dr == Distance(right, prev)
  IN IF dl > dr THEN prev - AtLeastOne(dl \div FoDivisor)
                ELSE prev + AtLeastOne(dr \div FoDivisor)

(* The lens is sent to a new place; the next images are waited for.        *)
arm_focus_timer == foWait' = 3 /\ foDue' = FALSE

(* Reports focus to auto_pass, which writes it to the camera.              *)
MoveLens(focus) == foLens' = focus /\ arm_focus_timer

(* The region to look at and how sharp it is: the user's region is one of  *)
(* FoRegions, as is the one autofocus_find_region weighs best.             *)
FindRegion(region, sharp) == region \in FoRegions /\ sharp \in FoSharp

restart_roi(region, sharp) ==
  /\ foRegion' = region /\ foPrevSharp' = sharp
  /\ foLeft' = foRun.min /\ foRight' = foRun.max
  /\ foPrev' = foLens

(* analyze_frame in state init, right after setup_run.                     *)
SetupRun(region, sharp) ==
  /\ FindRegion(region, sharp)
  /\ restart_roi(region, sharp)
  /\ foStep' = 0
  /\ foState' = "binary_search"
  /\ MoveLens(calc_next_focus(foRun.min, foRun.max, foLens))

(* Steps 4 and 8 look for the region again; another one starts over.       *)
OtherRegion(region, sharp) ==
  /\ foStep + 1 \in {4, 8}
  /\ FindRegion(region, sharp)
  /\ region # foRegion
  /\ restart_roi(region, sharp)
  /\ MoveLens(calc_next_focus(foRun.min, foRun.max, foLens))
  /\ UNCHANGED foState

(* Mutant: an image that is as sharp as the last narrows nothing.          *)
NarrowIfSharper(sharp) ==
  IF sharp < foPrevSharp
  THEN /\ IF foLens < foPrev THEN foLeft' = foLens /\ UNCHANGED foRight
                             ELSE foRight' = foLens /\ UNCHANGED foLeft
       /\ UNCHANGED <<foPrev, foPrevSharp>>
  ELSE UNCHANGED <<foLeft, foRight, foPrev, foPrevSharp>>

(* The interval after an image of this sharpness at the lens' place.       *)
Narrow(sharp) ==
  IF sharp < foPrevSharp
  THEN /\ IF foLens < foPrev THEN foLeft' = foLens /\ UNCHANGED foRight
                             ELSE foRight' = foLens /\ UNCHANGED foLeft
       /\ UNCHANGED <<foPrev, foPrevSharp>>
  ELSE /\ IF foLens < foPrev THEN foRight' = foPrev /\ UNCHANGED foLeft
                             ELSE foLeft' = foPrev /\ UNCHANGED foRight
       /\ foPrev' = foLens /\ foPrevSharp' = sharp

BinarySearch(sharp) ==
  /\ foState = "binary_search"
  /\ sharp \in FoSharp
  /\ Narrow(sharp)
  /\ IF foRight' - foLeft' > 2
     THEN MoveLens(calc_next_focus(foLeft', foRight', foPrev')) /\ UNCHANGED foState
     ELSE foState' = "ended" /\ UNCHANGED <<foLens, foWait, foDue>>
  /\ UNCHANGED foRegion

(* analyze_frame_: one image that may be judged.                           *)
AnalyzeFrame(region, sharp) ==
  /\ foStep' = IF foStep < 9 THEN foStep + 1 ELSE 9
  /\ \/ OtherRegion(region, sharp)
     \/ /\ ~(foStep + 1 \in {4, 8} /\ region # foRegion)
        /\ BinarySearch(sharp)

(* check_wait_condition: three images, then the time of the movement.      *)
check_wait_condition ==
  /\ foWait > 0 \/ ~foDue
  /\ foWait' = IF foWait > 0 THEN foWait - 1 ELSE 0
  /\ UNCHANGED <<foLens, foState, foSearch, foDue>>

-----------------------------------------------------------------------------
\* the camera thread and the application

(* auto_focus::end: the image has another size or origin than at the start.*)
FoEnd == foState' = "ended" /\ UNCHANGED <<foLens, foSearch, foWait, foDue>>

(* One image through auto_pass: is_auto_alg_run_needed and auto_alg_run.   *)
(* A run command is taken out of the parameters when they are copied.      *)
FoFrame(region, sharp) ==
  /\ \/ foCmd /\ SetupRun(region, sharp)
     \/ /\ ~foCmd /\ foState # "ended"
        /\ check_wait_condition \/ (foWait = 0 /\ foDue /\ AnalyzeFrame(region, sharp))
  /\ foCmd' = FALSE
  /\ UNCHANGED <<foRun, foMoves>>

FoImage == \E region \in FoRegions, sharp \in FoSharp : FoFrame(region, sharp)

(* The format changed: an image of another size ends the run, and one that *)
(* is too small for supports_auto_focus is passed over; a command that     *)
(* came with it is lost.                                                   *)
FoOtherImage ==
  /\ foMoves < FoMoves /\ foMoves' = foMoves + 1
  /\ foCmd \/ foState # "ended"
  /\ foCmd' = FALSE
  /\ \/ ~foCmd /\ FoEnd
     \/ UNCHANGED <<foLens, foState, foSearch, foWait, foDue>>
  /\ UNCHANGED foRun

(* The time the movement takes is over.                                    *)
FoTimePasses ==
  /\ ~foDue /\ foDue' = TRUE
  /\ UNCHANGED <<foRun, foLens, foCmd, foState, foSearch, foWait, foMoves>>

(* set_int(FocusAuto, Once)                                                *)
FoAskForRun ==
  /\ foMoves < FoMoves /\ foMoves' = foMoves + 1
  /\ foCmd' = TRUE
  /\ UNCHANGED <<foRun, foLens, foState, foSearch, foWait, foDue>>

(* set_int(Focus, v); it is never locked, not even during a run.           *)
FoMoveByHand ==
  /\ foMoves < FoMoves /\ foMoves' = foMoves + 1
  /\ foLens' \in foRun.min..foRun.max
  /\ UNCHANGED <<foRun, foCmd, foState, foSearch, foWait, foDue>>

FoNext == FoImage \/ FoOtherImage \/ FoTimePasses \/ FoAskForRun \/ FoMoveByHand

(* Images keep arriving and the clock runs.                                *)
FoFairness == WF_foVars(FoImage) /\ WF_foVars(FoTimePasses)

-----------------------------------------------------------------------------
\* properties

(* The lens is never sent outside its range, whatever the images show and  *)
(* wherever the application put it meanwhile: the step is a part of the    *)
(* way to an end of an interval inside the range.                          *)
FocusStaysInRange == foLens \in foRun.min..foRun.max

(* A run ends: the interval shrinks with every judged image and the region *)
(* is chosen anew at most twice, also when the application moves the lens  *)
(* meanwhile.                                                              *)
FocusRunEnds == (foState # "ended") ~> (foState = "ended")
=============================================================================
