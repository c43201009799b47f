-------------------------- MODULE SoftwareProperties --------------------------
(***************************************************************************)
(* tcam::property::SoftwareProperties: the exposure, gain, iris and white  *)
(* balance automatics this library adds to a camera that has none.  The    *)
(* camera's thread runs auto_pass for every image: it copies the           *)
(* parameters under m_property_mtx, computes, and writes what changed back *)
(* WITHOUT the mutex, each time first to the parameters and then to the    *)
(* camera.  The application reads and sets the same properties meanwhile.  *)
(* The region the automatics look at is in AutoRegion, the focus search in *)
(* AutoFocus.                                                              *)
(***************************************************************************)
EXTENDS Integers, Sequences

CONSTANTS
  SwCameras,      \* what a camera offers without an automatic of its own
  SwRange,        \* [control -> [min, max]]: the camera's ranges
  SwGranularity,  \* exposure.granularity
  SwTargets,      \* [control -> the values an application sets]
  SwFrameLimits,  \* 1'000'000 / framerate, for the formats there are
  SwBalances,     \* the white balance factors
  SwCalls         \* bound on the application's calls

Controls == {"exposure", "gain", "iris"}
None == -1

ASSUME SwAssumption ==
  /\ SwRange \in [Controls -> [min : Int, max : Int]]
  /\ SwTargets \in [Controls -> SUBSET Int]
  /\ SwFrameLimits \subseteq Int /\ SwGranularity \in Int

VARIABLES
  swCamera,   \* [has: SUBSET Controls, balance: none | device | software | hdr]
  swAuto,     \* auto_enabled of each control
  swMin,      \* the lower limits
  swMax,      \* the upper limits; for the exposure the camera's own
  swUpper,    \* m_exposure_auto_upper_limit
  swUpperAuto,\* m_exposure_auto_upper_limit_auto
  swFormat,   \* 1'000'000 / m_format.get_framerate(), None before a format is set
  swVal,      \* val of each control in m_auto_params
  swDev,      \* what the camera is set to
  swWbAuto, swWbOnce, swWbVal, swWbDev,  \* wb.auto_enabled, one_push_enabled, channels; the camera's
  swTodo,     \* what the pass under way still writes, in order
  swCall,     \* a setter that holds the mutex, between its two writes
  swCalls,    \* the application's calls so far
  swManual,   \* ghost: what was set by hand while no pass was writing it
  swMode      \* ghost: the balance mode asked for last, "any" if a pass was writing; of a
              \* one-push that is done "off", or "unnoticed" when that changes nothing

swParams == <<swAuto, swMin, swMax, swUpper, swUpperAuto, swFormat>>
swBalance == <<swWbAuto, swWbOnce, swWbVal, swWbDev>>
swVars == <<swCamera, swParams, swVal, swDev, swBalance, swTodo, swCall, swCalls,
            swManual, swMode>>

-----------------------------------------------------------------------------
\* what the constructor and the generate_ functions leave

generate_exposure_auto == "exposure" \in swCamera.has
generate_gain_auto == "gain" \in swCamera.has

(* The exposure and gain automatics start switched on, that of the iris    *)
(* does not.                                                               *)
StartsAuto(c) ==
  \/ c = "exposure" /\ generate_exposure_auto
  \/ c = "gain" /\ generate_gain_auto

(* An iris that only opens and closes gets no automatic.                   *)
generate_iris_auto ==
  "iris" \in swCamera.has => ~(SwRange["iris"].min = 0 /\ SwRange["iris"].max = 1)

(* Only a camera with a bayer format gets a white balance: that of the     *)
(* camera where it has the channels, else one that tcamconvert applies.    *)
generate_balance_white_auto == swWbAuto = (swCamera.balance # "none")

SwInit ==
  /\ swCamera \in SwCameras
  /\ generate_iris_auto
  /\ generate_balance_white_auto
  /\ swAuto = [c \in Controls |-> StartsAuto(c)]
  /\ swMin = [c \in Controls |-> IF c \in swCamera.has THEN SwRange[c].min ELSE 0]
  /\ swMax = [c \in Controls |-> IF c \in swCamera.has THEN SwRange[c].max ELSE 0]
  /\ swUpper = swMax["exposure"]
  /\ swUpperAuto = TRUE /\ swFormat = None
  /\ swVal = swMin /\ swDev = swMin
  /\ swWbOnce = FALSE
  /\ swWbVal \in SwBalances /\ swWbDev = swWbVal
  /\ swTodo = <<>> /\ swCall = <<>> /\ swCalls = 0
  /\ swManual = [c \in Controls |-> None]
  /\ swMode = IF swWbAuto THEN "auto" ELSE "off"

-----------------------------------------------------------------------------
\* auto_alg: what an image makes of the parameters

(* How the image compares with the reference: half of it is enough, it is  *)
(* right, or four times as much is needed.                                 *)
Brightness == {"bright", "right", "dark"}

Clip(v, lo, hi) == IF v < lo THEN lo ELSE IF v > hi THEN hi ELSE v

(* dist = (dist + 2) / 3; a change below half the granularity is none.     *)
calc_exposure(p, image, exposure) ==
  LET e == IF image = "dark" THEN 2 * exposure ELSE (5 * exposure) \div 6
      d == e - p.val["exposure"]
  IN IF d < SwGranularity \div 2 /\ -d < SwGranularity \div 2
     THEN p.val["exposure"]
     ELSE Clip(e, p.min["exposure"], p.max["exposure"])

(* In steps of 6 dB: log2(dist) * 6, and log2((dist + 2) / 3) * 6 upwards. *)
calc_gain_db(p, image, gain) ==
  Clip(IF image = "dark" THEN gain + 1 ELSE gain - 1, p.min["gain"], p.max["gain"])

(* dist = (dist + 3) / 4                                                   *)
calc_iris(p, image, iris) ==
  LET i == IF iris = 0 THEN 1 ELSE iris
  IN Clip(IF image = "dark" THEN (7 * i) \div 4 ELSE (7 * i) \div 8,
          p.min["iris"], p.max["iris"])

FivePercentMore(p, c, v) == Clip((v * 105) \div 100, p.min[c], p.max[c])

(* A value on automatic is first brought into its limits.                  *)
Base(p, c) == IF p.auto[c] THEN Clip(p.val[c], p.min[c], p.max[c]) ELSE p.val[c]

(* The gain is lowered first and raised last; an exposure that can grow    *)
(* gives way to a lower gain, or to a smaller iris.                        *)
calc_auto_gain_exposure_iris(p, image) ==
  LET base == [c \in Controls |-> Base(p, c)]
      gain == base["gain"]
      exposure == base["exposure"]
      iris == p.val["iris"]
      on(c) == image # "right" /\ p.auto[c]
      g == calc_gain_db(p, image, gain)
      e == calc_exposure(p, image, exposure)
      i == calc_iris(p, image, iris)
      roomFor(c, v) == p.auto[c] /\ v < p.max[c]
      canSink(c, v) == p.auto[c] /\ v > p.min[c]
  IN IF on("gain") /\ g < gain THEN [base EXCEPT !["gain"] = g]
     ELSE IF on("iris") /\ i < iris THEN [base EXCEPT !["iris"] = i]
     ELSE IF on("exposure") /\ e # exposure THEN [base EXCEPT !["exposure"] = e]
     ELSE IF on("iris") /\ i # iris THEN [base EXCEPT !["iris"] = i]
     ELSE IF on("gain") /\ g # gain THEN [base EXCEPT !["gain"] = g]
     ELSE IF roomFor("exposure", exposure) /\ (canSink("gain", gain) \/ canSink("iris", iris))
          THEN [base EXCEPT !["exposure"] = FivePercentMore(p, "exposure", exposure)]
     ELSE IF canSink("gain", gain) /\ roomFor("iris", iris)
          THEN [base EXCEPT !["iris"] = FivePercentMore(p, "iris", iris)]
     ELSE base

(* need_brightness_calc                                                    *)
NeedBrightness(p) == \E c \in Controls : p.auto[c]

(* The values of the controls after a pass.                                *)
auto_alg_for_brightness_adjust(p, image) ==
  IF NeedBrightness(p) THEN calc_auto_gain_exposure_iris(p, image) ELSE p.val

(* What the white balance of an image may come to: the camera's own is     *)
(* done when nothing changes, so that a one-push ends; the one tcamconvert *)
(* applies may run out of steps where it stands.                           *)
auto_whitebalance_soft == [val : SwBalances, done : BOOLEAN]
auto_whitebalance_cam(p) == {r \in auto_whitebalance_soft : r.done \/ r.val # p.wbVal}
WbResults(p) ==
  IF swCamera.balance = "device" THEN auto_whitebalance_cam(p) ELSE auto_whitebalance_soft

(* What a white balance that is done leaves of the one-push.               *)
OnceAfter(p, r) == p.wbOnce /\ ~r.done

(* Mutant: a one-push that ended without a change is not reported.         *)
wb_changed_val(p, r) == r.val # p.wbVal \/ OnceAfter(p, r)

(* The version for images of floats reports a one-push that goes on, not   *)
(* one that ended.                                                         *)
wb_changed(p, r) ==
  \/ r.val # p.wbVal
  \/ IF swCamera.balance = "hdr" THEN OnceAfter(p, r) ELSE p.wbOnce # OnceAfter(p, r)

exec_auto_whitebalance_steps_on_pixels(p, r) ==
  IF (p.wbAuto \/ p.wbOnce) /\ wb_changed(p, r)
  THEN << [what |-> "balance", val |-> r.val, once |-> OnceAfter(p, r), done |-> r.done,
           lo |-> 0, hi |-> 0, stored |-> FALSE] >>
  ELSE <<>>

-----------------------------------------------------------------------------
\* auto_pass, on the camera's thread

(* tmp_params.exposure.max is the limit the application set, or the one    *)
(* the frame rate leaves.                                                  *)
Limits == [swMax EXCEPT !["exposure"] = swUpper]

(* The copy taken under the mutex.                                         *)
CopiedParams ==
  [auto |-> swAuto, min |-> swMin, max |-> Limits, val |-> swVal,
   wbAuto |-> swWbAuto, wbOnce |-> swWbOnce, wbVal |-> swWbVal]

(* The highest value the automatic may choose: what is asked for.          *)
Allowed(c) ==
  IF c # "exposure" THEN swMax[c]
  ELSE IF swUpperAuto /\ swFormat # None THEN swFormat ELSE swUpper

(* A changed value, with the limits in force when it was computed.         *)
Changed(p, res, c) ==
  IF res[c] = p.val[c] THEN <<>>
  ELSE << [what |-> c, val |-> res[c], once |-> FALSE, done |-> FALSE,
           lo |-> swMin[c], hi |-> Allowed(c), stored |-> FALSE] >>

(* Copy and computation: one step, nothing of it is visible to others.     *)
auto_pass(image, balance) ==
  LET p == CopiedParams
      res == auto_alg_for_brightness_adjust(p, image)
  IN /\ swTodo = <<>> /\ swCall = <<>>
     /\ balance \in WbResults(p)
     /\ swTodo' = Changed(p, res, "exposure") \o Changed(p, res, "gain")
                    \o Changed(p, res, "iris") \o exec_auto_whitebalance_steps_on_pixels(p, balance)
     /\ swMode' = IF swMode = "once" /\ balance.done /\ ~wb_changed(p, balance)
                  THEN "unnoticed" ELSE swMode
     /\ UNCHANGED <<swCamera, swParams, swVal, swDev, swBalance, swCall, swCalls, swManual>>

SwImage ==
  \E image \in Brightness, balance \in [val : SwBalances, done : BOOLEAN] :
    auto_pass(image, balance)

(* A one-push that was asked for is over when a pass it reached is done.   *)
ModeAfter(w) == IF swMode \in {"once", "unnoticed"} /\ w.done THEN "off" ELSE swMode

(* The next value goes to the parameters ...                               *)
SwStore ==
  LET w == Head(swTodo)
  IN /\ swTodo # <<>> /\ ~w.stored
     /\ swTodo' = <<[w EXCEPT !.stored = TRUE]>> \o Tail(swTodo)
     /\ IF w.what = "balance"
        THEN /\ swWbVal' = w.val /\ swWbOnce' = w.once
             /\ swMode' = ModeAfter(w) /\ UNCHANGED swVal
        ELSE /\ swVal' = [swVal EXCEPT ![w.what] = w.val]
             /\ UNCHANGED <<swWbVal, swWbOnce, swMode>>
     /\ UNCHANGED <<swCamera, swParams, swDev, swWbAuto, swWbDev, swCall, swCalls, swManual>>

(* The camera has the channels of its white balance.                       *)
is_dev_wb == swCamera.balance = "device"

(* ... and then to the camera.                                             *)
SwApply ==
  LET w == Head(swTodo)
  IN /\ swTodo # <<>> /\ w.stored
     /\ swTodo' = Tail(swTodo)
     /\ IF w.what = "balance"
        THEN /\ IF is_dev_wb THEN swWbVal' = w.val /\ swWbDev' = w.val
                ELSE UNCHANGED <<swWbVal, swWbDev>>
             /\ UNCHANGED swDev
        ELSE swDev' = [swDev EXCEPT ![w.what] = w.val] /\ UNCHANGED <<swWbVal, swWbDev>>
     /\ UNCHANGED <<swCamera, swParams, swVal, swWbAuto, swWbOnce, swCall, swCalls,
                    swManual, swMode>>

-----------------------------------------------------------------------------
\* the application's calls: each holds m_property_mtx, which no pass that is
\* writing back holds

InFlight(c) == \E i \in DOMAIN swTodo : swTodo[i].what = c

SwMayCall ==
  /\ swCall = <<>> /\ swCalls < SwCalls
  /\ swCalls' = swCalls + 1

(* set_double ExposureTime and Gain, set_int Iris: refused while the       *)
(* automatic is on.                                                        *)
set_control(c, v) ==
  /\ SwMayCall /\ c \in swCamera.has /\ ~swAuto[c]
  /\ swVal' = [swVal EXCEPT ![c] = v]
  /\ swCall' = <<c, v>>
  /\ UNCHANGED <<swCamera, swParams, swDev, swBalance, swTodo, swManual, swMode>>

(* set_whitebalance_channel: whatever the mode.                            *)
set_whitebalance_channel(v) ==
  /\ SwMayCall /\ swCamera.balance # "none"
  /\ swWbVal' = v
  /\ swCall' = <<"balance", v>>
  /\ UNCHANGED <<swCamera, swParams, swVal, swDev, swWbAuto, swWbOnce, swWbDev, swTodo,
                 swManual, swMode>>

(* The second half of both: the camera gets the value.                     *)
SwCallWrites ==
  /\ swCall # <<>>
  /\ swCall' = <<>>
  /\ LET c == swCall[1]
         v == swCall[2]
     IN IF c = "balance"
        THEN /\ swWbDev' = IF is_dev_wb THEN v ELSE swWbDev
             /\ UNCHANGED <<swDev, swManual>>
        ELSE /\ swDev' = [swDev EXCEPT ![c] = v]
             /\ swManual' = [swManual EXCEPT ![c] = IF InFlight(c) THEN None ELSE v]
             /\ UNCHANGED swWbDev
  /\ UNCHANGED <<swCamera, swParams, swVal, swWbAuto, swWbOnce, swWbVal, swTodo, swCalls, swMode>>

(* set_int ExposureAuto, GainAuto, IrisAuto                                *)
set_auto(c, on) ==
  /\ SwMayCall /\ c \in swCamera.has
  /\ swAuto' = [swAuto EXCEPT ![c] = on]
  /\ swManual' = IF on THEN [swManual EXCEPT ![c] = None] ELSE swManual
  /\ UNCHANGED <<swCamera, swMin, swMax, swUpper, swUpperAuto, swFormat, swVal, swDev,
                 swBalance, swTodo, swCall, swMode>>

(* set_double ExposureAutoLowerLimit and GainAutoLowerLimit                *)
set_lower_limit(c, v) ==
  /\ SwMayCall /\ c \in swCamera.has \ {"iris"}
  /\ swMin' = [swMin EXCEPT ![c] = v]
  /\ UNCHANGED <<swCamera, swAuto, swMax, swUpper, swUpperAuto, swFormat, swVal, swDev,
                 swBalance, swTodo, swCall, swManual, swMode>>

(* set_double GainAutoUpperLimit                                           *)
set_gain_upper_limit(v) ==
  /\ SwMayCall /\ "gain" \in swCamera.has
  /\ swMax' = [swMax EXCEPT !["gain"] = v]
  /\ UNCHANGED <<swCamera, swAuto, swMin, swUpper, swUpperAuto, swFormat, swVal, swDev,
                 swBalance, swTodo, swCall, swManual, swMode>>

(* set_double ExposureAutoUpperLimit: refused while the frame rate sets it *)
set_exposure_upper_limit(v) ==
  /\ SwMayCall /\ "exposure" \in swCamera.has /\ ~swUpperAuto
  /\ swUpper' = v
  /\ UNCHANGED <<swCamera, swAuto, swMin, swMax, swUpperAuto, swFormat, swVal, swDev,
                 swBalance, swTodo, swCall, swManual, swMode>>

(* set_int ExposureAutoUpperLimitAuto                                      *)
set_upper_limit_auto(on) ==
  /\ SwMayCall /\ "exposure" \in swCamera.has
  /\ swUpperAuto' = on
  /\ swUpper' = IF on /\ swFormat # None THEN swFormat ELSE swUpper
  /\ UNCHANGED <<swCamera, swAuto, swMin, swMax, swFormat, swVal, swDev, swBalance,
                 swTodo, swCall, swManual, swMode>>

balance_flags(mode) ==
  /\ swWbAuto' = (mode = "auto")
  /\ swWbOnce' = (mode = "once")

(* set_int BalanceWhiteAuto                                                *)
set_balance_auto(mode) ==
  /\ SwMayCall /\ swCamera.balance # "none"
  /\ balance_flags(mode)
  /\ swMode' = IF InFlight("balance") THEN "any" ELSE mode
  /\ UNCHANGED <<swCamera, swParams, swVal, swDev, swWbVal, swWbDev, swTodo, swCall, swManual>>

(* A new format comes while no image does; the limit of the exposure       *)
(* follows its frame rate.                                                 *)
update_to_new_format(f) ==
  /\ SwMayCall /\ swTodo = <<>>
  /\ swFormat' = f
  /\ swUpper' = IF swUpperAuto THEN f ELSE swUpper
  /\ UNCHANGED <<swCamera, swAuto, swMin, swMax, swUpperAuto, swVal, swDev, swBalance,
                 swTodo, swCall, swManual, swMode>>

SwSetsValue ==
  \/ \E c \in Controls : \E v \in SwTargets[c] : set_control(c, v)
  \/ \E v \in SwBalances : set_whitebalance_channel(v)

SwSetsLimit ==
  \/ \E c \in Controls : \E v \in SwTargets[c] : set_lower_limit(c, v)
  \/ \E v \in SwTargets["gain"] : set_gain_upper_limit(v)
  \/ \E v \in SwTargets["exposure"] : set_exposure_upper_limit(v)
  \/ \E on \in BOOLEAN : set_upper_limit_auto(on)
  \/ \E f \in SwFrameLimits : update_to_new_format(f)

SwSetsMode ==
  \/ \E c \in Controls, on \in BOOLEAN : set_auto(c, on)
  \/ \E mode \in {"off", "auto", "once"} : set_balance_auto(mode)

SwNext ==
  \/ SwImage \/ SwStore \/ SwApply
  \/ SwSetsValue \/ SwCallWrites \/ SwSetsLimit \/ SwSetsMode

SwSpec == SwInit /\ [][SwNext]_swVars

-----------------------------------------------------------------------------
(* A value set by hand stays set: with its automatic off the camera keeps  *)
(* it while the other automatics go on, whatever limits it is outside of.  *)
(* Only a write of a pass that began before the automatic was switched off *)
(* can still replace it (auto_pass writes back without the mutex).         *)
ManualValueHolds ==
  \A c \in Controls : swManual[c] # None => swDev[c] = swManual[c]

(* What a pass writes lies between the limits the application set, for the *)
(* exposure the time of a frame while the limit follows the frame rate,    *)
(* provided the limits leave anything.                                     *)
AutoWithinLimits ==
  \A i \in DOMAIN swTodo :
    LET w == swTodo[i]
    IN w.what # "balance" /\ w.lo <= w.hi => w.val \in w.lo .. w.hi

(* The white balance runs as it was asked to: not at all, always, or until *)
(* a pass finds it done; unless a pass was writing its result when asked.  *)
(* Only for images of floats a pass that is done without changing a factor *)
(* goes unnoticed, and the one-push runs on until a pass that does.        *)
BalanceModeHolds ==
  swMode # "any" => /\ swWbAuto = (swMode = "auto")
                    /\ swWbOnce = (swMode \in {"once", "unnoticed"})
                    /\ swMode = "unnoticed" => swCamera.balance = "hdr"

(* What the application sets is what the automatics leave in place: manual *)
(* values hold, automatic ones stay within the limits, and the balance     *)
(* runs in the mode asked for, however the calls interleave with a pass.   *)
SettingsHold == ManualValueHolds /\ AutoWithinLimits /\ BalanceModeHolds
=============================================================================
