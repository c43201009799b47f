--------------------------- MODULE Library_proofs ---------------------------
(***************************************************************************)
(* Theorems about two parts of libtcam.  The virtual camera, for every set *)
(* of buffers and every family of pools: a buffer is never in two places,  *)
(* and the camera implements BufferLoop.  The software properties, for     *)
(* every camera, every range and every image: what the application sets is *)
(* what the automatics leave in place.                                     *)
(***************************************************************************)
EXTENDS VirtcamDevice, SoftwareProperties, TLAPS

-----------------------------------------------------------------------------
(* The queue of image buffers: no buffer is in it twice, and taking one    *)
(* out or adding one keeps it so.                                          *)

(* Taking the head off a queue that lists no buffer twice removes exactly  *)
(* that buffer (fetch_free_buffer, acquire_buffer).                        *)
LEMMA FetchFromQueue ==
  ASSUME NEW S, NEW q \in Seq(S), q # <<>>, IsInjective(q)
  PROVE  /\ Head(q) \in S /\ Head(q) \in Range(q)
         /\ Tail(q) \in Seq(S) /\ IsInjective(Tail(q))
         /\ Range(Tail(q)) = Range(q) \ {Head(q)}
<1>1. /\ Len(q) \in Nat \ {0} /\ DOMAIN q = 1..Len(q)
      /\ Tail(q) \in Seq(S) /\ DOMAIN Tail(q) = 1..(Len(q) - 1)
      /\ Head(q) = q[1] /\ \A i \in 1..(Len(q) - 1) : Tail(q)[i] = q[i + 1]
  OBVIOUS
<1>2. Head(q) \in S /\ Head(q) \in Range(q)
  BY <1>1 DEF Range
<1>3. IsInjective(Tail(q))
  BY <1>1 DEF IsInjective
<1>4. ASSUME NEW x \in Range(q) \ {Head(q)} PROVE x \in Range(Tail(q))
  <2>1. PICK i \in 2..Len(q) : x = q[i]
    BY <1>1 DEF Range
  <2>2. i - 1 \in 1..(Len(q) - 1) /\ Tail(q)[i - 1] = x
    BY <2>1, <1>1
  <2> QED BY <2>2, <1>1 DEF Range
<1>5. ASSUME NEW x \in Range(Tail(q)) PROVE x \in Range(q) \ {Head(q)}
  <2>1. PICK i \in 1..(Len(q) - 1) : x = q[i + 1]
    BY <1>1 DEF Range
  <2>2. i + 1 \in DOMAIN q /\ 1 \in DOMAIN q /\ i + 1 # 1
    BY <2>1, <1>1
  <2> QED BY <2>1, <2>2, <1>1 DEF Range, IsInjective
<1> QED BY <1>1, <1>2, <1>3, <1>4, <1>5

(* Appending a buffer that is not queued keeps the queue free of repeats   *)
(* (requeue_buffer, the callback of the sink).                             *)
LEMMA AppendToQueue ==
  ASSUME NEW S, NEW q \in Seq(S), NEW b \in S, IsInjective(q),
         b \notin Range(q)
  PROVE  /\ Append(q, b) \in Seq(S) /\ IsInjective(Append(q, b))
         /\ Range(Append(q, b)) = Range(q) \cup {b}
<1> DEFINE r == Append(q, b)
<1>1. /\ Len(q) \in Nat /\ DOMAIN q = 1..Len(q)
      /\ r \in Seq(S) /\ DOMAIN r = 1..(Len(q) + 1)
      /\ r[Len(q) + 1] = b /\ \A i \in 1..Len(q) : r[i] = q[i]
  OBVIOUS
<1> HIDE DEF r
<1>2. IsInjective(r)
  BY <1>1 DEF IsInjective, Range
<1>3. Range(r) = Range(q) \cup {b}
  BY <1>1 DEF Range
<1> QED BY <1>1, <1>2, <1>3 DEF r

-----------------------------------------------------------------------------
(* The virtual camera.                                                     *)

Inv == TypeOK /\ OwnedOnce

(* A device that has not streamed satisfies the invariant.                *)
LEMMA InitInv == Init => Inv
<1> SUFFICES ASSUME Init PROVE Inv
  OBVIOUS
<1>1. <<>> \in Seq(Buffers) /\ DOMAIN <<>> = {}
  OBVIOUS
<1> QED
  BY <1>1, NoBufferAssumption
  DEF Init, Inv, TypeOK, OwnedOnce, ThreadPoints, Range, IsInjective

(* Every step of every thread preserves the invariant.                     *)
LEMMA NextInv == Inv /\ [Next]_vars => Inv'
<1> SUFFICES ASSUME Inv, [Next]_vars PROVE Inv'
  OBVIOUS
<1> USE PoolsAssumption, NoBufferAssumption DEF Inv, TypeOK, OwnedOnce
<1>1. CASE Configure
  <2>1. PICK pool \in Pools : Range(pool) \cap held = {} /\ bufferQueue' = pool
    BY <1>1 DEF Configure
  <2>2. pool \in Seq(Buffers) /\ IsInjective(pool) /\ NoBuffer \notin Range(pool)
    BY DEF Range
  <2> QED BY <1>1, <2>1, <2>2 DEF Configure, threadVars, triggerVars
<1>2. CASE Free
  <2>1. <<>> \in Seq(Buffers) /\ IsInjective(<<>>) /\ Range(<<>>) = {}
    BY DEF IsInjective, Range
  <2> QED BY <1>2, <2>1 DEF Free, threadVars, triggerVars
<1>3. CASE StartStream
  BY <1>3 DEF StartStream, LaunchThread, RequestEnd, threadVars, triggerVars,
              ThreadPoints
<1>4. CASE StopStream
  BY <1>4 DEF StopStream, RequestEnd, threadVars, triggerVars
<1>5. CASE Join
  BY <1>5 DEF Join, LaunchThread, triggerVars, ThreadPoints
<1>6. CASE ThreadTop
  BY <1>6 DEF ThreadTop, GoTo, triggerVars, ThreadPoints
<1>7. CASE ThreadWake
  BY <1>7 DEF ThreadWake, GoTo, triggerVars, ThreadPoints
<1>8. CASE ThreadCheckTrigger
  BY <1>8 DEF ThreadCheckTrigger, GoTo, triggerVars, ThreadPoints
<1>9. CASE ThreadConsumeTrigger
  BY <1>9 DEF ThreadConsumeTrigger, GoTo, ThreadPoints
<1>10. CASE FetchFreeBuffer
  <2>1. CASE bufferQueue = <<>>
    BY <1>10, <2>1 DEF FetchFreeBuffer, GoTo, triggerVars, ThreadPoints
  <2>2. CASE bufferQueue # <<>>
    <3>1. /\ Head(bufferQueue) \in Buffers
          /\ Head(bufferQueue) \in Range(bufferQueue)
          /\ Tail(bufferQueue) \in Seq(Buffers) /\ IsInjective(Tail(bufferQueue))
          /\ Range(Tail(bufferQueue)) = Range(bufferQueue) \ {Head(bufferQueue)}
      BY <2>2, FetchFromQueue
    <3> QED
      BY <1>10, <2>2, <3>1 DEF FetchFreeBuffer, GoTo, triggerVars, ThreadPoints
  <2> QED BY <2>1, <2>2
<1>11. CASE PushImage
  <2>1. NoBuffer \notin Range(bufferQueue)
    BY DEF Range
  <2> QED BY <1>11, <2>1 DEF PushImage, GoTo, triggerVars, ThreadPoints
<1>12. ASSUME NEW b \in Buffers, RequeueBuffer(b) PROVE Inv'
  BY <1>12, AppendToQueue DEF RequeueBuffer, threadVars, triggerVars
<1>13. CASE SetTriggerMode
  BY <1>13 DEF SetTriggerMode, threadVars
<1>14. CASE ExecuteTrigger
  BY <1>14 DEF ExecuteTrigger, threadVars
<1>15. CASE UNCHANGED vars
  BY <1>15 DEF vars, threadVars, triggerVars
<1> QED
  BY <1>1, <1>2, <1>3, <1>4, <1>5, <1>6, <1>7, <1>8, <1>9, <1>10, <1>11,
     <1>12, <1>13, <1>14, <1>15
  DEF Next, StreamThread

(* Type correctness of the virtual camera, for any buffers and pools.      *)
THEOREM TypeCorrect == Spec => []TypeOK
<1>1. Inv => TypeOK
  BY DEF Inv
<1> QED BY <1>1, InitInv, NextInv, PTL DEF Spec

(* A buffer of the virtual camera is queued once, or being filled, or with *)
(* the sink, and never two of these.                                       *)
THEOREM BuffersOwnedOnce == Spec => []BuffersOwned
<1>1. Inv => BuffersOwned
  BY DEF Inv, BuffersOwned
<1> QED BY <1>1, InitInv, NextInv, PTL DEF Spec

-----------------------------------------------------------------------------
(* Each step of the backend is a step of BufferLoop or changes neither of  *)
(* the two sets.                                                           *)
LEMMA StepRefines ==
  Inv /\ Inv' /\ [Next]_vars => [Loop!Next]_<<deviceBuffers, held>>
<1> SUFFICES ASSUME Inv, Inv', [Next]_vars
             PROVE  [Loop!Next]_<<deviceBuffers, held>>
  OBVIOUS
<1> USE PoolsAssumption, NoBufferAssumption DEF Inv, TypeOK, OwnedOnce
<1>1. CASE Configure
  <2>1. PICK pool \in Pools : Range(pool) \cap held = {} /\ bufferQueue' = pool
    BY <1>1 DEF Configure
  <2>2. Range(pool) \in SUBSET Buffers /\ buf = NoBuffer /\ buf' = NoBuffer
    BY <1>1 DEF Configure, threadVars, Range
  <2>3. Loop!Register(Range(pool))
    BY <1>1, <2>1, <2>2 DEF Configure, Loop!Register, deviceBuffers
  <2> QED BY <2>2, <2>3 DEF Loop!Next
<1>2. CASE Free
  <2>1. deviceBuffers \in SUBSET Buffers /\ deviceBuffers' = {}
    BY <1>2 DEF Free, threadVars, deviceBuffers, Range
  <2>2. Loop!Release(deviceBuffers)
    BY <1>2, <2>1 DEF Free, Loop!Release
  <2> QED BY <2>1, <2>2 DEF Loop!Next
<1>3. CASE FetchFreeBuffer
  <2>1. CASE bufferQueue = <<>>
    BY <1>3, <2>1 DEF FetchFreeBuffer, deviceBuffers
  <2>2. CASE bufferQueue # <<>>
    <3>1. buf = NoBuffer /\ buf' = Head(bufferQueue)
            /\ bufferQueue' = Tail(bufferQueue) /\ held' = held
      BY <1>3, <2>2 DEF FetchFreeBuffer
    <3>2. /\ Range(bufferQueue') = Range(bufferQueue) \ {buf'}
          /\ buf' \in Range(bufferQueue) /\ buf' \in Buffers
      BY <3>1, <2>2, FetchFromQueue
    <3>3. deviceBuffers' = Range(bufferQueue) /\ deviceBuffers = Range(bufferQueue)
      BY <3>1, <3>2 DEF deviceBuffers
    <3> QED BY <3>1, <3>3
  <2> QED BY <2>1, <2>2
<1>4. CASE PushImage
  <2>1. buf \in Buffers /\ Loop!Deliver(buf)
    BY <1>4 DEF PushImage, deviceBuffers, Loop!Deliver
  <2> QED BY <2>1 DEF Loop!Next
<1>5. ASSUME NEW b \in Buffers, RequeueBuffer(b) PROVE Loop!Next
  <2>1. Range(bufferQueue') = Range(bufferQueue) \cup {b}
    BY <1>5, AppendToQueue DEF RequeueBuffer
  <2>2. Loop!Return(b)
    BY <1>5, <2>1 DEF RequeueBuffer, threadVars, deviceBuffers, Loop!Return
  <2> QED BY <2>2 DEF Loop!Next
<1>6. ASSUME UNCHANGED <<bufferQueue, buf, held>>
      PROVE  UNCHANGED <<deviceBuffers, held>>
  BY <1>6 DEF deviceBuffers
<1>7. CASE StartStream \/ StopStream \/ Join \/ ThreadTop \/ ThreadWake
             \/ ThreadCheckTrigger \/ ThreadConsumeTrigger
             \/ SetTriggerMode \/ ExecuteTrigger \/ UNCHANGED vars
  BY <1>6, <1>7
  DEF StartStream, StopStream, Join, ThreadTop, ThreadWake,
      ThreadCheckTrigger, ThreadConsumeTrigger, SetTriggerMode,
      ExecuteTrigger, RequestEnd, vars, threadVars
<1> QED
  BY <1>1, <1>2, <1>3, <1>4, <1>5, <1>7 DEF Next, StreamThread

(* The virtual camera implements BufferLoop.                               *)
THEOREM Refinement == Spec => ImplementsBufferLoop
<1>1. Init => Loop!Init
  BY NoBufferAssumption DEF Init, Loop!Init, deviceBuffers, Range
<1> QED
  BY <1>1, InitInv, NextInv, StepRefines, PTL
  DEF Spec, ImplementsBufferLoop, Loop!Spec

-----------------------------------------------------------------------------
(* The software properties.                                                *)

(* A pass changes a control only if its automatic is on, and then to a     *)
(* value within the limits, if there is one.                               *)
Adjusts(p, c, v) ==
  /\ v \in Int
  /\ v # p.val[c] => p.auto[c] /\ (p.min[c] <= p.max[c] => v \in p.min[c] .. p.max[c])

Params == [auto : [Controls -> BOOLEAN], min : [Controls -> Int], max : [Controls -> Int],
           val : [Controls -> Int], wbAuto : BOOLEAN, wbOnce : BOOLEAN, wbVal : Int \cup SwBalances]

(* Clip gives a number, within the limits if they leave one.               *)
LEMMA ClipInt == \A v, lo, hi \in Int : Clip(v, lo, hi) \in Int /\ (lo <= hi => Clip(v, lo, hi) \in lo..hi)
BY DEF Clip

(* Clipping gives a value a pass may choose for an automatic that is on.   *)
LEMMA ClipAdjusts ==
  ASSUME NEW p \in Params, NEW c \in Controls, NEW v \in Int, p.auto[c]
  PROVE  Adjusts(p, c, Clip(v, p.min[c], p.max[c]))
<1>1. p.min[c] \in Int /\ p.max[c] \in Int
  BY DEF Params
<1> QED BY <1>1, ClipInt DEF Adjusts

(* A pass may leave a control as it is.                                    *)
LEMMA SameAdjusts == \A p \in Params, c \in Controls : Adjusts(p, c, p.val[c])
BY DEF Adjusts, Params

(* calc_auto_gain_exposure_iris: the value a control begins with.          *)
LEMMA BaseAdjusts ==
  ASSUME NEW p \in Params, NEW c \in Controls
  PROVE  Adjusts(p, c, Base(p, c))
<1>1. p.val[c] \in Int
  BY DEF Params
<1>2. CASE p.auto[c]
  BY <1>1, <1>2, ClipAdjusts DEF Base
<1>3. CASE ~p.auto[c]
  BY <1>1, <1>3, SameAdjusts DEF Base
<1> QED BY <1>2, <1>3

(* The exposure it chooses.                                                *)
LEMMA ExposureAdjusts ==
  ASSUME NEW p \in Params, NEW image, NEW x \in Int, p.auto["exposure"]
  PROVE  Adjusts(p, "exposure", calc_exposure(p, image, x))
<1> "exposure" \in Controls
  BY DEF Controls
<1> DEFINE e == IF image = "dark" THEN 2 * x ELSE (5 * x) \div 6
<1>1. e \in Int
  OBVIOUS
<1>2. Adjusts(p, "exposure", Clip(e, p.min["exposure"], p.max["exposure"]))
  BY <1>1, ClipAdjusts
<1>3. calc_exposure(p, image, x) \in {p.val["exposure"], Clip(e, p.min["exposure"], p.max["exposure"])}
  BY DEF calc_exposure
<1> QED BY <1>2, <1>3, SameAdjusts

(* The gain it chooses.                                                    *)
LEMMA GainAdjusts ==
  ASSUME NEW p \in Params, NEW image, NEW x \in Int, p.auto["gain"]
  PROVE  Adjusts(p, "gain", calc_gain_db(p, image, x))
<1> DEFINE g == IF image = "dark" THEN x + 1 ELSE x - 1
<1>1. g \in Int /\ "gain" \in Controls
  BY DEF Controls
<1> QED BY <1>1, ClipAdjusts DEF calc_gain_db

(* The iris it chooses.                                                    *)
LEMMA IrisAdjusts ==
  ASSUME NEW p \in Params, NEW image, NEW x \in Int, p.auto["iris"]
  PROVE  Adjusts(p, "iris", calc_iris(p, image, x))
<1> DEFINE i == IF x = 0 THEN 1 ELSE x
           v == IF image = "dark" THEN (7 * i) \div 4 ELSE (7 * i) \div 8
<1>1. v \in Int /\ "iris" \in Controls
  BY DEF Controls
<1>2. calc_iris(p, image, x) = Clip(v, p.min["iris"], p.max["iris"])
  BY DEF calc_iris
<1> QED BY <1>1, <1>2, ClipAdjusts

(* Five per cent more of a control that is automatic.                      *)
LEMMA MoreAdjusts ==
  ASSUME NEW p \in Params, NEW c \in Controls, NEW v \in Int, p.auto[c]
  PROVE  Adjusts(p, c, FivePercentMore(p, c, v))
<1>1. (v * 105) \div 100 \in Int
  OBVIOUS
<1> QED BY <1>1, ClipAdjusts DEF FivePercentMore

(* What calc_auto_gain_exposure_iris computes is a value a pass may choose *)
(* for every control.                                                      *)
LEMMA PassAdjusts ==
  ASSUME NEW p \in Params, NEW image, NEW c \in Controls
  PROVE  Adjusts(p, c, auto_alg_for_brightness_adjust(p, image)[c])
<1> DEFINE base == [d \in Controls |-> Base(p, d)]
           g == calc_gain_db(p, image, base["gain"])
           e == calc_exposure(p, image, base["exposure"])
           i == calc_iris(p, image, p.val["iris"])
           e5 == FivePercentMore(p, "exposure", base["exposure"])
           i5 == FivePercentMore(p, "iris", p.val["iris"])
           res == auto_alg_for_brightness_adjust(p, image)
<1>0. Controls = {"exposure", "gain", "iris"} /\ p.val["iris"] \in Int
  BY DEF Controls, Params
<1>1. base["gain"] \in Int /\ base["exposure"] \in Int
  BY <1>0, BaseAdjusts DEF Adjusts
<1>2. /\ p.auto["gain"] => Adjusts(p, "gain", g)
      /\ p.auto["exposure"] => Adjusts(p, "exposure", e) /\ Adjusts(p, "exposure", e5)
      /\ p.auto["iris"] => Adjusts(p, "iris", i) /\ Adjusts(p, "iris", i5)
  BY <1>0, <1>1, GainAdjusts, ExposureAdjusts, IrisAdjusts, MoreAdjusts
<1>3. \/ res = p.val \/ res = base
      \/ p.auto["gain"] /\ res = [base EXCEPT !["gain"] = g]
      \/ p.auto["exposure"] /\ res = [base EXCEPT !["exposure"] = e]
      \/ p.auto["exposure"] /\ res = [base EXCEPT !["exposure"] = e5]
      \/ p.auto["iris"] /\ res = [base EXCEPT !["iris"] = i]
      \/ p.auto["iris"] /\ res = [base EXCEPT !["iris"] = i5]
  BY <1>0 DEF auto_alg_for_brightness_adjust, calc_auto_gain_exposure_iris
<1>4. \A d \in Controls : Adjusts(p, d, base[d])
  BY BaseAdjusts
<1> HIDE DEF base, g, e, i, e5, i5, res
<1>5. DOMAIN base = Controls
  BY DEF base
<1>6. Adjusts(p, c, res[c])
  BY <1>2, <1>3, <1>4, <1>5, SameAdjusts
<1> QED BY <1>6 DEF res

-----------------------------------------------------------------------------
Writes == [what : Controls \cup {"balance"}, val : Int \cup SwBalances, once : BOOLEAN,
           done : BOOLEAN, lo : Int, hi : Int, stored : BOOLEAN]

SwTypes ==
  /\ swAuto \in [Controls -> BOOLEAN]
  /\ swMin \in [Controls -> Int] /\ swMax \in [Controls -> Int]
  /\ swUpper \in Int /\ swUpperAuto \in BOOLEAN /\ swFormat \in Int
  /\ swVal \in [Controls -> Int] /\ swDev \in [Controls -> Int]
  /\ swWbAuto \in BOOLEAN /\ swWbOnce \in BOOLEAN /\ swWbVal \in Int \cup SwBalances
  /\ swTodo \in Seq(Writes)
  /\ \A i \in DOMAIN swTodo : swTodo[i].what \in Controls => swTodo[i].val \in Int
  /\ swManual \in [Controls -> Int]

(* The limit of the exposure is the frame's while it follows the frame     *)
(* rate.                                                                   *)
UpperFollows == swUpperAuto /\ swFormat # None => swUpper = swFormat

(* A setter between its two writes has a control whose automatic is off,   *)
(* for every call waits for it.                                            *)
SetterIsManual ==
  swCall # <<>> => \/ swCall[1] = "balance"
                   \/ swCall[1] \in Controls /\ swCall[2] \in Int /\ ~swAuto[swCall[1]]

(* No pass is about to write a value that was set by hand.                 *)
ManualIsQuiet ==
  \A c \in Controls : swManual[c] # None => ~swAuto[c] /\ ~InFlight(c)

(* The white balance is the last thing a pass writes, and switches off     *)
(* only a one-push that is on.                                             *)
BalanceIsLast ==
  \A i \in DOMAIN swTodo : swTodo[i].what = "balance" =>
    /\ i = Len(swTodo)
    /\ swMode # "any" /\ ~swTodo[i].stored => swTodo[i].once = (swWbOnce /\ ~swTodo[i].done)

SwInv == SwTypes /\ UpperFollows /\ SetterIsManual /\ ManualIsQuiet /\ BalanceIsLast /\ SettingsHold

(* What the constructor leaves satisfies the invariant.                    *)
LEMMA SwInitInv == SwInit => SwInv
<1> SUFFICES ASSUME SwInit PROVE SwInv
  OBVIOUS
<1> USE SwAssumption
<1>0. swAuto \in [Controls -> BOOLEAN]
  BY Zenon DEF SwInit, StartsAuto, generate_exposure_auto, generate_gain_auto
<1>1. SwTypes
  <2>1. swMin \in [Controls -> Int] /\ swMax \in [Controls -> Int]
    BY DEF SwInit
  <2>2. "exposure" \in Controls
    BY DEF Controls
  <2>3. swWbAuto \in BOOLEAN
    BY DEF SwInit, generate_balance_white_auto
  <2>4. swTodo \in Seq(Writes)
    BY DEF SwInit
  <2>5. swUpper \in Int /\ swVal = swMin /\ swDev = swMin /\ swWbOnce = FALSE /\ swWbVal \in SwBalances
    BY <2>1, <2>2 DEF SwInit
  <2>6. swManual \in [Controls -> Int] /\ swUpperAuto = TRUE /\ swFormat \in Int /\ swTodo = <<>>
    BY DEF SwInit, None
  <2>7. \A i \in DOMAIN swTodo : swTodo[i].what \in Controls => swTodo[i].val \in Int
    BY <2>6
  <2>8. swUpperAuto \in BOOLEAN /\ swWbOnce \in BOOLEAN /\ swWbVal \in Int \cup SwBalances
        /\ swVal \in [Controls -> Int] /\ swDev \in [Controls -> Int]
    BY <2>1, <2>5, <2>6
  <2> QED BY <1>0, <2>1, <2>3, <2>4, <2>5, <2>6, <2>7, <2>8 DEF SwTypes
<1>2. SettingsHold
  BY <1>1 DEF SwInit, SwTypes, SettingsHold, ManualValueHolds, AutoWithinLimits, BalanceModeHolds
<1>3. UpperFollows /\ SetterIsManual /\ ManualIsQuiet /\ BalanceIsLast
  BY DEF SwInit, UpperFollows, SetterIsManual, ManualIsQuiet, BalanceIsLast, None
<1> QED BY <1>1, <1>2, <1>3 DEF SwInv

(* auto_pass: what it will write.                                          *)
LEMMA PassKeeps == ASSUME SwInv, SwImage PROVE SwInv'
<1>1. PICK image \in Brightness, balance \in [val : SwBalances, done : BOOLEAN] : auto_pass(image, balance)
  BY DEF SwImage
<1> DEFINE p == CopiedParams
           res == auto_alg_for_brightness_adjust(p, image)
           E == Changed(p, res, "exposure")
           G == Changed(p, res, "gain")
           I == Changed(p, res, "iris")
           B == exec_auto_whitebalance_steps_on_pixels(p, balance)
<1>2. p \in Params /\ p.auto = swAuto
  BY DEF SwInv, SwTypes, CopiedParams, Params, Limits, Controls
<1>3. \A c \in Controls : p.min[c] = swMin[c] /\ p.max[c] = Allowed(c)
  BY DEF SwInv, SwTypes, UpperFollows, CopiedParams, Limits, Allowed, Controls
<1>4. \A c \in Controls : Adjusts(p, c, res[c])
  BY <1>2, PassAdjusts
<1>5. \A c \in Controls : Allowed(c) \in Int /\ swMin[c] \in Int
  BY DEF SwInv, SwTypes, Allowed, Controls
<1> HIDE DEF p
<1>6. \A c \in Controls : p.val[c] \in Int
  BY <1>2 DEF Params
<1> DEFINE Ok(w) == /\ w \in Writes /\ w.what \in Controls /\ swAuto[w.what] /\ w.val \in Int
                    /\ w.lo <= w.hi => w.val \in w.lo .. w.hi
<1>7. \A c \in Controls :
        \/ Changed(p, res, c) = <<>>
        \/ \E w : Changed(p, res, c) = <<w>> /\ Ok(w)
  <2> SUFFICES ASSUME NEW c \in Controls, res[c] # p.val[c]
               PROVE  \E w : Changed(p, res, c) = <<w>> /\ Ok(w)
    BY DEF Changed
  <2> DEFINE w == [what |-> c, val |-> res[c], once |-> FALSE, done |-> FALSE,
                   lo |-> swMin[c], hi |-> Allowed(c), stored |-> FALSE]
  <2>1. Changed(p, res, c) = <<w>>
    BY DEF Changed
  <2>2. res[c] \in Int /\ swAuto[c] /\ (swMin[c] <= Allowed(c) => res[c] \in swMin[c] .. Allowed(c))
    BY <1>2, <1>3, <1>4 DEF Adjusts
  <2>3. w \in Writes
    BY <1>5, <2>2 DEF Writes
  <2>4. w.what = c /\ w.val = res[c] /\ w.lo = swMin[c] /\ w.hi = Allowed(c)
    OBVIOUS
  <2> HIDE DEF w
  <2>5. Ok(w)
    BY <2>2, <2>3, <2>4
  <2> QED BY <2>1, <2>5, Zenon
<1>8. B = <<>> \/ \E w \in Writes : /\ B = <<w>> /\ w.what = "balance"
                                    /\ w.once = (swWbOnce /\ ~w.done)
  <2> DEFINE once == p.wbOnce /\ ~balance.done
             w == [what |-> "balance", val |-> balance.val, once |-> once, done |-> balance.done,
                   lo |-> 0, hi |-> 0, stored |-> FALSE]
  <2>1. B = <<>> \/ B = <<w>>
    BY DEF exec_auto_whitebalance_steps_on_pixels, OnceAfter
  <2>2. p.wbOnce = swWbOnce
    BY DEF p, CopiedParams
  <2>3. w \in Writes
    BY DEF Writes
  <2> QED BY <2>1, <2>2, <2>3
<1>9. swTodo' = E \o G \o I \o B
  BY <1>1 DEF auto_pass, p
<1>12. \A S \in {E, G, I} : S = <<>> \/ \E w : S = <<w>> /\ Ok(w)
  BY <1>7 DEF Controls
<1> HIDE DEF E, G, I, B, Ok
<1> DEFINE M == E \o G \o I
<1>13. \A w : Ok(w) => w \in Writes
  BY DEF Ok
<1>10. M \in Seq(Writes) /\ \A i \in DOMAIN M : Ok(M[i])
  <2>1. \A S \in {E, G, I} : S \in Seq(Writes) /\ \A i \in DOMAIN S : Ok(S[i])
    <3> SUFFICES ASSUME NEW S \in {E, G, I}
                 PROVE  S \in Seq(Writes) /\ \A i \in DOMAIN S : Ok(S[i])
      OBVIOUS
    <3>1. CASE S = <<>>
      BY <3>1
    <3>2. CASE S # <<>>
      <4>1. PICK w : S = <<w>> /\ Ok(w)
        BY <1>12, <3>2
      <4> QED BY <1>13, <4>1
    <3> QED BY <3>1, <3>2
  <2> QED BY <2>1
<1> HIDE DEF M
<1>11. swTodo' \in Seq(Writes) /\ \A i \in DOMAIN swTodo' :
         \/ Ok(swTodo'[i])
         \/ swTodo'[i].what = "balance" /\ i = Len(swTodo') /\ swTodo'[i].once = (swWbOnce /\ ~swTodo'[i].done)
  <2>1. B \in Seq(Writes) /\ Len(B) <= 1 /\ \A i \in DOMAIN B :
          B[i].what = "balance" /\ B[i].once = (swWbOnce /\ ~B[i].done)
    <3>1. CASE B = <<>>
      BY <3>1
    <3>2. CASE B # <<>>
      <4>1. PICK w \in Writes : B = <<w>> /\ w.what = "balance" /\ w.once = (swWbOnce /\ ~w.done)
        BY <1>8, <3>2
      <4> QED BY <4>1
    <3> QED BY <3>1, <3>2
  <2>2. swTodo' = M \o B
    BY <1>9 DEF M
  <2> QED BY <1>10, <2>1, <2>2
<1>14. SwTypes' /\ UpperFollows' /\ SetterIsManual'
  BY <1>1, <1>11 DEF SwInv, SwTypes, UpperFollows, SetterIsManual, auto_pass, swParams, swBalance, Ok, Controls
<1>15. ManualIsQuiet'
  BY <1>1, <1>11 DEF SwInv, ManualIsQuiet, InFlight, Ok, auto_pass, swParams, Controls
<1>16. BalanceIsLast'
  BY <1>1, <1>11 DEF BalanceIsLast, Ok, auto_pass, swBalance, Controls
<1>17. SettingsHold'
  <2>1. /\ UNCHANGED <<swCamera, swWbAuto, swWbOnce, swManual, swDev>>
        /\ swMode' = IF swMode = "once" /\ balance.done /\ ~wb_changed(p, balance) THEN "unnoticed" ELSE swMode
    <3>1. UNCHANGED <<swCamera, swWbAuto, swWbOnce, swManual, swDev>>
      BY <1>1 DEF auto_pass, swBalance
    <3>2. swMode' = IF swMode = "once" /\ balance.done /\ ~wb_changed(p, balance) THEN "unnoticed" ELSE swMode
      BY <1>1, Zenon DEF auto_pass, p
    <3> QED BY <3>1, <3>2
  <2>2. ManualValueHolds' /\ AutoWithinLimits'
    BY <1>11, <2>1 DEF SwInv, SettingsHold, ManualValueHolds, AutoWithinLimits, Ok
  <2> HIDE DEF p
  <2>0. p.wbOnce = swWbOnce
    BY DEF p, CopiedParams
  <2>3. CASE swMode = "once" /\ balance.done /\ ~wb_changed(p, balance)
    <3>1. swWbAuto = FALSE /\ swWbOnce = TRUE
      BY <2>3 DEF SwInv, SwTypes, SettingsHold, BalanceModeHolds
    <3>2. p.wbOnce = TRUE /\ OnceAfter(p, balance) = FALSE
      BY <2>0, <2>3, <3>1 DEF OnceAfter
    <3>3. swCamera.balance = "hdr"
      BY <2>3, <3>2 DEF wb_changed
    <3> QED BY <2>1, <2>2, <2>3, <3>1, <3>3 DEF SettingsHold, BalanceModeHolds
  <2>4. CASE ~(swMode = "once" /\ balance.done /\ ~wb_changed(p, balance))
    <3>1. swMode' = swMode
      BY <2>1, <2>4
    <3>2. BalanceModeHolds'
      BY <2>1, <3>1 DEF SwInv, SettingsHold, BalanceModeHolds
    <3> QED BY <2>2, <3>2 DEF SettingsHold
  <2> QED BY <2>3, <2>4
<1> QED BY <1>14, <1>15, <1>16, <1>17 DEF SwInv

-----------------------------------------------------------------------------
(* The first half of a write: the parameters.                              *)
LEMMA StoreKeeps == ASSUME SwInv, SwStore PROVE SwInv'
<1> DEFINE w == Head(swTodo)
           s == [w EXCEPT !.stored = TRUE]
<1>1. swTodo \in Seq(Writes) /\ swTodo # <<>> /\ w \in Writes /\ w = swTodo[1] /\ ~w.stored
  BY DEF SwInv, SwTypes, SwStore
<1>2. s \in Writes /\ s.what = w.what /\ s.val = w.val /\ s.lo = w.lo /\ s.hi = w.hi /\ s.stored
  BY <1>1 DEF Writes
<1>3. /\ swTodo' \in Seq(Writes) /\ Len(swTodo') = Len(swTodo) /\ swTodo'[1] = s
      /\ \A i \in DOMAIN swTodo' : i \in DOMAIN swTodo /\ (i # 1 => swTodo'[i] = swTodo[i])
  <2>1. swTodo' = <<s>> \o Tail(swTodo)
    BY DEF SwStore
  <2> QED BY <1>1, <1>2, <2>1
<1> HIDE DEF s
<1>4. \A i \in DOMAIN swTodo' : /\ swTodo'[i].what = swTodo[i].what /\ swTodo'[i].val = swTodo[i].val
                                /\ swTodo'[i].lo = swTodo[i].lo /\ swTodo'[i].hi = swTodo[i].hi
  BY <1>1, <1>2, <1>3
<1>0. UNCHANGED <<swCamera, swAuto, swMin, swMax, swUpper, swUpperAuto, swFormat, swDev, swWbAuto, swCall, swManual>>
  BY DEF SwStore, swParams
<1>5. SwTypes'
  <2>1. SwTypes
    BY DEF SwInv
  <2>2. swVal' \in [Controls -> Int] /\ swWbOnce' \in BOOLEAN /\ swWbVal' \in Int \cup SwBalances
    <3>1. CASE w.what = "balance"
      <4>1. swWbVal' = w.val /\ swWbOnce' = w.once /\ swVal' = swVal
        BY <3>1 DEF SwStore
      <4> QED BY <1>1, <2>1, <4>1 DEF SwTypes, Writes
    <3>2. CASE w.what # "balance"
      <4>1. swVal' = [swVal EXCEPT ![w.what] = w.val] /\ UNCHANGED <<swWbVal, swWbOnce>>
        BY <3>2 DEF SwStore
      <4>2. 1 \in DOMAIN swTodo /\ w.what \in Controls
        BY <1>1, <3>2 DEF Writes
      <4>3. w.val \in Int
        BY <1>1, <2>1, <4>2 DEF SwTypes
      <4> QED BY <2>1, <4>1, <4>3 DEF SwTypes
    <3> QED BY <3>1, <3>2
  <2> QED BY <1>0, <1>3, <1>4, <2>1, <2>2 DEF SwTypes
<1>6. UpperFollows' /\ SetterIsManual' /\ ManualValueHolds' /\ AutoWithinLimits'
  BY <1>0, <1>3, <1>4 DEF SwInv, SettingsHold, UpperFollows, SetterIsManual, ManualValueHolds, AutoWithinLimits
<1>7. ManualIsQuiet'
  BY <1>0, <1>3, <1>4, SMTT(30) DEF SwInv, ManualIsQuiet, InFlight
<1>8. CASE w.what = "balance"
  <2>1. Len(swTodo) = 1 /\ (swMode # "any" => w.once = (swWbOnce /\ ~w.done))
    <3>1. 1 \in DOMAIN swTodo
      BY <1>1
    <3> QED BY <3>1, <1>1, <1>8 DEF SwInv, BalanceIsLast
  <2>2. swWbOnce' = w.once /\ swMode' = ModeAfter(w) /\ swWbAuto' = swWbAuto
    BY <1>8 DEF SwStore
  <2>3. BalanceIsLast'
    BY <1>2, <1>3, <2>1 DEF BalanceIsLast
  <2>4. BalanceModeHolds'
    BY <1>0, <1>1, <2>1, <2>2 DEF SwInv, SwTypes, SettingsHold, BalanceModeHolds, ModeAfter, Writes
  <2> QED BY <1>5, <1>6, <1>7, <2>3, <2>4 DEF SwInv, SettingsHold
<1>9. CASE w.what # "balance"
  <2>1. UNCHANGED <<swCamera, swWbOnce, swMode, swWbAuto>>
    BY <1>0, <1>9 DEF SwStore
  <2>2. BalanceIsLast'
    BY <1>1, <1>3, <1>4, <1>9, <2>1 DEF SwInv, BalanceIsLast
  <2>3. BalanceModeHolds'
    BY <2>1 DEF SwInv, SettingsHold, BalanceModeHolds
  <2> QED BY <1>5, <1>6, <1>7, <2>2, <2>3 DEF SwInv, SettingsHold
<1> QED BY <1>8, <1>9

(* The second half: the camera.                                            *)
LEMMA ApplyKeeps == ASSUME SwInv, SwApply PROVE SwInv'
<1> DEFINE w == Head(swTodo)
<1>1. swTodo \in Seq(Writes) /\ swTodo # <<>> /\ w \in Writes /\ w = swTodo[1]
  BY DEF SwInv, SwTypes, SwApply
<1>2. /\ swTodo' \in Seq(Writes) /\ Len(swTodo') = Len(swTodo) - 1
      /\ \A i \in DOMAIN swTodo' : i + 1 \in DOMAIN swTodo /\ swTodo'[i] = swTodo[i + 1]
  BY <1>1 DEF SwApply
<1>3. UNCHANGED <<swCamera, swAuto, swMin, swMax, swUpper, swUpperAuto, swFormat, swVal, swWbAuto, swWbOnce, swCall,
                  swManual, swMode>>
  BY DEF SwApply, swParams
<1>4. /\ swDev' \in [Controls -> Int] /\ swWbVal' \in Int \cup SwBalances
      /\ \A c \in Controls : swManual[c] # None => swDev'[c] = swDev[c]
  <2>1. CASE w.what = "balance"
    BY <1>1, <2>1 DEF SwApply, SwInv, SwTypes, Writes
  <2>2. CASE w.what # "balance"
    <3>1. swDev' = [swDev EXCEPT ![w.what] = w.val] /\ swWbVal' = swWbVal
      BY <2>2 DEF SwApply
    <3>2. 1 \in DOMAIN swTodo /\ w.what \in Controls
      BY <1>1, <2>2 DEF Writes
    <3>3. w.val \in Int
      BY <1>1, <3>2 DEF SwInv, SwTypes
    <3>4. swManual[w.what] = None
      BY <1>1, <3>2 DEF SwInv, ManualIsQuiet, InFlight
    <3> QED BY <3>1, <3>2, <3>3, <3>4 DEF SwInv, SwTypes
  <2> QED BY <2>1, <2>2
<1>5. SwTypes' /\ ManualValueHolds'
  BY <1>2, <1>3, <1>4 DEF SwInv, SwTypes, SettingsHold, ManualValueHolds
<1>6. UpperFollows' /\ SetterIsManual' /\ AutoWithinLimits' /\ BalanceModeHolds'
  BY <1>2, <1>3 DEF SwInv, SettingsHold, UpperFollows, SetterIsManual, AutoWithinLimits, BalanceModeHolds
<1>7. ManualIsQuiet'
  BY <1>2, <1>3 DEF SwInv, ManualIsQuiet, InFlight
<1>8. BalanceIsLast'
  BY <1>1, <1>2, <1>3 DEF SwInv, BalanceIsLast
<1> QED BY <1>5, <1>6, <1>7, <1>8 DEF SwInv, SettingsHold

-----------------------------------------------------------------------------
(* A call of the application leaves what the pass still writes alone.     *)
LEMMA CallKeeps == ASSUME SwInv, SwSetsValue \/ SwSetsLimit PROVE SwInv'
<1> USE SwAssumption DEF SwInv, SwMayCall
<1>1. ASSUME NEW c \in Controls, NEW v \in SwTargets[c], set_control(c, v)
      PROVE  SwInv'
  <2>1. v \in Int /\ swAuto[c] = FALSE
    BY <1>1 DEF set_control, SwTypes
  <2>2. /\ swVal' = [swVal EXCEPT ![c] = v] /\ swCall' = <<c, v>>
        /\ UNCHANGED <<swCamera, swAuto, swMin, swMax, swUpper, swUpperAuto, swFormat, swDev, swWbAuto, swWbOnce, swWbVal,
                       swTodo, swManual, swMode>>
    BY <1>1 DEF set_control, swParams, swBalance
  <2>3. SwTypes'
    BY <2>1, <2>2 DEF SwTypes
  <2>4. SetterIsManual'
    BY <2>1, <2>2 DEF SetterIsManual
  <2> QED BY <2>2, <2>3, <2>4
       DEF UpperFollows, ManualIsQuiet, InFlight, BalanceIsLast, SettingsHold, ManualValueHolds,
           AutoWithinLimits, BalanceModeHolds
<1>2. ASSUME NEW v \in SwBalances, set_whitebalance_channel(v)
      PROVE  SwInv'
  <2>1. /\ swWbVal' = v /\ swCall' = <<"balance", v>>
        /\ UNCHANGED <<swCamera, swAuto, swMin, swMax, swUpper, swUpperAuto, swFormat, swDev, swWbAuto, swWbOnce, swVal,
                       swTodo, swManual, swMode>>
    BY <1>2 DEF set_whitebalance_channel, swParams
  <2>2. SwTypes'
    BY <2>1 DEF SwTypes
  <2>3. SetterIsManual'
    BY <2>1 DEF SetterIsManual
  <2> QED BY <2>1, <2>2, <2>3
       DEF UpperFollows, ManualIsQuiet, InFlight, BalanceIsLast, SettingsHold, ManualValueHolds,
           AutoWithinLimits, BalanceModeHolds
<1>3. ASSUME SwSetsLimit PROVE SwInv'
  <2>1. /\ UNCHANGED <<swCamera, swAuto, swVal, swDev, swWbAuto, swWbOnce, swWbVal, swTodo, swManual, swMode, swCall>>
    BY <1>3 DEF SwSetsLimit, set_lower_limit, set_gain_upper_limit, set_exposure_upper_limit,
                set_upper_limit_auto, update_to_new_format, swBalance
  <2>2. /\ swMin' \in [Controls -> Int] /\ swMax' \in [Controls -> Int]
        /\ swUpper' \in Int /\ swUpperAuto' \in BOOLEAN /\ swFormat' \in Int
        /\ swUpperAuto' /\ swFormat' # None => swUpper' = swFormat'
    <3> USE DEF SwTypes, UpperFollows
    <3> DEFINE Limited == /\ swMin' \in [Controls -> Int] /\ swMax' \in [Controls -> Int]
                          /\ swUpper' \in Int /\ swUpperAuto' \in BOOLEAN /\ swFormat' \in Int
                          /\ swUpperAuto' /\ swFormat' # None => swUpper' = swFormat'
    <3>1. ASSUME NEW c \in Controls, NEW v \in SwTargets[c], set_lower_limit(c, v) PROVE Limited
      BY <3>1 DEF set_lower_limit
    <3>2. ASSUME NEW v \in SwTargets["gain"], set_gain_upper_limit(v) PROVE Limited
      BY <3>2 DEF set_gain_upper_limit, Controls
    <3>3. ASSUME NEW v \in SwTargets["exposure"], set_exposure_upper_limit(v) PROVE Limited
      BY <3>3 DEF set_exposure_upper_limit, Controls
    <3>4. ASSUME NEW on \in BOOLEAN, set_upper_limit_auto(on) PROVE Limited
      BY <3>4 DEF set_upper_limit_auto
    <3>5. ASSUME NEW f \in SwFrameLimits, update_to_new_format(f) PROVE Limited
      BY <3>5 DEF update_to_new_format
    <3> QED BY <1>3, <3>1, <3>2, <3>3, <3>4, <3>5 DEF SwSetsLimit
  <2>3. SwTypes'
    BY <2>1, <2>2 DEF SwTypes
  <2> QED BY <2>1, <2>2, <2>3
       DEF UpperFollows, SetterIsManual, ManualIsQuiet, InFlight, BalanceIsLast, SettingsHold, ManualValueHolds,
           AutoWithinLimits, BalanceModeHolds
<1> QED BY <1>1, <1>2, <1>3 DEF SwSetsValue

(* A setter that has given the camera its value: unless a pass is about to *)
(* write the same control, the value is the camera's from here on.         *)
LEMMA CallWritesKeeps == ASSUME SwInv, SwCallWrites PROVE SwInv'
<1> USE DEF SwInv
<1>1. UNCHANGED <<swCamera, swAuto, swMin, swMax, swUpper, swUpperAuto, swFormat, swVal, swWbAuto, swWbOnce, swWbVal,
                  swTodo, swMode>>
  BY DEF SwCallWrites, swParams
<1>2. SetterIsManual' /\ UpperFollows' /\ BalanceIsLast' /\ AutoWithinLimits' /\ BalanceModeHolds'
  <2>1. swCall' = <<>>
    BY DEF SwCallWrites
  <2>2. SetterIsManual' /\ UpperFollows'
    BY <1>1, <2>1 DEF SetterIsManual, UpperFollows
  <2>3. BalanceIsLast'
    BY <1>1 DEF BalanceIsLast
  <2>4. AutoWithinLimits' /\ BalanceModeHolds'
    BY <1>1 DEF SettingsHold, AutoWithinLimits, BalanceModeHolds
  <2> QED BY <2>2, <2>3, <2>4
<1>3. CASE swCall[1] = "balance"
  <2>1. UNCHANGED <<swDev, swManual>>
    BY <1>3 DEF SwCallWrites
  <2> QED BY <1>1, <1>2, <2>1 DEF SwTypes, ManualIsQuiet, InFlight, SettingsHold, ManualValueHolds
<1>4. CASE swCall[1] # "balance"
  <2> DEFINE c == swCall[1]
             v == swCall[2]
  <2>1. c \in Controls /\ v \in Int /\ ~swAuto[c]
    BY <1>4 DEF SwCallWrites, SetterIsManual
  <2>2. /\ swDev' = [swDev EXCEPT ![c] = v]
        /\ swManual' = [swManual EXCEPT ![c] = IF InFlight(c) THEN None ELSE v]
    BY <1>4 DEF SwCallWrites
  <2> HIDE DEF c, v
  <2>3. \A d \in Controls : InFlight(d)' = InFlight(d)
    BY <1>1 DEF InFlight
  <2>4. SwTypes'
    <3>1. swDev' \in [Controls -> Int] /\ swManual' \in [Controls -> Int]
      BY <2>1, <2>2 DEF SwTypes, None
    <3> QED BY <1>1, <3>1, Zenon DEF SwTypes
  <2>5. ManualIsQuiet' /\ ManualValueHolds'
    BY <1>1, <2>1, <2>2, <2>3 DEF SwTypes, ManualIsQuiet, SettingsHold, ManualValueHolds
  <2> QED BY <1>2, <2>4, <2>5 DEF SettingsHold
<1> QED BY <1>3, <1>4

(* Switching an automatic, or the mode of the white balance.               *)
LEMMA ModeKeeps == ASSUME SwInv, SwSetsMode PROVE SwInv'
<1> USE DEF SwInv, SwMayCall
<1>1. ASSUME NEW c \in Controls, NEW on \in BOOLEAN, set_auto(c, on) PROVE SwInv'
  <2>1. /\ swAuto' = [swAuto EXCEPT ![c] = on] /\ swCall = <<>>
        /\ swManual' = IF on THEN [swManual EXCEPT ![c] = None] ELSE swManual
        /\ UNCHANGED <<swCamera, swMin, swMax, swUpper, swUpperAuto, swFormat, swDev, swWbAuto, swWbOnce, swWbVal, swVal,
                       swTodo, swMode, swCall>>
    BY <1>1 DEF set_auto, swBalance
  <2>2. \A d \in Controls : InFlight(d)' = InFlight(d)
    BY <2>1 DEF InFlight
  <2>3. SwTypes'
    BY <2>1 DEF SwTypes, None
  <2>4. ManualIsQuiet' /\ ManualValueHolds'
    BY <2>1, <2>2 DEF SwTypes, ManualIsQuiet, SettingsHold, ManualValueHolds
  <2>5. UpperFollows' /\ SetterIsManual' /\ BalanceIsLast'
    BY <2>1 DEF UpperFollows, SetterIsManual, BalanceIsLast
  <2>6. AutoWithinLimits' /\ BalanceModeHolds'
    BY <2>1 DEF SettingsHold, AutoWithinLimits, BalanceModeHolds
  <2> QED BY <2>3, <2>4, <2>5, <2>6 DEF SettingsHold
<1>2. ASSUME NEW mode \in {"off", "auto", "once"}, set_balance_auto(mode) PROVE SwInv'
  <2>1. /\ swWbAuto' = (mode = "auto") /\ swWbOnce' = (mode = "once")
        /\ swMode' = IF InFlight("balance") THEN "any" ELSE mode
        /\ UNCHANGED <<swCamera, swAuto, swMin, swMax, swUpper, swUpperAuto, swFormat, swDev, swWbVal, swVal,
                       swTodo, swManual, swCall>>
    BY <1>2 DEF set_balance_auto, balance_flags, swParams
  <2>2. SwTypes'
    BY <2>1 DEF SwTypes
  <2>3. BalanceIsLast'
    BY <2>1 DEF BalanceIsLast, InFlight
  <2>4. BalanceModeHolds'
    BY <2>1 DEF BalanceModeHolds
  <2> QED BY <2>1, <2>2, <2>3, <2>4
       DEF UpperFollows, SetterIsManual, ManualIsQuiet, InFlight, SettingsHold, ManualValueHolds, AutoWithinLimits
<1> QED BY <1>1, <1>2 DEF SwSetsMode

(* For every camera, every range and every image: a value set by hand      *)
(* holds, an automatic stays within the limits that are set, and the white *)
(* balance runs in the mode asked for, although auto_pass writes its       *)
(* results back without m_property_mtx.                                    *)
THEOREM SettingsCorrect == SwSpec => []SettingsHold
<1>1. SwInv /\ UNCHANGED swVars => SwInv'
  <2> SUFFICES ASSUME SwInv, UNCHANGED swVars PROVE SwInv'
    OBVIOUS
  <2>1. UNCHANGED <<swCamera, swAuto, swMin, swMax, swUpper, swUpperAuto, swFormat, swVal, swDev, swWbAuto, swWbOnce,
                    swWbVal, swTodo, swCall, swManual, swMode>>
    BY DEF swVars, swParams, swBalance
  <2>2. SwTypes' /\ UpperFollows' /\ SetterIsManual'
    BY <2>1 DEF SwInv, SwTypes, UpperFollows, SetterIsManual
  <2>3. ManualIsQuiet' /\ BalanceIsLast'
    BY <2>1 DEF SwInv, ManualIsQuiet, InFlight, BalanceIsLast
  <2>4. SettingsHold'
    BY <2>1 DEF SwInv, SettingsHold, ManualValueHolds, AutoWithinLimits, BalanceModeHolds
  <2> QED BY <2>2, <2>3, <2>4 DEF SwInv
<1>2. SwInv /\ [SwNext]_swVars => SwInv'
  BY <1>1, PassKeeps, StoreKeeps, ApplyKeeps, CallKeeps, CallWritesKeeps, ModeKeeps DEF SwNext
<1>3. SwInv => SettingsHold
  BY DEF SwInv
<1> QED BY SwInitInv, <1>2, <1>3, PTL DEF SwSpec

=============================================================================
