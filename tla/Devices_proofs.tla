--------------------------- MODULE Devices_proofs ---------------------------
(***************************************************************************)
(* The device index: for every set of users and devices an open device has *)
(* one registration, and the index outlives its users.  The stream of the  *)
(* Aravis backend, for every set of buffers, every family of pools, every  *)
(* kind of work a callback does and every fault: stop_stream destroys the  *)
(* stream with no callback running, nothing is pushed to a stream that is  *)
(* gone, and the backend implements BufferLoop.                            *)
(***************************************************************************)
EXTENDS Indexer, AravisStream, FiniteSetTheorems, TLAPS

-----------------------------------------------------------------------------
(* The stream of the Aravis backend.                                       *)

(* Without a stream no callback runs, the stream owns nothing, and none of *)
(* the buffers of the list is with the sink.                               *)
NoStreamNoUse ==
  ~stream => inStream = {} /\ callback = "none" /\ list \cap held = {}

(* From DisableSignals to the end of stop_stream no callback can begin.    *)
Silenced ==
  control \in {"acquisition", "unref"} => ~emit /\ callback = "none"

(* A buffer is with the stream, in the callback or with the sink.          *)
OwnedOnce ==
  /\ cbBuf \notin inStream /\ cbBuf \notin held
  /\ inStream \cap held = {}

(* A stream that is there while neither stop_stream nor the camera works   *)
(* was left behind by a stop_stream that gave up.                          *)
LeftBehind ==
  stream /\ control = "idle" /\ ~acquiring => stopFailed

Inv == TypeOK /\ NoStreamNoUse /\ Silenced /\ OwnedOnce /\ LeftBehind /\ FreedByOne

(* A device that has not streamed satisfies the invariant.                *)
LEMMA InitInv == Init => Inv
BY PoolsAssumption, Zenon
DEF Init, Inv, TypeOK, NoStreamNoUse, Silenced, OwnedOnce, LeftBehind, FreedByOne

(* Every step of the control thread, the stream's thread and the owner of  *)
(* the sink preserves the invariant.                                       *)
LEMMA NextInv == Inv /\ [Next]_vars => Inv'
<1> SUFFICES ASSUME Inv, [Next]_vars PROVE Inv'
  OBVIOUS
<1> USE PoolsAssumption DEF Inv, TypeOK, NoStreamNoUse, Silenced, OwnedOnce,
                            LeftBehind, FreedByOne, historyVars
<1>1. CASE Initialize
  BY <1>1 DEF Initialize, Idle, streamVars, callbackVars, controlVars
<1>2. CASE StartStream
  BY <1>2 DEF StartStream, Idle, callbackVars, controlVars
<1>3. CASE StartFails
  <2>1. control' = "stop" /\ UNCHANGED <<list, callbackVars, held, access,
                                         historyVars>>
    BY <1>3 DEF StartFails
  <2>2. CASE UNCHANGED streamVars
    BY <2>1, <2>2 DEF streamVars, callbackVars
  <2>3. CASE /\ ~stream /\ stream' = TRUE /\ emit' = TRUE
             /\ inStream' = list /\ UNCHANGED acquiring
    BY <2>1, <2>3 DEF callbackVars
  <2> QED BY <1>3, <2>2, <2>3, Zenon DEF StartFails
<1>4. CASE StopCalled
  BY <1>4 DEF StopCalled, streamVars, callbackVars
<1>5. CASE LockStop
  BY <1>5 DEF LockStop, streamVars, callbackVars
<1>6. CASE DisableSignals
  BY <1>6, Zenon DEF DisableSignals, EmitLockFree, callbackVars
<1>7. CASE StopAcquisition
  BY <1>7, Zenon DEF StopAcquisition, callbackVars
<1>8. CASE UnrefStream
  BY <1>8, Zenon DEF UnrefStream, callbackVars
<1>9. CASE Free
  BY <1>9 DEF Free, Idle, streamVars, callbackVars, controlVars
<1>10. CASE Image
  BY <1>10 DEF Image, EmitLockFree, controlVars
<1>11. CASE Complete
  BY <1>11 DEF Complete, controlVars
<1>12. CASE SetProperty
  BY <1>12 DEF SetProperty, streamVars, controlVars
<1>13. CASE Deliver
  BY <1>13 DEF Deliver, streamVars, controlVars
<1>14. CASE RequeueInCallback
  BY <1>14 DEF RequeueInCallback, controlVars
<1>15. ASSUME NEW b \in Buffers, RequeueBuffer(b) PROVE Inv'
  BY <1>15 DEF RequeueBuffer, callbackVars, controlVars
<1>16. CASE UNCHANGED vars
  BY <1>16 DEF vars, streamVars, callbackVars, controlVars
<1> QED
  BY <1>1, <1>2, <1>3, <1>4, <1>5, <1>6, <1>7, <1>8, <1>9, <1>10, <1>11,
     <1>12, <1>13, <1>14, <1>15, <1>16, Zenon
  DEF Next, StopStream, StreamThread

(* Type correctness of the Aravis stream, for any buffers, pools, work and *)
(* faults.                                                                 *)
THEOREM TypeCorrect == Spec => []TypeOK
<1>1. Inv => TypeOK
  BY DEF Inv
<1> QED BY <1>1, InitInv, NextInv, PTL DEF Spec

(* requeue_buffer never pushes a buffer to a stream that was destroyed or  *)
(* not yet created.                                                        *)
THEOREM NothingPushedAfterUnref == Spec => []PushedToStream
<1>1. Inv => PushedToStream
  BY DEF Inv, NoStreamNoUse, PushedToStream
<1> QED BY <1>1, InitInv, NextInv, PTL DEF Spec

(* No callback runs once stop_stream has switched the signals off.         *)
THEOREM CallbacksSilenced == Spec => []NoCallbackAfterDisable
<1>1. Inv => NoCallbackAfterDisable
  BY DEF Inv, Silenced, NoCallbackAfterDisable
<1> QED BY <1>1, InitInv, NextInv, PTL DEF Spec

(* release_buffers frees no ArvBuffer that the stream owns unless          *)
(* stop_stream has given up before.                                        *)
THEOREM FreedOnce == Spec => []FreedByOne
<1>1. Inv => FreedByOne
  BY DEF Inv
<1> QED BY <1>1, InitInv, NextInv, PTL DEF Spec

(* All of it together: what keeps the buffers of an Aravis stream valid.   *)
THEOREM StreamSafe == Spec => []StreamIsSafe
<1>1. TypeOK /\ PushedToStream /\ NoCallbackAfterDisable /\ FreedByOne <=> StreamIsSafe
  BY DEF StreamIsSafe
<1> QED
  BY <1>1, TypeCorrect, NothingPushedAfterUnref, CallbacksSilenced, FreedOnce, PTL

-----------------------------------------------------------------------------
(* Each step of the backend is a step of BufferLoop or changes neither of  *)
(* the two sets.                                                           *)
LEMMA StepRefines ==
  Inv /\ Inv' /\ [Next]_vars => [Loop!Next]_<<deviceBuffers, held>>
<1> SUFFICES ASSUME Inv, Inv', [Next]_vars
             PROVE  [Loop!Next]_<<deviceBuffers, held>>
  OBVIOUS
<1> USE PoolsAssumption DEF Inv, TypeOK, NoStreamNoUse, OwnedOnce
<1>1. ASSUME ~stream, inStream' = list, UNCHANGED <<callbackVars, held>>
      PROVE  Loop!Next
  <2>1. deviceBuffers' = list /\ list \in SUBSET Buffers /\ list \cap held = {}
    BY <1>1 DEF deviceBuffers, callbackVars
  <2>2. Loop!Register(list)
    BY <1>1, <2>1 DEF Loop!Register
  <2> QED BY <2>1, <2>2 DEF Loop!Next
<1>2. CASE StartStream
  BY <1>1, <1>2 DEF StartStream
<1>3. ASSUME UNCHANGED <<inStream, cbBuf, held>>
      PROVE  UNCHANGED <<deviceBuffers, held>>
  BY <1>3 DEF deviceBuffers
<1>4. CASE StartFails
  BY <1>1, <1>3, <1>4 DEF StartFails, streamVars, callbackVars
<1>5. ASSUME deviceBuffers' \subseteq deviceBuffers, held' = held
      PROVE  Loop!Next
  <2>1. deviceBuffers \ deviceBuffers' \in SUBSET Buffers
    BY DEF deviceBuffers
  <2>2. Loop!Release(deviceBuffers \ deviceBuffers')
    BY <1>5 DEF Loop!Release
  <2> QED BY <2>1, <2>2 DEF Loop!Next
<1>6. CASE UnrefStream
  BY <1>5, <1>6 DEF UnrefStream, callbackVars, deviceBuffers
<1>7. CASE Image \/ Complete \/ RequeueInCallback
  <2>1. deviceBuffers' \subseteq deviceBuffers /\ held' = held
    BY <1>7 DEF Image, EmitLockFree, Complete, RequeueInCallback, deviceBuffers
  <2> QED BY <1>5, <2>1
<1>8. CASE Deliver
  <2>1. CASE held' = held \cup {cbBuf} /\ cbBuf' = NoBuffer
    <3>1. inStream' = inStream /\ cbBuf \in Buffers
      BY <1>8 DEF Deliver, streamVars
    <3>2. Loop!Deliver(cbBuf)
      BY <2>1, <3>1 DEF Loop!Deliver, deviceBuffers
    <3> QED BY <3>1, <3>2 DEF Loop!Next
  <2>2. CASE UNCHANGED <<held, cbBuf>>
    BY <1>3, <1>8, <2>2 DEF Deliver, streamVars
  <2> QED BY <1>8, <2>1, <2>2 DEF Deliver
<1>9. ASSUME NEW b \in Buffers, RequeueBuffer(b) PROVE Loop!Next
  <2>1. Loop!Return(b)
    BY <1>9 DEF RequeueBuffer, callbackVars, Loop!Return, deviceBuffers
  <2> QED BY <2>1 DEF Loop!Next
<1>10. CASE Initialize \/ StopCalled \/ LockStop \/ DisableSignals
              \/ StopAcquisition \/ Free \/ SetProperty \/ UNCHANGED vars
  BY <1>3, <1>10
  DEF Initialize, StopCalled, LockStop, DisableSignals, StopAcquisition, Free,
      SetProperty, vars, streamVars, callbackVars
<1> QED
  BY <1>2, <1>4, <1>6, <1>7, <1>8, <1>9, <1>10
  DEF Next, StopStream, StreamThread

(* The Aravis backend implements BufferLoop.                               *)
THEOREM Refinement == Spec => ImplementsBufferLoop
<1>1. Init => Loop!Init
  BY PoolsAssumption DEF Init, Loop!Init, deviceBuffers
<1> QED
  BY <1>1, InitInv, NextInv, StepRefines, PTL
  DEF Spec, ImplementsBufferLoop, Loop!Spec

-----------------------------------------------------------------------------
(* The device index.                                                       *)

Open == {u \in Users : user[u] = "open"}

(* Everything ixTypeOK says but the bound on the registrations.              *)
Types ==
  /\ plugged \subseteq Devices /\ deviceList \subseteq Devices
  /\ fetched \subseteq Devices /\ haveList \in BOOLEAN
  /\ callbacks \in Seq(Registration)
  /\ goOn \in BOOLEAN
  /\ thread \in {"none", "first", "firstlist", "loop", "checked", "waiting",
                 "woken", "fetch", "update", "notify", "ended"}
  /\ pending \subseteq Registration
  /\ user \in [Users -> {"none", "list", "found", "opened", "open"}]
  /\ serial \in [Users -> Devices \cup {NoDevice}]
  /\ told \subseteq Users
  /\ destroy \in {"no", "flag", "notify", "join"}

(* A user that opens a device has picked one.                              *)
PickedDevice ==
  \A u \in Users : user[u] \in {"found", "opened", "open"} => serial[u] \in Devices

(* The indexer is there while somebody uses it.                            *)
UsersHaveIndexer ==
  destroy # "no" \/ thread = "none" => \A u \in Users : user[u] = "none"

IndexInv ==
  /\ Types /\ PickedDevice /\ UsersHaveIndexer
  /\ Len(callbacks) = Cardinality(Open)

(* Cardinalities of the sets of users with an open device.                 *)
LEMMA OpenFinite ==
  /\ IsFiniteSet(Users)
  /\ \A S \in SUBSET Users : IsFiniteSet(S) /\ Cardinality(S) \in Nat
                               /\ Cardinality(S) <= Cardinality(Users)
  /\ Cardinality(Users) \in Nat
<1>1. IsFiniteSet(Users)
  BY DevicesAssumption
<1>2. ASSUME NEW S \in SUBSET Users
      PROVE  /\ IsFiniteSet(S) /\ Cardinality(S) \in Nat
             /\ Cardinality(S) <= Cardinality(Users)
  <2>1. IsFiniteSet(S) /\ Cardinality(S) <= Cardinality(Users)
    BY <1>1, FS_Subset
  <2> QED BY <2>1, FS_CardinalityType
<1> QED BY <1>1, <1>2, FS_CardinalityType

(* The types and the counted registrations bound what ixTypeOK bounds.      *)
LEMMA InvTypeOK == IndexInv => ixTypeOK
BY OpenFinite DEF IndexInv, Types, ixTypeOK, Open

(* Without an indexer and without users the invariant holds.             *)
LEMMA IndexInitInv == ixInit => IndexInv
<1> SUFFICES ASSUME ixInit PROVE IndexInv
  OBVIOUS
<1>1. Open = {}
  BY DEF ixInit, Open
<1>2. callbacks \in Seq(Registration) /\ Len(callbacks) = 0
  BY DEF ixInit
<1> QED
  BY <1>1, <1>2, FS_EmptySet, Zenon
  DEF ixInit, IndexInv, Types, PickedDevice, UsersHaveIndexer

(* Steps that leave the registrations and the users alone.                 *)
LEMMA OthersInv ==
  ASSUME IndexInv, UNCHANGED <<callbacks, user, serial>>, Types',
         destroy' # "no" \/ thread' = "none" => destroy # "no" \/ thread = "none"
  PROVE  IndexInv'
BY DEF IndexInv, PickedDevice, UsersHaveIndexer, Open

(* Every step of the users, the destructor and the thread preserves the    *)
(* invariant.                                                              *)
LEMMA IndexNextInv == IndexInv /\ [ixNext]_ixVars => IndexInv'
<1> SUFFICES ASSUME IndexInv, [ixNext]_ixVars PROVE IndexInv'
  OBVIOUS
<1> USE DEF listVars, userVars, threadRest
<1>1. ASSUME NEW d \in Devices, Plug(d) \/ Unplug(d) PROVE IndexInv'
  BY <1>1, OthersInv DEF Plug, Unplug, IndexInv, Types
<1>2. ASSUME NEW u \in Users, GetInstance(u) PROVE IndexInv'
  <2>1. user[u] = "none" /\ user' = [user EXCEPT ![u] = "list"]
          /\ UNCHANGED <<plugged, fetched, pending, serial, told, destroy>>
    BY <1>2 DEF GetInstance
  <2>2. Open' = Open /\ PickedDevice'
    BY <2>1 DEF Open, IndexInv, Types, PickedDevice
  <2>3. CASE thread = "none"
    <3>1. Open = {} /\ callbacks' = <<>>
      BY <1>2, <2>3 DEF GetInstance, IndexInv, UsersHaveIndexer, Open
    <3>2. callbacks' \in Seq(Registration) /\ Len(callbacks') = Cardinality(Open')
      BY <2>2, <3>1, FS_EmptySet
    <3>3. /\ destroy' = "no" /\ thread' = "first" /\ goOn' = TRUE
          /\ haveList' = FALSE /\ deviceList' = {}
      BY <1>2, <2>1, <2>3 DEF GetInstance
    <3>4. Types'
      BY <2>1, <3>2, <3>3, Zenon DEF IndexInv, Types
    <3> QED BY <2>2, <3>2, <3>3, <3>4 DEF IndexInv, UsersHaveIndexer
  <2>4. CASE thread # "none"
    BY <1>2, <2>1, <2>2, <2>4 DEF GetInstance, IndexInv, Types, UsersHaveIndexer
  <2> QED BY <2>3, <2>4
<1>3. ASSUME NEW u \in Users, DropIndex(u), IndexInv, user[u] # "none"
      PROVE  /\ Open' = Open \ {u} /\ PickedDevice' /\ destroy = "no"
             /\ thread # "none"
             /\ destroy' # "no" => \A v \in Users : user'[v] = "none"
             /\ user' \in [Users -> {"none", "list", "found", "opened", "open"}]
             /\ serial' \in [Users -> Devices \cup {NoDevice}]
             /\ told' \subseteq Users /\ destroy' \in {"no", "flag"}
  BY <1>3 DEF DropIndex, Open, IndexInv, Types, PickedDevice, UsersHaveIndexer
<1>4. ASSUME NEW u \in Users, GetDeviceList(u) PROVE IndexInv'
  <2>1. user[u] = "list" /\ UNCHANGED <<plugged, listVars, callbacks, goOn,
                                        thread, pending>>
    BY <1>4 DEF GetDeviceList
  <2>2. CASE DropIndex(u)
    <3>1. Open' = Open
      BY <1>3, <2>1, <2>2 DEF Open
    <3> QED BY <1>3, <2>1, <2>2, <3>1 DEF IndexInv, Types, UsersHaveIndexer
  <2>3. CASE \E d \in deviceList :
               /\ user' = [user EXCEPT ![u] = "found"]
               /\ serial' = [serial EXCEPT ![u] = d]
               /\ UNCHANGED <<told, destroy>>
    <3>1. Open' = Open
      BY <2>1, <2>3 DEF Open, IndexInv, Types
    <3> QED
      BY <2>1, <2>3, <3>1 DEF IndexInv, Types, PickedDevice, UsersHaveIndexer
  <2> QED BY <1>4, <2>2, <2>3 DEF GetDeviceList
<1>5. ASSUME NEW u \in Users, OpenDevice(u) PROVE IndexInv'
  <2>1. user[u] = "found" /\ UNCHANGED <<plugged, listVars, callbacks, goOn,
                                         thread, pending>>
    BY <1>5 DEF OpenDevice
  <2>2. CASE DropIndex(u)
    <3>1. Open' = Open
      BY <1>3, <2>1, <2>2 DEF Open
    <3> QED BY <1>3, <2>1, <2>2, <3>1 DEF IndexInv, Types, UsersHaveIndexer
  <2>3. CASE user' = [user EXCEPT ![u] = "opened"]
               /\ UNCHANGED <<serial, told, destroy>>
    <3>1. Open' = Open
      BY <2>1, <2>3 DEF Open, IndexInv, Types
    <3> QED
      BY <2>1, <2>3, <3>1 DEF IndexInv, Types, PickedDevice, UsersHaveIndexer
  <2> QED BY <1>5, <2>2, <2>3 DEF OpenDevice
<1>6. ASSUME NEW u \in Users, Register(u) PROVE IndexInv'
  <2>1. [user |-> u, serial |-> serial[u]] \in Registration
    BY <1>6 DEF Register, IndexInv, PickedDevice, Registration
  <2>2. callbacks' \in Seq(Registration) /\ Len(callbacks') = Len(callbacks) + 1
    BY <1>6, <2>1 DEF Register, IndexInv, Types
  <2>3. u \notin Open /\ Open' = Open \cup {u}
    BY <1>6 DEF Register, Open, IndexInv, Types
  <2>4. Cardinality(Open') = Cardinality(Open) + 1
    BY <2>3, OpenFinite, FS_AddElement DEF Open
  <2> QED
    BY <1>6, <2>2, <2>4 DEF Register, IndexInv, Types, PickedDevice, UsersHaveIndexer
<1>7. ASSUME NEW u \in Users, CloseDevice(u) PROVE IndexInv'
  <2>1. u \in Open /\ Open' = Open \ {u}
    BY <1>3, <1>7 DEF CloseDevice, Open
  <2>2. /\ Cardinality(Open) \in Nat /\ Cardinality(Open') \in Nat
        /\ Cardinality(Open') = Cardinality(Open) - 1
    BY <2>1, OpenFinite, FS_RemoveElement DEF Open
  <2>3. callbacks \in Seq(Registration) /\ callbacks # <<>>
    BY <2>2 DEF IndexInv, Types
  <2>4. callbacks' = Tail(callbacks)
    BY <1>7, <2>3 DEF CloseDevice, RemoveDeviceLost
  <2>5. callbacks' \in Seq(Registration) /\ Len(callbacks') = Len(callbacks) - 1
    BY <2>3, <2>4
  <2> QED
    BY <1>3, <1>7, <2>2, <2>5 DEF CloseDevice, IndexInv, Types, UsersHaveIndexer
<1>8. CASE Destroy
  BY <1>8, OthersInv, Zenon
  DEF Destroy, ClearContinue, NotifyThread, JoinThread, IndexInv, Types
<1>9. CASE FetchFirst \/ FirstList \/ TestContinue \/ WaitForNextRun \/ Timeout
             \/ Fetch \/ Notified
  BY <1>9, OthersInv, Zenon
  DEF FetchFirst, FirstList, TestContinue, WaitForNextRun, Timeout, Fetch,
      Notified, IndexInv, Types
<1>10. CASE Update
  <2>1. Range(callbacks) \subseteq Registration
    BY DEF IndexInv, Types, Range
  <2> QED BY <1>10, <2>1, OthersInv DEF Update, IndexInv, Types
<1>11. ASSUME NEW c \in Registration, CallCallback(c) PROVE IndexInv'
  BY <1>11, OthersInv DEF CallCallback, IndexInv, Types, Registration
<1>12. CASE UNCHANGED ixVars
  BY <1>12, OthersInv DEF ixVars, IndexInv, Types
<1> QED
  BY <1>1, <1>2, <1>4, <1>5, <1>6, <1>7, <1>8, <1>9, <1>10, <1>11, <1>12
  DEF ixNext, WorkThread

(* Type correctness of the indexer, and no more registrations than users.  *)
THEOREM IndexTypes == ixSpec => []ixTypeOK
BY InvTypeOK, IndexInitInv, IndexNextInv, PTL DEF ixSpec

(* There is one registration for every open device, whichever one          *)
(* remove_device_lost takes away: none is leaked over any number of        *)
(* openings and closings.                                                  *)
THEOREM RegistrationsCounted == ixSpec => []OneRegistrationPerDevice
<1>1. IndexInv => OneRegistrationPerDevice
  BY DEF IndexInv, Open, OneRegistrationPerDevice
<1> QED BY <1>1, IndexInitInv, IndexNextInv, PTL DEF ixSpec

(* ~Indexer runs only when no user is left: the indexer is not destroyed   *)
(* under somebody who holds or opens a device.                             *)
THEOREM DestroyedUnused == ixSpec => []UsersHaveIndexer
<1>1. IndexInv => UsersHaveIndexer
  BY DEF IndexInv
<1> QED BY <1>1, IndexInitInv, IndexNextInv, PTL DEF ixSpec

(* Both together: the index counts its users right.                        *)
THEOREM IndexCorrect == ixSpec => []IndexHolds
<1>1. ixTypeOK /\ OneRegistrationPerDevice <=> IndexHolds
  BY DEF IndexHolds
<1> QED BY <1>1, IndexTypes, RegistrationsCounted, PTL
=============================================================================
