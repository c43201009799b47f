------------------------------ MODULE Indexer -------------------------------
(***************************************************************************)
(* The device index (Indexer.cpp, DeviceIndex.cpp): a thread lists the     *)
(* devices every two seconds and calls the device-lost callbacks, while    *)
(* users open devices (CaptureDeviceImpl) and close them again.  The last  *)
(* user to go destroys the indexer.                                        *)
(*                                                                         *)
(* The model follows one indexer from get_instance to its destructor; a    *)
(* user that comes while it is being destroyed waits for the next one.     *)
(***************************************************************************)
EXTENDS Naturals, Sequences, FiniteSets, Functions

CONSTANTS Users,      \* the objects that hold a DeviceIndex
          Devices,    \* serial numbers
          NoDevice

ASSUME DevicesAssumption == NoDevice \notin Devices /\ IsFiniteSet(Users)

VARIABLES
  plugged,      \* external: the devices that can be found
  deviceList,   \* device_list_
  haveList,     \* have_list_
  callbacks,    \* callbacks_; the function pointer is the same in all
  goOn,         \* continue_thread_
  thread,       \* program point of update_device_list_thread
  fetched,      \* tmp_dev_list
  pending,      \* callbacks still to be called for the lost devices
  user,         \* what each user is doing
  serial,       \* the device each user wants to open or has open
  told,         \* the users whose callback was called since they opened
  destroy       \* program point of ~Indexer

listVars == <<deviceList, haveList, fetched>>
userVars == <<user, serial, told>>
ixVars == <<plugged, listVars, callbacks, goOn, thread, pending, userVars, destroy>>

Registration == [user : Users, serial : Devices]

ixTypeOK ==
  /\ plugged \subseteq Devices /\ deviceList \subseteq Devices
  /\ fetched \subseteq Devices /\ haveList \in BOOLEAN
  /\ callbacks \in Seq(Registration) /\ Len(callbacks) <= Cardinality(Users)
  /\ goOn \in BOOLEAN
  /\ thread \in {"none", "first", "firstlist", "loop", "checked", "waiting",
                 "woken", "fetch", "update", "notify", "ended"}
  /\ pending \subseteq Registration
  /\ user \in [Users -> {"none", "list", "found", "opened", "open"}]
  /\ serial \in [Users -> Devices \cup {NoDevice}]
  /\ told \subseteq Users
  /\ destroy \in {"no", "flag", "notify", "join"}

ixInit ==
  /\ plugged = Devices
  /\ deviceList = {} /\ haveList = FALSE /\ fetched = {}
  /\ callbacks = <<>> /\ pending = {}
  /\ goOn = TRUE /\ thread = "none" /\ destroy = "no"
  /\ user = [u \in Users |-> "none"]
  /\ serial = [u \in Users |-> NoDevice]
  /\ told = {}

(* The thread holds mtx_ across these steps.                                *)
MutexFree == thread \notin {"loop", "checked", "woken"}

-----------------------------------------------------------------------------
Plug(d) ==
  /\ d \notin plugged
  /\ plugged' = plugged \cup {d}
  /\ UNCHANGED <<listVars, callbacks, goOn, thread, pending, userVars, destroy>>

Unplug(d) ==
  /\ d \in plugged
  /\ plugged' = plugged \ {d}
  /\ UNCHANGED <<listVars, callbacks, goOn, thread, pending, userVars, destroy>>

-----------------------------------------------------------------------------
(* get_instance: the first user makes the indexer and its thread.           *)
GetInstance(u) ==
  /\ user[u] = "none" /\ destroy = "no"
  /\ user' = [user EXCEPT ![u] = "list"]
  /\ \/ /\ thread = "none"
        /\ thread' = "first" /\ goOn' = TRUE /\ haveList' = FALSE
        /\ deviceList' = {} /\ callbacks' = <<>>
     \/ /\ thread # "none"
        /\ UNCHANGED <<thread, goOn, haveList, deviceList, callbacks>>
  /\ UNCHANGED <<plugged, fetched, pending, serial, told, destroy>>

(* The shared pointer to the indexer is dropped.                            *)
DropIndex(u) ==
  /\ user' = [user EXCEPT ![u] = "none"]
  /\ serial' = [serial EXCEPT ![u] = NoDevice]
  /\ told' = told \ {u}
  /\ destroy' = IF \A v \in Users \ {u} : user[v] = "none" THEN "flag" ELSE "no"

(* get_device_list waits for the first list; a device is picked from the    *)
(* copy, or none is there.                                                  *)
GetDeviceList(u) ==
  /\ user[u] = "list" /\ haveList /\ MutexFree
  /\ \/ \E d \in deviceList :
          /\ \A v \in Users : serial[v] # d
          /\ user' = [user EXCEPT ![u] = "found"]
          /\ serial' = [serial EXCEPT ![u] = d]
          /\ UNCHANGED <<told, destroy>>
     \/ DropIndex(u)
  /\ UNCHANGED <<plugged, listVars, callbacks, goOn, thread, pending>>

(* The constructor of CaptureDeviceImpl opens the device, which fails when  *)
(* it is no longer there, ...                                               *)
OpenDevice(u) ==
  /\ user[u] = "found"
  /\ \/ /\ serial[u] \in plugged
        /\ user' = [user EXCEPT ![u] = "opened"]
        /\ UNCHANGED <<serial, told, destroy>>
     \/ /\ serial[u] \notin plugged
        /\ DropIndex(u)
  /\ UNCHANGED <<plugged, listVars, callbacks, goOn, thread, pending>>

(* ... and registers for the loss of the device.                            *)
Register(u) ==
  /\ user[u] = "opened" /\ MutexFree
  /\ callbacks' = Append(callbacks, [user |-> u, serial |-> serial[u]])
  /\ user' = [user EXCEPT ![u] = "open"]
  /\ UNCHANGED <<plugged, listVars, goOn, thread, pending, serial, told, destroy>>

(* Mutant: every registration of the callback is removed.                   *)
RemoveEvery(cbs) == <<>>

(* remove_device_lost: the first registration with the function pointer,    *)
(* which all of them have.                                                  *)
RemoveDeviceLost(cbs) == Tail(cbs)

(* The destructor of CaptureDeviceImpl.                                     *)
CloseDevice(u) ==
  /\ user[u] = "open" /\ MutexFree
  /\ callbacks' = IF callbacks = <<>> THEN <<>> ELSE RemoveDeviceLost(callbacks)
  /\ DropIndex(u)
  /\ UNCHANGED <<plugged, listVars, goOn, thread, pending>>

-----------------------------------------------------------------------------
(* Mutant: the thread is notified but not told to end.                      *)
KeepContinue ==
  /\ destroy = "flag"
  /\ destroy' = "notify"
  /\ UNCHANGED <<plugged, listVars, callbacks, goOn, thread, pending, userVars>>

(* ~Indexer: the flag and the notification do not take the mutex.           *)
ClearContinue ==
  /\ destroy = "flag"
  /\ goOn' = FALSE
  /\ destroy' = "notify"
  /\ UNCHANGED <<plugged, listVars, callbacks, thread, pending, userVars>>

NotifyThread ==
  /\ destroy = "notify"
  /\ thread' = IF thread = "waiting" THEN "woken" ELSE thread
  /\ destroy' = "join"
  /\ UNCHANGED <<plugged, listVars, callbacks, goOn, pending, userVars>>

JoinThread ==
  /\ destroy = "join" /\ thread = "ended"
  /\ thread' = "none"
  /\ destroy' = "no"
  /\ UNCHANGED <<plugged, listVars, callbacks, goOn, pending, userVars>>

Destroy == ClearContinue \/ NotifyThread \/ JoinThread

-----------------------------------------------------------------------------
(* update_device_list_thread.                                              *)

threadRest == <<plugged, callbacks, goOn, userVars, destroy>>

FetchFirst ==
  /\ thread = "first"
  /\ fetched' = plugged
  /\ thread' = "firstlist"
  /\ UNCHANGED <<threadRest, deviceList, haveList, pending>>

FirstList ==
  /\ thread = "firstlist"
  /\ deviceList' = fetched
  /\ haveList' = TRUE
  /\ thread' = "loop"
  /\ UNCHANGED <<threadRest, fetched, pending>>

TestContinue ==
  /\ thread \in {"loop", "woken"}
  /\ thread' = IF ~goOn THEN "ended"
               ELSE IF thread = "loop" THEN "checked" ELSE "fetch"
  /\ UNCHANGED <<threadRest, listVars, pending>>

WaitForNextRun ==
  /\ thread = "checked"
  /\ thread' = "waiting"
  /\ UNCHANGED <<threadRest, listVars, pending>>

(* wait_for returns after wait_period_ seconds.                             *)
Timeout ==
  /\ thread = "waiting"
  /\ thread' = "woken"
  /\ UNCHANGED <<threadRest, listVars, pending>>

Fetch ==
  /\ thread = "fetch"
  /\ fetched' = plugged
  /\ thread' = "update"
  /\ UNCHANGED <<threadRest, deviceList, haveList, pending>>

(* Under the mutex: what was listed and is not any more is lost; the        *)
(* callbacks are copied.                                                    *)
Update ==
  /\ thread = "update"
  /\ pending' = {c \in Range(callbacks) : c.serial \in deviceList \ fetched}
  /\ deviceList' = fetched
  /\ thread' = "notify"
  /\ UNCHANGED <<threadRest, haveList, fetched>>

(* A callback of the copy, without the mutex; its user may have gone.       *)
CallCallback(c) ==
  /\ thread = "notify" /\ c \in pending
  /\ pending' = pending \ {c}
  /\ told' = IF user[c.user] = "open" /\ serial[c.user] = c.serial
              THEN told \cup {c.user} ELSE told
  /\ UNCHANGED <<plugged, listVars, callbacks, goOn, thread, user, serial,
                 destroy>>

Notified ==
  /\ thread = "notify" /\ pending = {}
  /\ thread' = "loop"
  /\ UNCHANGED <<threadRest, listVars, pending>>

WorkThread ==
  \/ FetchFirst \/ FirstList \/ TestContinue \/ WaitForNextRun \/ Timeout
  \/ Fetch \/ Update \/ Notified
  \/ \E c \in Registration : CallCallback(c)

ixNext ==
  \/ \E d \in Devices : Plug(d) \/ Unplug(d)
  \/ \E u \in Users : GetInstance(u) \/ GetDeviceList(u) \/ OpenDevice(u)
                        \/ Register(u) \/ CloseDevice(u)
  \/ Destroy
  \/ WorkThread

(* The thread and a destructor that has begun run; a user blocked in        *)
(* get_device_list gets the mutex, which is free in every round.            *)
ixFairness ==
  /\ WF_ixVars(WorkThread) /\ WF_ixVars(Destroy)
  /\ \A u \in Users : SF_ixVars(GetDeviceList(u))

ixSpec == ixInit /\ [][ixNext]_ixVars /\ ixFairness

-----------------------------------------------------------------------------
(* Opening and closing keeps one registration for every open device,        *)
(* whichever one remove_device_lost takes away.                             *)
OneRegistrationPerDevice ==
  Len(callbacks) = Cardinality({u \in Users : user[u] = "open"})

(* The index counts its users right.                                        *)
IndexHolds == ixTypeOK /\ OneRegistrationPerDevice

(* The destructor of the indexer returns, although it may notify the thread *)
(* between its test of continue_thread_ and its wait.                       *)
DestroyReturns == destroy # "no" ~> destroy = "no"

(* get_device_list returns: the thread delivers a first list.               *)
ListReturns == \A u \in Users : user[u] = "list" ~> user[u] # "list"

(* A registration is honoured: as long as it is in the list, its user is    *)
(* told of the loss of the device, unless the device comes back or is       *)
(* closed first.                                                            *)
RegistrationHonoured ==
  \A u \in Users, d \in Devices :
    ([user |-> u, serial |-> d] \in Range(callbacks)
       /\ user[u] = "open" /\ serial[u] = d /\ d \in deviceList /\ d \notin plugged)
      ~> (\/ u \in told \/ d \in plugged \/ user[u] # "open" \/ serial[u] # d
          \/ [user |-> u, serial |-> d] \notin Range(callbacks))

(* The index serves its users: the destructor and get_device_list return,   *)
(* and registrations are honoured.                                          *)
IndexLives == DestroyReturns /\ ListReturns /\ RegistrationHonoured

=============================================================================
