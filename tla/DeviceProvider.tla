---------------------------- MODULE DeviceProvider ----------------------------
(***************************************************************************)
(* The device provider of tcammainsrc (mainsrc_gst_device_provider.cpp): a  *)
(* thread that compares the device index with the devices it has announced  *)
(* every two seconds, started and stopped by GStreamer.  GstDeviceProvider  *)
(* serialises start, stop and probe, so that the thread runs against one    *)
(* of them at a time.                                                       *)
(***************************************************************************)
EXTENDS Integers, Sequences, FiniteSets

CONSTANTS
    DpDevices,     \* the cameras
    MaxDpStarts,   \* bound on the calls of start
    MaxDpPlugs     \* bound on the changes of what is plugged in

VARIABLES
    dpPlugged,     \* what the device index reports
    dpRun,         \* run_updates_
    dpKnown,       \* known_devices_
    dpAnnounced,   \* the devices the provider has added and not removed, a sequence of all adds
    dpThread,      \* where update_thread_ is: "none", "loop", "fetched", "updated", "wait",
                   \* "done"
    dpList,        \* new_list of the thread
    dpCall,        \* the call GStreamer is in: "none", "stopping", "notified", "disposed"
    dpStarts, dpPlugs

dpVars == <<dpPlugged, dpRun, dpKnown, dpAnnounced, dpThread, dpList, dpCall, dpStarts, dpPlugs>>

(* the devices that are gone, and then the ones that are new *)
run_update_logic(list) ==
    /\ dpKnown' = list
    /\ dpAnnounced' = [d \in DpDevices |->
                         dpAnnounced[d] + (IF d \in list \ dpKnown THEN 1 ELSE 0)
                                        - (IF d \in dpKnown \ list THEN 1 ELSE 0)]

dpInit ==
    /\ dpPlugged \in SUBSET DpDevices
    /\ dpRun = FALSE /\ dpKnown = {} /\ dpAnnounced = [d \in DpDevices |-> 0]
    /\ dpThread = "none" /\ dpList = {} /\ dpCall = "none"
    /\ dpStarts = 0 /\ dpPlugs = 0

-----------------------------------------------------------------------------
(* tcam_mainsrc_device_provider_start: the mutex is held throughout *)
dpStart ==
    /\ dpCall = "none" /\ dpThread = "none" /\ dpStarts < MaxDpStarts
    /\ run_update_logic(dpPlugged)
    /\ dpRun' = TRUE /\ dpThread' = "loop"
    /\ dpStarts' = dpStarts + 1
    /\ UNCHANGED <<dpPlugged, dpList, dpCall, dpPlugs>>

(* tcam_mainsrc_device_provider_stop, and dispose of a provider that was not stopped; neither *)
(* takes the mutex, so that the thread may miss the notification                              *)
dpStop ==
    /\ dpCall = "none" /\ dpThread # "none"
    /\ dpRun' = FALSE /\ dpCall' = "stopping"
    /\ UNCHANGED <<dpPlugged, dpKnown, dpAnnounced, dpThread, dpList, dpStarts, dpPlugs>>

notify_all ==
    /\ dpCall = "stopping" /\ dpCall' = "notified"
    /\ dpThread' = IF dpThread = "wait" THEN "loop" ELSE dpThread
    /\ UNCHANGED <<dpPlugged, dpRun, dpKnown, dpAnnounced, dpList, dpStarts, dpPlugs>>

(* GstDeviceProvider forgets its devices when it has stopped *)
join ==
    /\ dpCall = "notified" /\ dpThread = "done"
    /\ dpThread' = "none" /\ dpKnown' = {} /\ dpAnnounced' = [d \in DpDevices |-> 0]
    /\ dpCall' \in {"none", "disposed"}
    /\ UNCHANGED <<dpPlugged, dpRun, dpList, dpStarts, dpPlugs>>

-----------------------------------------------------------------------------
(* update_device_list *)

(* mutant: the index is only asked when the provider starts *)
CheckWithoutIndex ==
    /\ dpThread = "loop" /\ dpThread' = IF dpRun THEN "fetched" ELSE "done"
    /\ UNCHANGED <<dpPlugged, dpRun, dpKnown, dpAnnounced, dpList, dpCall, dpStarts, dpPlugs>>

dpCheck ==
    /\ dpThread = "loop"
    /\ IF dpRun THEN dpThread' = "fetched" /\ dpList' = dpPlugged
       ELSE dpThread' = "done" /\ UNCHANGED dpList
    /\ UNCHANGED <<dpPlugged, dpRun, dpKnown, dpAnnounced, dpCall, dpStarts, dpPlugs>>

dpUpdate ==
    /\ dpThread = "fetched"
    /\ IF ~dpRun THEN dpThread' = "done" /\ UNCHANGED <<dpKnown, dpAnnounced>>
       ELSE dpThread' = "updated" /\ run_update_logic(dpList)
    /\ UNCHANGED <<dpPlugged, dpRun, dpList, dpCall, dpStarts, dpPlugs>>

(* the mutex is held since the check, which keeps stop out of neither step *)
dpWait ==
    /\ dpThread = "updated" /\ dpThread' = "wait"
    /\ UNCHANGED <<dpPlugged, dpRun, dpKnown, dpAnnounced, dpList, dpCall, dpStarts, dpPlugs>>

(* wait_for ends after two seconds at the latest *)
wait_for ==
    /\ dpThread = "wait" /\ dpThread' = "loop"
    /\ UNCHANGED <<dpPlugged, dpRun, dpKnown, dpAnnounced, dpList, dpCall, dpStarts, dpPlugs>>

dpPlug ==
    \E d \in DpDevices :
        /\ dpPlugs < MaxDpPlugs /\ dpPlugs' = dpPlugs + 1
        /\ dpPlugged' = IF d \in dpPlugged THEN dpPlugged \ {d} ELSE dpPlugged \cup {d}
        /\ UNCHANGED <<dpRun, dpKnown, dpAnnounced, dpThread, dpList, dpCall, dpStarts>>

dpThreadStep == dpCheck \/ dpUpdate \/ dpWait \/ wait_for
dpCallStep == notify_all \/ join
dpNext == dpStart \/ dpStop \/ dpCallStep \/ dpThreadStep \/ dpPlug

(* threads are scheduled, a wait ends, and a call that was begun goes on *)
dpFairness == WF_dpVars(dpThreadStep) /\ WF_dpVars(dpCallStep)

dpSpec == dpInit /\ [][dpNext]_dpVars /\ dpFairness

-----------------------------------------------------------------------------
(* Every device is announced exactly while it is known, never twice, over any sequence of     *)
(* updates, and a provider that has stopped knows none.                                        *)
AnnouncedOnce ==
    /\ \A d \in DpDevices : dpAnnounced[d] = IF d \in dpKnown THEN 1 ELSE 0
    /\ dpThread = "none" => dpKnown = {}

(* stop and dispose return, even when the notification comes before the thread waits.        *)
ProviderStopReturns == dpCall = "stopping" ~> dpThread = "none"

(* A camera that stays plugged in while the provider runs is announced.                      *)
PluggedIsAnnounced ==
    \A d \in DpDevices : []<>(dpRun /\ d \in dpPlugged => d \in dpKnown)

(* What the provider promises: nothing is announced twice, what is plugged in is announced,  *)
(* and stopping it returns.                                                                  *)
ProviderHolds == []AnnouncedOnce /\ ProviderStopReturns /\ PluggedIsAnnounced
==============================================================================
