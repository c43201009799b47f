---------------------------- MODULE GigeTracking ----------------------------
(***************************************************************************)
(* get_gige_device_list of aravis_utils.cpp: the list of network cameras is *)
(* smoothed.  A camera that a poll does not find is still reported until it *)
(* has been missing for lost_count_max polls.                               *)
(***************************************************************************)
EXTENDS Naturals, Sequences, FiniteSets, SequencesExt

CONSTANTS
    ScanOrder,        \* the devices, in the order in which a scan lists them
    Usb3,             \* the ones that are not network cameras
    lost_count_max,   \* 10
    MaxPolls          \* bound on the number of polls

ASSUME TrackingAssumption == lost_count_max \in Nat \ {0} /\ IsInjective(ScanOrder)

VARIABLES
    dev_life_tracking_list,   \* entries [dev, lost]
    gkReported,               \* what the last call returned
    gkMissing,                \* [device -> polls since a scan last found it]
    gkPolls

gkVars == <<dev_life_tracking_list, gkReported, gkMissing, gkPolls>>

AllDevices == ToSet(ScanOrder)

gkInit ==
    /\ dev_life_tracking_list = <<>> /\ gkReported = <<>>
    /\ gkMissing = [d \in AllDevices |-> 0]
    /\ gkPolls = 0

Tracks(list, d) == \E k \in DOMAIN list : list[k].dev = d

(* the first entry of every device that was found is reset *)
ResetKnown(list, found) ==
    [k \in DOMAIN list |->
        IF list[k].dev \in found /\ \A j \in 1..k - 1 : list[j].dev # list[k].dev
        THEN [list[k] EXCEPT !.lost = 0] ELSE list[k]]

(* Mutant: the count of a missing device is not stored.                     *)
CountEntryInCopy(entry, acc) ==
    IF entry.dev \in ToSet(acc.current) \cup Usb3
    THEN [acc EXCEPT !.list = Append(@, entry)]
    ELSE [list |-> Append(acc.list, entry),
          current |-> IF entry.lost + 1 < lost_count_max
                      THEN Append(acc.current, entry.dev) ELSE acc.current]

(* one entry of the loop over the known devices: what is not reported yet   *)
(* and no USB3 camera has been missing once more                            *)
CountEntry(entry, acc) ==
    IF entry.dev \in ToSet(acc.current) \cup Usb3
    THEN [acc EXCEPT !.list = Append(@, entry)]
    ELSE [list |-> Append(acc.list, [entry EXCEPT !.lost = @ + 1]),
          current |-> IF entry.lost + 1 < lost_count_max
                      THEN Append(acc.current, entry.dev) ELSE acc.current]

CountLost(list, current) ==
    FoldLeft(LAMBDA acc, e : CountEntry(e, acc), [list |-> <<>>, current |-> current], list)

(* std::remove_if: the entries to keep move to the front; nothing is erased *)
remove_if(list) ==
    LET kept == SelectSeq(list, LAMBDA e : e.lost < lost_count_max)
    IN kept \o SubSeq(list, Len(kept) + 1, Len(list))

get_gige_device_list(found) ==
    LET scan == SelectSeq(ScanOrder, LAMBDA d : d \in found)
        to_add == SelectSeq(scan, LAMBDA d : ~Tracks(dev_life_tracking_list, d))
        counted == CountLost(ResetKnown(dev_life_tracking_list, found), scan)
    IN
    /\ gkPolls < MaxPolls
    /\ gkReported' = counted.current
    /\ dev_life_tracking_list' =
         remove_if(counted.list \o [k \in DOMAIN to_add |-> [dev |-> to_add[k], lost |-> 0]])
    /\ gkMissing' = [d \in AllDevices |-> IF d \in found THEN 0 ELSE gkMissing[d] + 1]
    /\ gkPolls' = gkPolls + 1

gkNext == \E found \in SUBSET AllDevices : get_gige_device_list(found)

-----------------------------------------------------------------------------
(* No camera is reported twice, although the list of entries may hold it    *)
(* several times.                                                           *)
ReportedOnce == IsInjective(gkReported)

(* A network camera that was found before and is missing for fewer than     *)
(* lost_count_max polls is still reported: its count starts again whenever  *)
(* it is found, also after entries have been shifted by remove_if.          *)
BriefLossIsHidden ==
    \A d \in AllDevices \ Usb3 :
        gkMissing[d] < gkPolls /\ gkMissing[d] < lost_count_max => d \in ToSet(gkReported)

(* A camera that stays away is no longer reported once every entry of the   *)
(* list could have counted lost_count_max polls for it.                     *)
LongLossIsReported ==
    \A d \in ToSet(gkReported) :
        gkMissing[d] < lost_count_max * Len(dev_life_tracking_list)

(* The list of network cameras is smoothed: no camera twice, a short loss   *)
(* hidden, a long one shown, although remove_if leaves copies of entries.   *)
TrackingHolds == ReportedOnce /\ BriefLossIsHidden /\ LongLossIsReported
=============================================================================
