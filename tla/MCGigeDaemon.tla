---------------------------- MODULE MCGigeDaemon ----------------------------
(***************************************************************************)
(* Three daemons that are never stopped, two that are, one with a reader of *)
(* its list, and the tracking of the devices that are read.                 *)
(***************************************************************************)
EXTENDS GigeDaemon, GigeTracking

VARIABLE mcStops    \* a stop command may be given

MCScanOrder == <<"a", "b", "u">>

gkIdle ==
    /\ dev_life_tracking_list = <<>> /\ gkReported = <<>> /\ gkPolls = MaxPolls
    /\ gkMissing = [d \in AllDevices |-> MaxPolls]

Init ==
    \/ gdInit({}) /\ gkInit /\ mcStops = FALSE
    \/ gdInit({"d1", "d2", "d3"}) /\ gkIdle /\ mcStops = FALSE
    \/ (gdInit({"d1", "d2"}) \/ gdInit({"d1", "r1"})) /\ gkIdle /\ mcStops = TRUE

vars == <<gdVars, gkVars, mcStops>>

Next ==
    \/ gdNext /\ (~mcStops => gdEvents' \cap {"stop"} = {}) /\ UNCHANGED <<gkVars, mcStops>>
    \/ gkNext /\ UNCHANGED <<gdVars, mcStops>>

Spec == Init /\ [][Next]_vars /\ gdFairness
=============================================================================
