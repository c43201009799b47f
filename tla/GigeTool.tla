------------------------------ MODULE GigeTool ------------------------------
(***************************************************************************)
(* One command of tcam-gigetool: discovery of the cameras with one thread   *)
(* per network interface (CameraDiscovery.cpp), the choice of the camera by *)
(* its identifier, and what the command then sends.  Addresses are sets of  *)
(* bit positions, so that & is \cap and ~ the complement.                   *)
(***************************************************************************)
EXTENDS Naturals, Sequences, FiniteSets, SequencesExt, FiniteSetsExt

CONSTANTS
    Interfaces,   \* network interfaces, numbered as getifaddrs lists them
    Bits          \* width of an address (32)

ASSUME InterfacesAssumption == Interfaces \subseteq Nat \ {0} /\ Bits \in Nat \ {0}

VARIABLES
    gtRequest,    \* the command line: [cmd, ident, given, ip, mask]
    gtIf,         \* [interface -> [flags, ip, mask]]
    gtAnswers,    \* [interface -> answers that have still to arrive]
    gtThread,     \* [interface -> thread: pc, cam]
    gtLock,       \* interface whose thread holds cam_lock
    gtCameras,    \* cameras: list of [cam, via]
    gtMain,       \* main thread
    gtSent        \* what was sent to which camera

gtVars == <<gtRequest, gtIf, gtAnswers, gtThread, gtLock, gtCameras, gtMain, gtSent>>

Free == 0
NoCam == [mac |-> "", serial |-> "", name |-> "", ip |-> "", addr |-> {}, mask |-> {}]
Addresses == SUBSET (0..Bits - 1)
Not(a) == (0..Bits - 1) \ a
Number(a) == FoldSet(LAMBDA b, sum : sum + 2^b, 0, a)

(* detectNetworkInterfaces: running, IPv4, neither loopback nor point to    *)
(* point, able to broadcast                                                 *)
detectNetworkInterfaces ==
    {i \in Interfaces : {"addr", "running", "inet", "broadcast"} \subseteq gtIf[i].flags
                        /\ gtIf[i].flags \cap {"loopback", "pointopoint"} = {}}

gtInit(requests, ifs, answers) ==
    /\ gtRequest \in requests
    /\ gtIf \in ifs
    /\ gtAnswers \in answers
    /\ gtThread = [i \in Interfaces |-> [pc |-> "none", cam |-> NoCam]]
    /\ gtLock = Free /\ gtCameras = <<>> /\ gtSent = {}
    /\ gtMain = [pc |-> "start", cam |-> NoCam, ret |-> 0]

-----------------------------------------------------------------------------
(* discoverCameras: one thread per interface, all joined *)
discoverCameras ==
    /\ gtMain.pc = "start"
    /\ gtThread' = [i \in Interfaces |->
                      IF i \in detectNetworkInterfaces THEN [pc |-> "receive", cam |-> NoCam] ELSE gtThread[i]]
    /\ gtMain' = [gtMain EXCEPT !.pc = "join"]
    /\ UNCHANGED <<gtRequest, gtIf, gtAnswers, gtLock, gtCameras, gtSent>>

(* sendDiscovery: an answer arrives, or none for the time of the timeout *)
sendDiscovery(i) ==
    /\ gtThread[i].pc = "receive"
    /\ \/ \E c \in gtAnswers[i] :
            /\ gtThread' = [gtThread EXCEPT ![i] = [pc |-> "lock", cam |-> c]]
            /\ gtAnswers' = [gtAnswers EXCEPT ![i] = @ \ {c}]
       \/ /\ gtAnswers[i] = {}
          /\ gtThread' = [gtThread EXCEPT ![i].pc = "done"]
          /\ UNCHANGED gtAnswers
    /\ UNCHANGED <<gtRequest, gtIf, gtLock, gtCameras, gtMain, gtSent>>

(* Mutant: cam_lock is not taken.                                           *)
LockCamerasNot(i) ==
    /\ gtThread[i].pc = "lock"
    /\ gtThread' = [gtThread EXCEPT ![i].pc = "check"]
    /\ UNCHANGED <<gtRequest, gtIf, gtAnswers, gtLock, gtCameras, gtMain, gtSent>>

(* the callback of get_camera_list: under cam_lock, *)
LockCameras(i) ==
    /\ gtThread[i].pc = "lock" /\ gtLock = Free
    /\ gtLock' = i
    /\ gtThread' = [gtThread EXCEPT ![i].pc = "check"]
    /\ UNCHANGED <<gtRequest, gtIf, gtAnswers, gtCameras, gtMain, gtSent>>

(* a camera that is known already is dropped, *)
CheckKnown(i) ==
    /\ gtThread[i].pc = "check"
    /\ LET known == \E k \in DOMAIN gtCameras : gtCameras[k].cam.mac = gtThread[i].cam.mac IN
         /\ gtThread' = [gtThread EXCEPT ![i].pc = IF known THEN "receive" ELSE "push"]
         /\ gtLock' = IF known THEN Free ELSE gtLock
    /\ UNCHANGED <<gtRequest, gtIf, gtAnswers, gtCameras, gtMain, gtSent>>

(* and another one is added *)
PushCamera(i) ==
    /\ gtThread[i].pc = "push"
    /\ gtCameras' = Append(gtCameras, [cam |-> gtThread[i].cam, via |-> i])
    /\ gtLock' = Free
    /\ gtThread' = [gtThread EXCEPT ![i].pc = "receive"]
    /\ UNCHANGED <<gtRequest, gtIf, gtAnswers, gtMain, gtSent>>

(* getCameraFromList: the first camera with that serial, name, MAC or IP *)
getCameraFromList(id, field) ==
    SelectSeq(gtCameras, LAMBDA c : c.cam[field] = id)

(* findCamera, after the threads are joined; without any camera it throws *)
findCamera ==
    /\ gtMain.pc = "join"
    /\ \A i \in Interfaces : gtThread[i].pc \in {"none", "done"}
    /\ LET found == FlattenSeq([k \in 1..4 |->
                      getCameraFromList(gtRequest.ident, <<"serial", "name", "mac", "ip">>[k])])
       IN gtMain' = CASE gtCameras = <<>> -> [gtMain EXCEPT !.pc = "thrown"]
                      [] gtCameras # <<>> /\ found = <<>> -> [gtMain EXCEPT !.pc = "missing"]
                      [] OTHER -> [gtMain EXCEPT !.pc = "found", !.cam = found[1]]
    /\ UNCHANGED <<gtRequest, gtIf, gtAnswers, gtThread, gtLock, gtCameras, gtSent>>

-----------------------------------------------------------------------------
(* findNetworkInterfaceForAddress: the interfaces of the address's network; *)
(* the first one is taken                                                   *)
findNetworkInterfaceForAddress(ip) ==
    {i \in detectNetworkInterfaces : gtIf[i].mask \cap ip = gtIf[i].mask \cap gtIf[i].ip}

(* __builtin_popcount(~subnet + 1) == 1 *)
IsPowerOfTwo(n) == \E b \in 0..Bits - 1 : n = 2^b
MaskIsContiguous(mask) == IsPowerOfTwo((Number(Not(mask)) + 1) % 2^Bits)

verifySettings(ip, mask) ==
    /\ findNetworkInterfaceForAddress(ip) # {}
    /\ LET i == Min(findNetworkInterfaceForAddress(ip)) IN
        /\ gtIf[i].mask = mask
        /\ MaskIsContiguous(mask)
        /\ ip \cap Not(mask) # {}
        /\ ip \cap Not(mask) # Not(mask)

isReachable(c) ==
    gtIf[c.via].ip \cap gtIf[c.via].mask = c.cam.addr \cap c.cam.mask

Return(n) == gtMain' = [gtMain EXCEPT !.pc = "end", !.ret = n]

(* set_camera_options: the name is written first; addresses are written if *)
(* they are given and accepted, and only then the IP mode                   *)
SetOptions ==
    LET to(what) == [to |-> gtMain.cam.cam.mac, what |-> what]
        named == IF "name" \in gtRequest.given THEN {to("name")} ELSE {}
        mode == IF "mode" \in gtRequest.given THEN {to("mode")} ELSE {}
    IN
    /\ gtRequest.cmd = "set" /\ gtMain.pc = "found"
    /\ \/ "ip" \notin gtRequest.given /\ gtSent' = named /\ Return(0)
       \/ /\ "ip" \in gtRequest.given
          /\ IF verifySettings(gtRequest.ip, gtRequest.mask)
             THEN gtSent' = named \cup {to("persistent")} \cup mode /\ Return(0)
             ELSE gtSent' = named /\ Return(1)
    /\ UNCHANGED <<gtRequest, gtIf, gtAnswers, gtThread, gtLock, gtCameras>>

(* execute_rescue: the test is for the option --yes, not for its value, and *)
(* the option always exists: refused settings are sent ("unverified")       *)
(* without the question.  An unknown identifier may be a MAC address.       *)
Rescue ==
    /\ gtRequest.cmd = "rescue" /\ gtMain.pc \in {"found", "missing"}
    /\ IF gtMain.pc = "missing" /\ "mac" \notin gtRequest.given
       THEN UNCHANGED gtSent /\ Return(1)
       ELSE /\ gtSent' = {[to |-> IF gtMain.pc = "found" THEN gtMain.cam.cam.mac ELSE gtRequest.ident,
                           what |-> IF verifySettings(gtRequest.ip, gtRequest.mask)
                                    THEN "forceip" ELSE "unverified"]}
            /\ Return(0)
    /\ UNCHANGED <<gtRequest, gtIf, gtAnswers, gtThread, gtLock, gtCameras>>

(* execute_upload: only to a camera that can be reached over the interface  *)
(* it was found on, and if the user agrees                                  *)
Upload ==
    /\ gtRequest.cmd = "upload" /\ gtMain.pc = "found"
    /\ \/ ~isReachable(gtMain.cam) /\ UNCHANGED gtSent /\ Return(1)
       \/ isReachable(gtMain.cam) /\ "yes" \notin gtRequest.given /\ UNCHANGED gtSent /\ Return(2)
       \/ /\ isReachable(gtMain.cam)
          /\ gtSent' = {[to |-> gtMain.cam.cam.mac, what |-> "firmware"]}
          /\ Return(0)
    /\ UNCHANGED <<gtRequest, gtIf, gtAnswers, gtThread, gtLock, gtCameras>>

(* the commands that need a camera end without one *)
gtMissing ==
    /\ gtMain.pc = "missing" /\ gtRequest.cmd # "rescue"
    /\ Return(1)
    /\ UNCHANGED <<gtRequest, gtIf, gtAnswers, gtThread, gtLock, gtCameras, gtSent>>

gtDiscovery(i) == sendDiscovery(i) \/ LockCameras(i) \/ CheckKnown(i) \/ PushCamera(i)
gtMainThread ==
    discoverCameras \/ findCamera \/ SetOptions \/ Rescue \/ Upload \/ gtMissing
gtNext == gtMainThread \/ \E i \in Interfaces : gtDiscovery(i)

-----------------------------------------------------------------------------
gtTypeOK ==
    /\ gtLock # Free => gtThread[gtLock].pc \in {"check", "push"}
    /\ \A i \in Interfaces : gtThread[i].pc \in {"none", "receive", "lock", "check", "push", "done"}
    /\ gtMain.pc \in {"start", "join", "found", "missing", "thrown", "end"}
    /\ \A k \in DOMAIN gtCameras : gtCameras[k].via \in Interfaces

(* Firmware goes only to a camera that the identifier names and that was   *)
(* found over an interface of its own network.                              *)
UploadReaches ==
    \A s \in gtSent : s.what = "firmware" =>
        \E k \in DOMAIN gtCameras :
            /\ gtCameras[k].cam.mac = s.to /\ isReachable(gtCameras[k])
            /\ gtRequest.ident \in {gtCameras[k].cam[f] : f \in {"serial", "name", "mac", "ip"}}

(* A camera that answers over several interfaces is listed once, although   *)
(* the threads of the interfaces check and add concurrently.                *)
ListedOnce ==
    \A j, k \in DOMAIN gtCameras : gtCameras[j].cam.mac = gtCameras[k].cam.mac => j = k

(* Whatever order the answers come in, a camera whose serial number is the  *)
(* identifier is the one that is found, even if another one has that name.  *)
SerialWins ==
    gtMain.pc = "found" =>
        ((\E k \in DOMAIN gtCameras : gtCameras[k].cam.serial = gtRequest.ident) =>
            gtMain.cam.cam.serial = gtRequest.ident)

(* Settings that verifySettings accepts, persistent or temporary, leave a   *)
(* camera the host can talk to: a mask of leading ones that some interface  *)
(* has, and an address of its network that is neither the network nor the   *)
(* broadcast.  The IP mode is written only along with such settings.        *)
(* Refused settings are written by no command but rescue, which sends them  *)
(* although neither --yes nor an answer allowed it.                         *)
SetIsUsable ==
    /\ \A s \in gtSent : s.what = "unverified" => gtRequest.cmd = "rescue"
    /\ (\E s \in gtSent : s.what \in {"persistent", "mode", "forceip"}) =>
        \E n \in 1..Bits - 1 :
            LET net == n..Bits - 1 IN
            /\ gtRequest.mask = net
            /\ Number(gtRequest.ip \ net) \in 1..2^n - 2
            /\ \E i \in detectNetworkInterfaces :
                 gtIf[i].mask = net /\ gtIf[i].ip \cap net = gtRequest.ip \cap net

(* What the commands of the tool promise whatever order the discovery       *)
(* threads run in: one entry per camera, the camera that was asked for,     *)
(* firmware only for a camera that is reachable, and, except by rescue,     *)
(* settings only if the camera stays so.                                    *)
CommandsHold == gtTypeOK /\ ListedOnce /\ SerialWins /\ UploadReaches /\ SetIsUsable
=============================================================================
