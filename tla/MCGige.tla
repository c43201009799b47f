------------------------------- MODULE MCGige -------------------------------
(***************************************************************************)
(* A host's programs that deal with network cameras: the calls of the       *)
(* camera class, firmware uploads, and the commands of the tool.  They      *)
(* share nothing, so a behaviour has one of them active and the others at   *)
(* their end.                                                               *)
(***************************************************************************)
EXTENDS Gvcp, Firmware, GigeTool

-----------------------------------------------------------------------------
(* firmware files *)
Fw(k, s) == [kind |-> k, size |-> s, index |-> "ok", fpga |-> TRUE]
Package == Fw("package", "0xB000")
Item(f, s, l, o) ==
    [file |-> f, size |-> s, length |-> l, offset |-> o, lines |-> <<>>, data |-> 1, parsed |-> TRUE]
Flash(items) == [port |-> "flash", items |-> items]
Xo2(lines) == [port |-> "xo2", items |-> <<[Item("j", 1, -1, -1) EXCEPT !.lines = lines]>>]
Gige3(gs) == [manifest |-> TRUE, version |-> 1, manifestVersion |-> 1, ports |-> TRUE, model |-> TRUE,
              groups |-> gs]
Empty(item) == [item EXCEPT !.data = 0]

JedecFiles ==
    { <<"own", "L", "fuse", "fuse", "fuse", "star", "U", "E", "fuse", "blank", "done">>,
      <<"own", "fuse", "done">>, <<"other", "fuse", "fuse">>, <<"L", "fuse">>,
      <<"own", "fuse", "blank", "blank", "star", "U">>, <<"own", "fuse", "fuse", "done", "U">> }

MCUpgrades ==
    [type : {0, 1}, versionOk : BOOLEAN,
     file : {Fw(k, s) : k \in {"package", "fw"}, s \in {"0x10000", "0xB000"}}
              \cup {[Package EXCEPT !.index = "NoMatchFoundInPackage"], [Package EXCEPT !.fpga = FALSE]}]
    \cup [type : {9}, versionOk : {TRUE}, file : {Package}]
    \cup [type : {3}, versionOk : {TRUE},
          file : {Gige3(<<Flash(<<Item("a", s, -1, o)>>)>>) : s \in 1..9, o \in {0, 2, 4, 6}}
            \cup {Gige3(<<Flash(<<Item("a", 3, -1, 0), Item("a", 3, 2, 6)>>), Xo2(ls)>>) : ls \in JedecFiles}
            \cup {Gige3(<<Flash(<<Item("a", 3, -1, 0)>>), Flash(<<Empty(Item("", 0, n, 4))>>)>>) : n \in {-1, 2}}
            \cup {Gige3(<<Flash(<<Item("a", 3, -1, 0)>>), Flash(<<Item("a", 3, 5, 8)>>)>>)}
            \cup {Gige3(<<[port |-> "xo2", items |-> <<Empty(Item("", 0, -1, -1))>>]>>),
                  [Gige3(<<>>) EXCEPT !.manifestVersion = 2]}
            \cup {Gige3(<<>>), [Gige3(<<>>) EXCEPT !.model = FALSE], [Gige3(<<>>) EXCEPT !.manifest = FALSE],
                  Gige3(<<Flash(<<Item("a", 1, -1, -1)>>)>>)}]

-----------------------------------------------------------------------------
(* interfaces, cameras and command lines *)
Up == {"addr", "running", "inet", "broadcast"}
Iface(f, ip, m) == [flags |-> f, ip |-> ip, mask |-> m]
CamA == [mac |-> "A", serial |-> "1", name |-> "x", ip |-> "i1", addr |-> {2}, mask |-> {2}]
CamB == [mac |-> "B", serial |-> "2", name |-> "1", ip |-> "i2", addr |-> {0}, mask |-> {2}]

Commands ==
    {[cmd |-> c, ident |-> id, given |-> {"name", "mode", "yes"} \cup opt, ip |-> {0, 2}, mask |-> {2}] :
        c \in {"set", "rescue", "upload"}, id \in {"1", "x", "A", "i2", "none"}, opt \in {{"ip"}, {"mac"}}}
TwoInterfaces ==
    {[i \in Interfaces |-> CASE i = 1 -> Iface(Up, {2}, {2}) [] i = 2 -> Iface(f, {}, {2})
                             [] OTHER -> Iface(Up \cup {"loopback"}, {0}, {0})] : f \in {Up, Up \ {"running"}}}
AnyAnswers == {[i \in Interfaces |-> IF i = 3 THEN {} ELSE a[i]] : a \in [{1, 2} -> SUBSET {CamA, CamB}]}

SetCommands ==
    [cmd : {"set", "rescue"}, ident : {"1"}, given : {{"ip", "mode"}}, ip : Addresses, mask : Addresses]
AnyInterface ==
    {[i \in Interfaces |-> IF i = 1 THEN Iface(Up, ip, m) ELSE Iface({}, {}, {})] : ip, m \in Addresses}
OneAnswer == {[i \in Interfaces |-> IF i = 1 THEN {CamA} ELSE {}]}

-----------------------------------------------------------------------------
gvIdle ==
    /\ gvCmd = <<>> /\ gvCall = Destroyed /\ gvReq = NoReq /\ gvId = 1 /\ gvControlled = FALSE
    /\ gvBuf = {} /\ gvNet = {} /\ gvFaults = 0 /\ gvDone = {}
    /\ gvCam = [r \in {"ccp", "cfg", "hb"} |-> IF r = "hb" THEN {"old"} ELSE {}]
fwIdle ==
    /\ fwProg = <<>> /\ fwStatus = "Success" /\ fwJedec = Jedec0 /\ fwAt = 1
    /\ fwMem = [area \in {"flash"} |-> [a \in {0} |-> "old"]] /\ fwOpen = {}
    /\ fwXo2 = [loaded |-> [p \in 1..CfgPages |-> "old"]] /\ fwBuf = {} /\ fwEvents = {} /\ fwFaults = 0
gtIdle ==
    /\ gtRequest = [cmd |-> "none"] /\ gtIf = <<>> /\ gtAnswers = <<>> /\ gtLock = Free /\ gtCameras = <<>> /\ gtSent = {}
    /\ gtThread = [i \in Interfaces |-> [pc |-> "none", cam |-> NoCam]]
    /\ gtMain = [pc |-> "end", cam |-> NoCam, ret |-> 0]

Init ==
    \/ gvInit /\ fwIdle /\ gtIdle
    \/ gvIdle /\ fwInit /\ gtIdle
    \/ /\ gvIdle /\ fwIdle
       /\ \/ gtInit(Commands, TwoInterfaces, AnyAnswers)
          \/ gtInit(SetCommands, AnyInterface, OneAnswer)

vars == <<gvVars, fwVars, gtVars>>

HostStep(Protocol) ==
    \/ Protocol /\ UNCHANGED <<fwVars, gtVars>>
    \/ fwNext /\ UNCHANGED <<gvVars, gtVars>>
    \/ gtNext /\ UNCHANGED <<gvVars, fwVars>>

Ended == gvCall = Destroyed /\ fwEnded /\ gtMain.pc \in {"end", "thrown"}

Next == HostStep(gvNext) \/ (Ended /\ UNCHANGED vars)

(* the host's program goes on *)
Spec == Init /\ [][Next]_vars /\ WF_vars(HostStep(gvHost))

(* Calls, uploads and commands end, whatever is lost: the retry loops of    *)
(* Camera.cpp are bounded, a firmware upload goes on or gives up at each    *)
(* operation, and the tool joins all its discovery threads.                 *)
CallsEnd == <>Ended
=============================================================================
