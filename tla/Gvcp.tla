-------------------------------- MODULE Gvcp --------------------------------
(***************************************************************************)
(* The control protocol between one Camera object (tcam-network/Camera.cpp) *)
(* and the camera behind it.  Every call of the class is a short program    *)
(* of register requests; a request is a UDP packet with an id that is sent  *)
(* again after a timeout (PACKET_RETRY_COUNT), and its answer may be lost   *)
(* or arrive late, when another request is pending.                         *)
(***************************************************************************)
EXTENDS Naturals, Sequences, FiniteSets

CONSTANTS
    Retries,      \* PACKET_RETRY_COUNT (5 in Camera.h)
    IdSpace,      \* request ids are unsigned shorts (2^16)
    MaxFaults     \* bound: late packets, sends that fail, expired heartbeats

ASSUME RetriesAssumption == Retries \in Nat \ {0}
ASSUME IdSpaceAssumption == IdSpace \in Nat /\ IdSpace > 1

VARIABLES
    gvCmd,        \* calls of the program that are still to be made
    gvCall,       \* the running call, the end of its program is reached at step 0
    gvReq,        \* the request being made, NoReq between requests
    gvId,         \* requestID
    gvControlled, \* isControlled
    gvBuf,        \* the IP modes read by isDHCPactive and isStaticIPactive
    gvNet,        \* requests and answers that are on their way
    gvCam,        \* registers of the camera
    gvFaults,     \* number of faults so far
    gvDone        \* ids the camera has carried out since the request was made

gvVars == <<gvCmd, gvCall, gvReq, gvId, gvControlled, gvBuf, gvNet, gvCam, gvFaults, gvDone>>

NoReq == [st |-> "none"]
Returned == [steps |-> <<>>, at |-> 0]
Destroyed == [steps |-> <<>>, at |-> 1]

-----------------------------------------------------------------------------
(* The calls: sequences of requests, each with the step that follows its    *)
(* success and its failure; step 0 is the end of the call.  The contents of *)
(* a register are a set: its value, the active IP modes, or the application *)
(* in control.  A write sets it to the elements of set and those of keep    *)
(* that were read before; a read that fails reads nothing.                  *)

Step(op, reg, set, keep, ok, fail) ==
    [op |-> op, reg |-> reg, set |-> set, keep |-> keep, ok |-> ok, fail |-> fail]
sendReadRegister(reg, ok, fail) == Step("read", reg, {}, {}, ok, fail)
sendReadMemory(reg, ok, fail) == Step("read", reg, {}, {}, ok, fail)
sendWriteRegister(reg, set, keep, ok, fail) == Step("write", reg, set, keep, ok, fail)
sendWriteMemory(reg, set, ok, fail) == Step("write", reg, set, {}, ok, fail)
getControl(ok, fail) == Step("control", "ccp", {"me"}, {}, ok, fail)
abandonControl(next) == Step("abandon", "ccp", {}, {}, next, next)

Setter(reg, set) == <<getControl(2, 0), sendWriteRegister(reg, set, {}, 3, 3), abandonControl(0)>>

setUserDefinedName == <<getControl(2, 0), sendWriteMemory("name", {"new"}, 0, 0)>>

setStaticIPstate(on) ==
    <<getControl(2, 0), sendReadRegister("cfg", 3, 3),
      sendWriteRegister("cfg", IF on THEN {"static"} ELSE {}, {"dhcp"}, 4, 4), abandonControl(0)>>

setDHCPstate(on) ==
    <<getControl(2, 0), sendReadRegister("cfg", 3, 3),
      sendWriteRegister("cfg", IF on THEN {"dhcp"} ELSE {}, {"static"}, 4, 4), abandonControl(0)>>

setIPconfigState(modes) == Setter("cfg", modes)

setPersistentIP == Setter("ip", {"new"})
setPersistentSubnet == Setter("subnet", {"new"})
setPersistentGateway == Setter("gateway", {"new"})

isDHCPactive == <<sendReadRegister("cfg", 0, 0)>>
isStaticIPactive == <<sendReadRegister("cfg", 0, 0)>>
getPersistentIP == <<sendReadRegister("ip", 0, 0)>>
getPersistentSubnet == <<sendReadRegister("subnet", 0, 0)>>
getPersistentGateway == <<sendReadRegister("gateway", 0, 0)>>

(* the privilege is tried out and given back, unless it is ours already *)
getIsBusy == <<Step("try", "ccp", {"me"}, {}, 2, 0), abandonControl(0)>>

(* abandonControl and a FORCEIP broadcast that nobody answers *)
resetIP == <<abandonControl(2), Step("force", "ip", {}, {}, 0, 0)>>

getHeartbeatTimeout(ok, fail) == sendReadRegister("hb", ok, fail)
setHeartbeatTimeout(time, ok, fail) == sendWriteRegister("hb", time, {}, ok, fail)

(* the heartbeat is made longer for the upload and set back after it; the   *)
(* upgrade (module Firmware) is one read and one write here                 *)
uploadFirmware ==
    <<getControl(2, 0), getHeartbeatTimeout(3, 7), setHeartbeatTimeout({"long"}, 4, 7),
      sendReadMemory("flash", 5, 6), sendWriteMemory("flash", {"new"}, 6, 6),
      setHeartbeatTimeout({"old"}, 7, 7), abandonControl(0)>>

(* the destructor *)
destroy == <<abandonControl(0)>>

-----------------------------------------------------------------------------
(* The commands of tcam-gigetool that make these calls *)

print_camera_information ==
    <<isDHCPactive, isStaticIPactive, getPersistentIP, getPersistentSubnet, getPersistentGateway>>

set_camera_options(name, modes) ==
    (IF name THEN <<setUserDefinedName>> ELSE <<>>)
      \o <<setPersistentIP, setPersistentSubnet, setPersistentGateway>>
      \o <<setIPconfigState(modes)>>

execute_check_control ==
    << <<Step("try", "ccp", {"me"}, {}, 2, 3), abandonControl(0), sendReadRegister("ccp", 4, 0),
         sendReadRegister("ccp", 5, 0), getHeartbeatTimeout(0, 0)>> >>

execute_upload == <<uploadFirmware>>

(* uses of the class without the tool *)
ModeChange == <<setStaticIPstate(TRUE), setDHCPstate(FALSE), resetIP>>
BusyThenName == <<getIsBusy, setUserDefinedName>>

Programs ==
    {print_camera_information, execute_check_control, execute_upload, BusyThenName, ModeChange,
     set_camera_options(TRUE, {"static"})}

-----------------------------------------------------------------------------
gvInit ==
    /\ gvCmd \in Programs
    /\ gvCall = Returned /\ gvReq = NoReq /\ gvId = 1
    /\ gvControlled = FALSE /\ gvBuf = {} /\ gvNet = {}
    /\ gvCam \in [ccp : {{}, {"other"}}, cfg : {{"dhcp", "static"}},
                  ip : {{"old"}}, subnet : {{"old"}}, gateway : {{"old"}},
                  name : {{"old"}}, hb : {{"old"}}, flash : {{"old"}}]
    /\ gvFaults = 0 /\ gvDone = {}

Now == gvCall.steps[gvCall.at]
Go(n) == gvCall' = CASE n # 0 -> [gvCall EXCEPT !.at = n]
                     [] n = 0 /\ gvCall.steps = destroy -> Destroyed
                     [] OTHER -> Returned

(* generateRequestID: the next id, never 0 *)
NextId(i) == IF (i + 1) % IdSpace = 0 THEN 1 ELSE (i + 1) % IdSpace

(* the next call of the program; the destructor gives up the privilege *)
gvBegin ==
    /\ gvCall = Returned
    /\ IF gvCmd # <<>>
       THEN /\ gvCall' = [steps |-> Head(gvCmd), at |-> 1]
            /\ gvCmd' = Tail(gvCmd)
       ELSE /\ gvCall' = IF gvControlled THEN [steps |-> destroy, at |-> 1] ELSE Destroyed
            /\ UNCHANGED gvCmd
    /\ UNCHANGED <<gvReq, gvId, gvControlled, gvBuf, gvNet, gvCam, gvFaults, gvDone>>

(* getControl and getIsBusy return at once when isControlled is set *)
gvSkip ==
    /\ gvCall.steps # <<>> /\ gvReq = NoReq
    /\ Now.op \in {"control", "try"} /\ gvControlled
    /\ Go(IF Now.op = "try" THEN 0 ELSE Now.ok)
    /\ UNCHANGED <<gvCmd, gvReq, gvId, gvControlled, gvBuf, gvNet, gvCam, gvFaults, gvDone>>

(* sendForceIP: a broadcast without a callback *)
gvForce ==
    /\ gvCall.steps # <<>> /\ gvReq = NoReq
    /\ Now.op = "force"
    /\ gvId' = NextId(gvId)
    /\ Go(0)
    /\ UNCHANGED <<gvCmd, gvReq, gvControlled, gvBuf, gvNet, gvCam, gvFaults, gvDone>>

Value(s) == s.set \cup (gvBuf \cap s.keep)

(* sendWriteRegister, sendReadRegister, sendReadMemory, sendWriteMemory up  *)
(* to the retry loop                                                        *)
gvRequest ==
    /\ gvCall.steps # <<>> /\ gvReq = NoReq
    /\ Now.op \in {"read", "write", "abandon"} \/ (Now.op \in {"control", "try"} /\ ~gvControlled)
    /\ gvId' = NextId(gvId)
    /\ gvReq' = [st |-> "send", id |-> gvId', left |-> Retries, response |-> "TIMEOUT", val |-> {},
                 heard |-> {}, threw |-> FALSE]
    /\ gvDone' = {}
    /\ UNCHANGED <<gvCmd, gvCall, gvControlled, gvBuf, gvNet, gvCam, gvFaults>>

Packet(dir, id, s) ==
    [dir |-> dir, id |-> id, n |-> gvReq.left, op |-> s.op, reg |-> s.reg, val |-> Value(s), status |-> "any"]

(* sendAndReceive: the packet is sent and the answer awaited; sendto may    *)
(* fail, and the exception ends the retry loop                              *)
gvSend ==
    /\ gvReq.st = "send"
    /\ \/ /\ gvReq' = [gvReq EXCEPT !.st = "wait"]
          /\ gvNet' = gvNet \cup {Packet("request", gvReq.id, Now)}
          /\ UNCHANGED gvFaults
       \/ /\ gvFaults < MaxFaults
          /\ gvFaults' = gvFaults + 1
          /\ gvReq' = [gvReq EXCEPT !.st = "done", !.threw = TRUE]
          /\ UNCHANGED gvNet
    /\ UNCHANGED <<gvCmd, gvCall, gvId, gvControlled, gvBuf, gvCam, gvDone>>

(* Mutant: the id of the answer is not looked at.                           *)
gvReceiveAny ==
    /\ gvReq.st = "wait"
    /\ \E p \in gvNet :
         /\ p.dir = "answer"
         /\ gvNet' = gvNet \ {p}
         /\ gvReq' = [gvReq EXCEPT !.st = "done", !.response = p.status, !.val = p.val]
    /\ UNCHANGED <<gvCmd, gvCall, gvId, gvControlled, gvBuf, gvCam, gvFaults, gvDone>>

(* the callback: any packet sets the response to FAILURE, the one with the  *)
(* id of the request to its status, which ends the waiting                  *)
gvReceive ==
    /\ gvReq.st = "wait"
    /\ \E p \in gvNet :
         /\ p.dir = "answer"
         /\ gvNet' = gvNet \ {p}
         /\ gvReq' = IF p.id = gvReq.id
                     THEN [gvReq EXCEPT !.st = "done", !.response = p.status, !.val = p.val]
                     ELSE [gvReq EXCEPT !.response = "FAILURE", !.heard = @ \cup {p.id}]
    /\ UNCHANGED <<gvCmd, gvCall, gvId, gvControlled, gvBuf, gvCam, gvFaults, gvDone>>

(* Mutant: the retries are not counted.                                     *)
gvTimeoutEndless ==
    /\ gvReq.st = "wait"
    /\ gvNet' = {p \in gvNet : p.id # gvReq.id}
    /\ gvReq' = [gvReq EXCEPT !.st = IF gvReq.response = "TIMEOUT" THEN "send" ELSE "done"]
    /\ UNCHANGED <<gvCmd, gvCall, gvId, gvControlled, gvBuf, gvCam, gvDone, gvFaults>>

(* select returns without a packet: the loop goes on while the response is  *)
(* TIMEOUT and retries are left.  What this request has on its way by then  *)
(* is lost, or late: late packets stay, up to MaxFaults of them.            *)
gvTimeout ==
    /\ gvReq.st = "wait"
    /\ LET own == {p \in gvNet : p.id = gvReq.id} IN
         \/ /\ gvFaults' = IF own # {} THEN MaxFaults ELSE gvFaults
            /\ gvNet' = gvNet \ own
         \/ /\ own # {} /\ gvFaults < MaxFaults
            /\ gvFaults' = gvFaults + 1
            /\ UNCHANGED gvNet
    /\ gvReq' = [gvReq EXCEPT
                   !.left = gvReq.left - 1,
                   !.st = IF gvReq.left > 1 /\ gvReq.response = "TIMEOUT" THEN "send" ELSE "done"]
    /\ UNCHANGED <<gvCmd, gvCall, gvId, gvControlled, gvBuf, gvCam, gvDone>>

(* the request returns to the call that made it *)
gvReturn ==
    /\ gvReq.st = "done"
    /\ LET ok == gvReq.response = "SUCCESS" IN
         /\ gvControlled' = CASE Now.op \in {"control", "try"} /\ ok -> TRUE
                              [] Now.op = "abandon" /\ ok -> FALSE
                              [] OTHER -> gvControlled
         /\ gvBuf' = IF Now.op = "read" /\ Now.reg = "cfg"
                     THEN (IF ok THEN gvReq.val ELSE {}) ELSE gvBuf
         /\ Go(IF ok THEN Now.ok ELSE Now.fail)
    /\ gvReq' = NoReq
    /\ UNCHANGED <<gvCmd, gvId, gvNet, gvCam, gvFaults, gvDone>>

-----------------------------------------------------------------------------
(* The camera and the network (external) *)

(* registers are written by whoever has the control privilege, which is     *)
(* granted when nobody else has it                                          *)
Granted(p) ==
    \/ p.op = "read"
    \/ p.op \in {"control", "try"} /\ gvCam.ccp # {"other"}
    \/ p.op \in {"write", "abandon"} /\ gvCam.ccp = {"me"}

gvCamera ==
    /\ \E p \in gvNet :
         /\ p.dir = "request"
         /\ gvCam' = IF p.op # "read" /\ Granted(p) THEN [gvCam EXCEPT ![p.reg] = p.val] ELSE gvCam
         /\ gvNet' = (gvNet \ {p}) \cup
              {[p EXCEPT !.dir = "answer",
                         !.val = IF p.op = "read" THEN gvCam[p.reg] ELSE p.val,
                         !.status = IF Granted(p) THEN "SUCCESS" ELSE "ACCESS_DENIED"]}
         /\ gvDone' = IF Granted(p) THEN gvDone \cup {p.id} ELSE gvDone
    /\ UNCHANGED <<gvCmd, gvCall, gvReq, gvId, gvControlled, gvBuf, gvFaults>>

(* the camera gives up a controller it has not heard of for its heartbeat *)
gvHeartbeat ==
    /\ gvCam.ccp = {"me"}
    /\ gvFaults < MaxFaults
    /\ gvFaults' = gvFaults + 1
    /\ gvCam' = [gvCam EXCEPT !.ccp = {}]
    /\ UNCHANGED <<gvCmd, gvCall, gvReq, gvId, gvControlled, gvBuf, gvNet, gvDone>>

gvHost == gvBegin \/ gvSkip \/ gvForce \/ gvRequest \/ gvSend \/ gvReceive \/ gvTimeout \/ gvReturn
gvEnvironment == gvCamera \/ gvHeartbeat
gvNext == gvHost \/ gvEnvironment
gvSpec == gvInit /\ [][gvNext]_gvVars /\ WF_gvVars(gvHost)

-----------------------------------------------------------------------------
gvTypeOK ==
    /\ gvId \in 1..IdSpace
    /\ gvControlled \in BOOLEAN
    /\ gvBuf \subseteq {"dhcp", "static"}
    /\ gvFaults \in 0..MaxFaults
    /\ gvReq = NoReq \/ gvReq.left \in 0..Retries
    /\ gvCall.at \in 0..Len(gvCall.steps) + 1

(* A request that returns success was carried out by the camera: an answer  *)
(* to an earlier request that arrives late is never taken for its answer    *)
(* (the id test of the callbacks in Camera.cpp).                            *)
AnswerIsOwn == gvReq.st = "done" => (gvReq.response = "SUCCESS" => gvReq.id \in gvDone)

(* A request that ends unanswered has been sent as often as its retries     *)
(* allow, with two exceptions: a send that throws, and a late answer to an  *)
(* earlier request, which sets the response to FAILURE and so ends the      *)
(* repetition after the running wait, with retries left (the assignment     *)
(* before the id test in the callbacks of sendWriteRegister and its         *)
(* siblings).  Late answers to its own repetitions never do that.           *)
GivenUpEarlyOnlyFor ==
    gvReq.st = "done" =>
        \/ gvReq.response \in {"SUCCESS", "ACCESS_DENIED"} /\ gvReq.left > 0
        \/ gvReq.response = "TIMEOUT" /\ (gvReq.left = 0 \/ gvReq.threw)
        \/ gvReq.response = "FAILURE" /\ gvReq.heard # {} /\ gvReq.id \notin gvReq.heard

(* Whatever calls a program makes, when no packet is lost or late the       *)
(* camera is left without a controlling application and with the heartbeat  *)
(* it had (abandonControl in the setters, in uploadFirmware and in the      *)
(* destructor).                                                             *)
LeavesNoTrace ==
    gvCall = Destroyed /\ gvFaults = 0 => gvCam.ccp # {"me"} /\ gvCam.hb = {"old"}

(* What the calls of the camera class promise over a network that loses and *)
(* delays packets: an answer is the answer to its own request, an           *)
(* unanswered request is repeated unless a stray answer or an exception     *)
(* ends it, and without faults the camera is left as it was found.          *)
CallsHold == gvTypeOK /\ AnswerIsOwn /\ GivenUpEarlyOnlyFor /\ LeavesNoTrace
=============================================================================
