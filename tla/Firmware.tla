------------------------------ MODULE Firmware ------------------------------
(***************************************************************************)
(* Firmware upload to a GigE camera (tcam-network): the three generations   *)
(* of cameras of FirmwareUpgrade.cpp, the flash and MachXO2 ports of the    *)
(* GigE3 packages, and the camera memory they write.  An upload is a        *)
(* sequence of device operations; each may fail before or after the camera  *)
(* has carried it out, and a write may leave wrong bits behind.             *)
(***************************************************************************)
EXTENDS Integers, Sequences, FiniteSets, SequencesExt, FiniteSetsExt

CONSTANTS
    Upgrades,      \* the uploads considered: [type, file, versionOk]
    BlockSize,     \* bytes erased at once (DevicePortFlashMemory blockSize_)
    Align,         \* PadData alignment (4)
    CfgPages,      \* DeviceInfo::numCfgPages of the device in the camera
    MaxFwFaults    \* bound: operations that fail or write wrong bits

ASSUME FirmwareAssumption ==
    /\ BlockSize \in Nat \ {0} /\ Align \in Nat \ {0} /\ CfgPages \in Nat \ {0}
    /\ BlockSize % Align = 0

VARIABLES
    fwProg,    \* the operations of the upgrade
    fwJedec,   \* the parsed Jedec file of a package
    fwAt,      \* the operation that is next
    fwStatus,  \* the status so far, the result at the end
    fwMem,     \* memory areas of the camera: address -> contents
    fwOpen,    \* areas that are unlocked
    fwXo2,     \* the MachXO2 of the camera
    fwBuf,     \* addresses that were read back different from what was written
    fwEvents,  \* what the upload met and did not report
    fwFaults

fwVars == <<fwProg, fwJedec, fwAt, fwStatus, fwMem, fwOpen, fwXo2, fwBuf, fwEvents, fwFaults>>

Success == {"Success", "SuccessDisconnectRequired", "SuccessNoActionRequired"}
succeeded(status) == status \in Success

-----------------------------------------------------------------------------
(* Operations.  When one fails the status becomes st (unless it is          *)
(* "ignored") and the upload goes on at the next operation called to; after *)
(* names the operation that follows when the status is a failure already.   *)

Op(op, area, adr, st, to) ==
    [op |-> op, area |-> area, adr |-> adr, st |-> st, to |-> to, after |-> "next"]

(* pieces of at most n addresses *)
Pieces(lo, size, n) ==
    [k \in 1..((size + n - 1) \div n) |->
        {a \in lo + (k - 1) * n .. lo + k * n - 1 : a < lo + size}]

uploadAndVerify(area, adr, to) ==
    <<Op("write", area, adr, "WriteVerificationError", to),
      Op("verify", area, adr, "WriteVerificationError", to)>>

uploadBlackfinFirmware ==
    <<Op("unlock", "eeprom", {}, "WriteError", "end"), Op("erase", "eeprom", 0..1, "ignored", "next"),
      Op("datagram", "eeprom", 0..1, "WriteVerificationError", "end"),
      Op("lock", "eeprom", {}, "ignored", "next"), Op("disconnect", "", {}, "", "")>>

uploadGigEFPGAFirmware(failed) ==
    <<Op("unlock", "app", {}, "WriteError", failed)>>
      \o uploadAndVerify("app", {0}, "lock") \o uploadAndVerify("app", {1}, "lock")
      \o <<[Op("lock", "app", {}, "ignored", "next") EXCEPT !.after = failed]>>

uploadFPGAConfiguration ==
    <<Op("unlock", "fpga", {}, "WriteError", "end"),
      Op("erase", "fpga", {0}, "WriteVerificationError", "end"),
      Op("erase", "fpga", {1}, "WriteVerificationError", "end")>>
      \o uploadAndVerify("fpga", {0}, "lock") \o uploadAndVerify("fpga", {1}, "lock")
      \o <<[Op("lock", "fpga", {}, "ignored", "next") EXCEPT !.after = "end"]>>

rebootCamera == <<Op("reboot", "", {}, "SuccessDisconnectRequired", "end")>>

upgradeBlackfinFirmware(file) ==
    CASE file.kind = "package" -> [st |-> "DeviceSupportsFwOnly", ops |-> <<>>]
      [] file.size # "0x10000" -> [st |-> "InvalidFile", ops |-> <<>>]
      [] OTHER -> [st |-> "Success", ops |-> uploadBlackfinFirmware]

(* the entry of the camera's model in the package: found, or the status *)
findFirmwareInPackage(file) == file.index

(* with a new FPGA configuration the camera has to be disconnected, without *)
(* one, or when the firmware could not be written, it is rebooted           *)
upgradeFPGAFirmwareFromPackage(file, versionOk) ==
    CASE findFirmwareInPackage(file) # "ok" -> [st |-> findFirmwareInPackage(file), ops |-> <<>>]
      [] ~versionOk /\ ~file.fpga -> [st |-> "InvalidFile", ops |-> <<>>]
      [] file.size # "0xB000" -> [st |-> "InvalidFile", ops |-> <<>>]
      [] versionOk -> [st |-> "Success", ops |-> uploadGigEFPGAFirmware("reboot") \o rebootCamera]
      [] OTHER -> [st |-> "Success",
                   ops |-> uploadFPGAConfiguration \o uploadGigEFPGAFirmware("reboot")
                             \o <<Op("disconnect", "", {}, "", "")>> \o rebootCamera]

upgradeFPGAFirmwareDirect(file) ==
    IF file.size # "0xB000" THEN [st |-> "InvalidFile", ops |-> <<>>]
    ELSE [st |-> "Success", ops |-> uploadGigEFPGAFirmware("end") \o rebootCamera]

upgradeFPGAFirmware(file, versionOk) ==
    IF file.kind = "package" THEN upgradeFPGAFirmwareFromPackage(file, versionOk)
    ELSE upgradeFPGAFirmwareDirect(file)

-----------------------------------------------------------------------------
(* GigE3 packages: items of flash memory *)

PadData(size) == ((size + Align - 1) \div Align) * Align

(* the first addresses of the blocks that are erased for an item *)
AddEraseRequests(offset, size) ==
    LET start == offset % BlockSize
        toEnd == BlockSize - start
        rest  == size - toEnd
    IN {offset - start} \cup
         (IF size > toEnd
          THEN {offset + toEnd + k * BlockSize : k \in 0..((rest + BlockSize - 1) \div BlockSize) - 1}
          ELSE {})

(* ExtractFile keeps one copy of a file for all items of the package: a     *)
(* Length resizes it for the items before and after                         *)
AllItems(p) == FlattenSeq([i \in DOMAIN p.groups |-> p.groups[i].items])
ItemSize(p, item) ==
    LET shared == SelectSeq(AllItems(p), LAMBDA x : x.file = item.file /\ x.length # -1)
    IN IF shared = <<>> THEN item.size ELSE Last(shared).length

WriteDeviceMemory(offset, size) ==
    LET p == Pieces(offset, size, BlockSize)
    IN [k \in DOMAIN p |-> Op("write", "flash", p[k], "WriteError", "end")]

ReadDeviceMemory(offset, size) ==
    LET p == Pieces(offset, size, BlockSize)
    IN [k \in DOMAIN p |-> Op("read", "flash", p[k], "WriteError", "end")]

(* the erase requests come first: an item without data ends the program     *)
(* before anything is unlocked                                              *)
NoData(item) == item.data = 0
FlashUploadItems(p, items) ==
    LET requests == SetToSortSeq(UNION {AddEraseRequests(items[i].offset, ItemSize(p, items[i])) :
                                          i \in DOMAIN items}, LAMBDA a, b : a < b)
        Upload(item) == LET size == PadData(ItemSize(p, item)) IN
                        WriteDeviceMemory(item.offset, size) \o ReadDeviceMemory(item.offset, size)
                          \o <<Op("compare", "flash", {}, "WriteVerificationError", "end")>>
    IN IF \E i \in DOMAIN items : NoData(items[i]) THEN <<Op("null", "", {}, "Crash", "end")>>
       ELSE <<Op("unlock", "flash", {}, "WriteError", "end")>>
         \o [k \in DOMAIN requests |->
               Op("erase", "flash", requests[k] .. requests[k] + BlockSize - 1, "ignored", "next")]
         \o FlattenSeq([i \in DOMAIN items |-> Upload(items[i])])
         \o <<Op("lock", "flash", {}, "ignored", "next")>>

FlashCheckItems(items) ==
    IF \A i \in DOMAIN items : items[i].offset # -1 THEN "Success" ELSE "InvalidFile"

-----------------------------------------------------------------------------
(* GigE3 packages: the configuration of a MachXO2.  A Jedec file is a       *)
(* sequence of line kinds; a line of no known kind keeps the state.         *)

Jedec0 == [state |-> "COMMENT", type |-> "unknown", count |-> 0, pages |-> <<>>,
           userCode |-> <<0, 0, 0, 0>>]

ParseLine(j, line) ==
    LET state == CASE j.state = "FEATURE_ROW" -> "FEATURE_BITS"
                   [] line = "fuse" -> "FUSE_DATA"
                   [] line \in {"own", "other", "note"} -> "COMMENT"
                   [] line = "L" -> "FUSE_LIST"
                   [] line = "star" -> "END_DATA"
                   [] line = "U" -> "USER_CODE"
                   [] line = "E" -> "FEATURE_ROW"
                   [] line = "done" -> "DONE"
                   [] OTHER -> j.state
        fuse == state = "FUSE_DATA"
        numCfgPages == IF j.type = "unknown" THEN 0 ELSE CfgPages
    IN [j EXCEPT
          !.state = state,
          !.type = IF state = "COMMENT" /\ line # "note" THEN line ELSE @,
          !.count = IF fuse THEN @ + 1 ELSE @,
          !.pages = IF fuse /\ j.count < numCfgPages
                    THEN Append(@, IF line = "fuse" THEN "new" ELSE "junk") ELSE @,
          !.userCode = IF state = "USER_CODE" THEN <<1, 2, 3, 4>> ELSE @]

JedecParse(lines) ==
    FoldLeft(LAMBDA j, line : IF j.state = "DONE" THEN j ELSE ParseLine(j, line), Jedec0, lines)

Xo2CheckItems(items) ==
    CASE Len(items) > 1 -> "InvalidFile"
      [] \E i \in DOMAIN items : NoData(items[i]) -> "Crash"
      [] \E i \in DOMAIN items : JedecParse(items[i].lines).type = "unknown" -> "InvalidFile"
      [] OTHER -> "Success"

(* swap_endian<uint64_t> of a uint32_t, cut off to a uint32_t again; the    *)
(* least significant byte comes first                                       *)
QueryUserCode(uc) == SubSeq(Reverse(uc \o <<0, 0, 0, 0>>), 1, 4)

I2c(op, adr) == Op(op, "xo2", adr, "MachXO2UpdateFailed", "end")
EnableTransparentConfigurationMode == I2c("enable", {})
EraseFlash == I2c("eraseXo2", {})
ReadConfiguration == I2c("verifyXo2", {})
SetProgramDone == I2c("done", {})
Refresh == I2c("refresh", {})
WriteUserCode == I2c("writecode", {})

(* pages beyond the data of the file hold what the memory behind it holds *)
WriteConfiguration == [p \in 1..CfgPages |-> I2c("page", {p})]

UpdateConfiguration ==
    <<I2c("usercode", {}), EnableTransparentConfigurationMode, EraseFlash, SetProgramDone, Refresh,
      EnableTransparentConfigurationMode>> \o WriteConfiguration \o
    <<ReadConfiguration, SetProgramDone, Refresh, EnableTransparentConfigurationMode, WriteUserCode,
      SetProgramDone, Op("uploaded", "xo2", {}, "", "")>>

MachXO2Device == <<I2c("open", {}), I2c("id", {})>>

Xo2UploadItems == MachXO2Device \o UpdateConfiguration

-----------------------------------------------------------------------------
(* Package::Load reads information, ports, and the groups of each device    *)

FirstFailure(statuses) == Head(SelectSeq(statuses, LAMBDA s : s # "Success") \o <<"Success">>)

(* no data at all is not an error, but there is nothing to resize then *)
ReadUploadItem(item) ==
    CASE item.data > 1 \/ ~item.parsed -> "InvalidFile"
      [] NoData(item) /\ item.length # -1 -> "Crash"
      [] OTHER -> "Success"

ReadUploadGroup(g) ==
    IF g.port \notin {"flash", "xo2"} THEN "InvalidFile"
    ELSE FirstFailure([i \in DOMAIN g.items |-> ReadUploadItem(g.items[i])]
                        \o <<IF g.port = "flash" THEN FlashCheckItems(g.items) ELSE Xo2CheckItems(g.items)>>)

ReadPackageInfo(p) == p.version > 0 /\ p.manifestVersion <= 1
ReadDevicePorts(p) == p.ports
ReadDeviceTypes(p) == FirstFailure([i \in DOMAIN p.groups |-> ReadUploadGroup(p.groups[i])])

Load(p) ==
    IF p.manifest /\ ReadPackageInfo(p) /\ ReadDevicePorts(p) THEN ReadDeviceTypes(p) ELSE "InvalidFile"

UploadItems(p, g) == IF g.port = "flash" THEN FlashUploadItems(p, g.items) ELSE Xo2UploadItems

initiateColdReboot == <<Op("coldreboot", "", {}, "SuccessDisconnectRequired", "end")>>

Gige3upgradeFirmware(p) ==
    CASE Load(p) # "Success" -> [st |-> Load(p), ops |-> <<>>]
      [] ~p.model -> [st |-> "NoMatchFoundInPackage", ops |-> <<>>]
      [] p.groups = <<>> -> [st |-> "SuccessNoActionRequired", ops |-> <<>>]
      [] OTHER -> [st |-> "Success",
                   ops |-> FlattenSeq([i \in DOMAIN p.groups |-> UploadItems(p, p.groups[i])])
                             \o initiateColdReboot]

-----------------------------------------------------------------------------
(* upgradeFirmware: the camera's type selects the kind of upload *)
upgradeFirmware(u) ==
    CASE u.type = 0 -> upgradeBlackfinFirmware(u.file)
      [] u.type \in {1, 2} -> upgradeFPGAFirmware(u.file, u.versionOk)
      [] u.type \in {3, 4} -> Gige3upgradeFirmware(u.file)
      [] OTHER -> [st |-> "DeviceNotRecognized", ops |-> <<>>]

JedecOf(u) ==
    LET x == IF u.type \in {3, 4} THEN SelectSeq(u.file.groups, LAMBDA g : g.port = "xo2") ELSE <<>>
    IN IF x = <<>> THEN Jedec0 ELSE JedecParse(x[1].items[1].lines)

fwInit ==
    /\ \E u \in Upgrades :
         /\ fwProg = upgradeFirmware(u).ops
         /\ fwStatus = upgradeFirmware(u).st
         /\ fwJedec = JedecOf(u)
    /\ fwAt = 1
    /\ fwMem = [area \in {"eeprom", "app", "fpga", "flash"} |->
                 [a \in 0..IF area = "flash" THEN 4 * BlockSize - 1 ELSE 1 |-> "old"]]
    /\ fwXo2 = [cfg |-> [p \in 1..CfgPages |-> "old"], loaded |-> [p \in 1..CfgPages |-> "old"],
                userCode |-> <<1, 2, 3, 4>>]
    /\ fwOpen = {} /\ fwBuf = {} /\ fwEvents = {} /\ fwFaults = 0

fwEnded == fwAt > Len(fwProg)
Here == fwProg[fwAt]
At(ops) == ~fwEnded /\ Here.op \in ops

Target(label) ==
    CASE label = "next" -> fwAt + 1
      [] label = "end" -> Len(fwProg) + 1
      [] OTHER -> Min({k \in fwAt + 1..Len(fwProg) : fwProg[k].op = label} \cup {Len(fwProg) + 1})

Proceed ==
    /\ fwAt' = Target(IF succeeded(fwStatus) THEN "next" ELSE Here.after)
    /\ UNCHANGED fwStatus

Fail ==
    IF Here.st = "ignored" THEN Proceed
    ELSE fwStatus' = Here.st /\ fwAt' = Target(Here.to)

(* an operation is carried out and answered, or it fails: the request or    *)
(* its answers were lost                                                    *)
Perform(Effect, Nothing) ==
    \/ Effect /\ Proceed /\ UNCHANGED fwFaults
    \/ /\ fwFaults < MaxFwFaults
       /\ fwFaults' = fwFaults + 1
       /\ Effect \/ Nothing
       /\ Fail

Set(area, adr, what) ==
    [fwMem EXCEPT ![area] = [a \in DOMAIN @ |-> IF a \in adr THEN what[a] ELSE @[a]]]

fwUnlock ==
    /\ At({"unlock"})
    /\ Perform(fwOpen' = fwOpen \cup {Here.area}, UNCHANGED fwOpen)
    /\ UNCHANGED <<fwProg, fwJedec, fwMem, fwXo2, fwBuf, fwEvents>>

fwLock ==
    /\ At({"lock"})
    /\ Perform(fwOpen' = fwOpen \ {Here.area}, UNCHANGED fwOpen)
    /\ UNCHANGED <<fwProg, fwJedec, fwMem, fwXo2, fwBuf, fwEvents>>

fwErase ==
    /\ At({"erase"})
    /\ Perform(fwMem' = Set(Here.area, Here.adr, [a \in Here.adr |-> "erased"]), UNCHANGED fwMem)
    /\ UNCHANGED <<fwProg, fwJedec, fwOpen, fwXo2, fwBuf, fwEvents>>

(* flash that was not erased holds neither the old nor the new contents; a  *)
(* write may also go wrong unnoticed                                        *)
Stored(adr) ==
    [a \in adr |-> IF Here.area = "app" \/ fwMem[Here.area][a] = "erased" THEN "new" ELSE "bad"]

fwWrite ==
    /\ At({"write"})
    /\ \/ Perform(fwMem' = Set(Here.area, Here.adr, Stored(Here.adr)), UNCHANGED fwMem)
       \/ /\ fwFaults < MaxFwFaults
          /\ fwFaults' = fwFaults + 1
          /\ fwMem' = Set(Here.area, Here.adr, [a \in Here.adr |-> "bad"])
          /\ Proceed
    /\ UNCHANGED <<fwProg, fwJedec, fwOpen, fwXo2, fwBuf, fwEvents>>

(* one write of 64 KiB: no UDP packet holds it, sendto fails *)
fwDatagram ==
    /\ At({"datagram"})
    /\ Fail
    /\ UNCHANGED <<fwProg, fwJedec, fwMem, fwOpen, fwXo2, fwBuf, fwEvents, fwFaults>>

(* uploadAndVerify after the write: continue leaves do {} while (false),    *)
(* with success still set from the reading                                  *)
Differing(adr) == {a \in adr : fwMem[Here.area][a] # "new"}

fwVerify ==
    /\ At({"verify"})
    /\ Perform(fwEvents' = IF Differing(Here.adr) # {} THEN fwEvents \cup {"mismatch"} ELSE fwEvents,
               UNCHANGED fwEvents)
    /\ UNCHANGED <<fwProg, fwJedec, fwMem, fwOpen, fwXo2, fwBuf>>

fwRead ==
    /\ At({"read"})
    /\ Perform(fwBuf' = fwBuf \cup Differing(Here.adr), UNCHANGED fwBuf)
    /\ UNCHANGED <<fwProg, fwJedec, fwMem, fwOpen, fwXo2, fwEvents>>

(* Mutant: what was read back is not compared.                              *)
fwCompareNothing ==
    /\ At({"compare"})
    /\ Proceed
    /\ fwBuf' = {}
    /\ UNCHANGED <<fwProg, fwJedec, fwMem, fwOpen, fwXo2, fwEvents, fwFaults>>

fwCompare ==
    /\ At({"compare"})
    /\ IF fwBuf = {} THEN Proceed ELSE Fail
    /\ fwBuf' = {}
    /\ UNCHANGED <<fwProg, fwJedec, fwMem, fwOpen, fwXo2, fwEvents, fwFaults>>

(* a success with a new FPGA configuration, or of a Blackfin camera *)
fwDisconnect ==
    /\ At({"disconnect"})
    /\ IF succeeded(fwStatus)
       THEN fwStatus' = "SuccessDisconnectRequired" /\ fwAt' = Len(fwProg) + 1
       ELSE Proceed
    /\ UNCHANGED <<fwProg, fwJedec, fwMem, fwOpen, fwXo2, fwBuf, fwEvents, fwFaults>>

(* a reboot that cannot be written asks for a disconnect, whatever the      *)
(* upload's own status is                                                   *)
fwReboot ==
    /\ At({"reboot", "coldreboot"})
    /\ \/ /\ Proceed
          /\ UNCHANGED <<fwEvents, fwFaults>>
       \/ /\ fwFaults < MaxFwFaults
          /\ fwFaults' = fwFaults + 1
          /\ Fail
          /\ fwEvents' = IF succeeded(fwStatus) THEN fwEvents ELSE fwEvents \cup {"reboot"}
    /\ UNCHANGED <<fwProg, fwJedec, fwMem, fwOpen, fwXo2, fwBuf>>

(* commands to the MachXO2; CheckBusy and CheckStatusFail belong to each *)
Xo2After ==
    CASE Here.op = "eraseXo2" -> [fwXo2 EXCEPT !.cfg = [p \in 1..CfgPages |-> "erased"]]
      [] Here.op = "refresh" -> [fwXo2 EXCEPT !.loaded = fwXo2.cfg]
      [] Here.op = "writecode" -> [fwXo2 EXCEPT !.userCode = fwJedec.userCode]
      [] Here.op = "page" ->
           [fwXo2 EXCEPT !.cfg = [p \in 1..CfgPages |->
              CASE p \notin Here.adr -> @[p]
                [] p \in Here.adr /\ @[p] # "erased" -> "bad"
                [] OTHER -> IF p <= Len(fwJedec.pages) THEN fwJedec.pages[p] ELSE "junk"]]
      [] OTHER -> fwXo2

fwI2c ==
    /\ At({"open", "id", "enable", "eraseXo2", "done", "refresh", "page", "writecode"})
    /\ \/ Perform(fwXo2' = Xo2After, UNCHANGED fwXo2)
       \/ /\ Here.op = "page" /\ fwFaults < MaxFwFaults
          /\ fwFaults' = fwFaults + 1
          /\ fwXo2' = [fwXo2 EXCEPT !.cfg = [p \in 1..CfgPages |-> IF p \in Here.adr THEN "bad" ELSE @[p]]]
          /\ Proceed
    /\ UNCHANGED <<fwProg, fwJedec, fwMem, fwOpen, fwBuf, fwEvents>>

(* a file for another device throws, one whose user code is read from the   *)
(* device is not uploaded                                                   *)
fwUserCode ==
    /\ At({"usercode"})
    /\ CASE fwJedec.type # "own" -> Fail /\ UNCHANGED <<fwEvents, fwFaults>>
         [] fwJedec.type = "own" /\ fwJedec.userCode # QueryUserCode(fwXo2.userCode) ->
              Perform(UNCHANGED fwEvents, UNCHANGED fwEvents)
         [] OTHER ->
              \/ /\ fwAt' = Target("uploaded")
                 /\ fwStatus' = "SuccessNoActionRequired"
                 /\ fwEvents' = IF fwXo2.cfg = fwJedec.pages THEN fwEvents ELSE fwEvents \cup {"skipped"}
                 /\ UNCHANGED fwFaults
              \/ /\ fwFaults < MaxFwFaults
                 /\ fwFaults' = fwFaults + 1
                 /\ Fail
                 /\ UNCHANGED fwEvents
    /\ UNCHANGED <<fwProg, fwJedec, fwMem, fwOpen, fwXo2, fwBuf>>

fwVerifyXo2 ==
    /\ At({"verifyXo2"})
    /\ IF fwXo2.cfg = fwJedec.pages
       THEN Perform(UNCHANGED fwXo2, UNCHANGED fwXo2)
       ELSE Fail /\ UNCHANGED <<fwXo2, fwFaults>>
    /\ UNCHANGED <<fwProg, fwJedec, fwMem, fwOpen, fwBuf, fwEvents>>

(* item.Data is dereferenced although it is null *)
fwNull ==
    /\ At({"null"})
    /\ Fail
    /\ UNCHANGED <<fwProg, fwJedec, fwMem, fwOpen, fwXo2, fwBuf, fwEvents, fwFaults>>

(* the next group starts with a status of its own *)
fwUploaded ==
    /\ At({"uploaded"})
    /\ fwStatus' = "Success" /\ fwAt' = fwAt + 1
    /\ UNCHANGED <<fwProg, fwJedec, fwMem, fwOpen, fwXo2, fwBuf, fwEvents, fwFaults>>

fwNext == \/ fwUnlock \/ fwLock \/ fwErase \/ fwWrite \/ fwDatagram \/ fwVerify \/ fwRead \/ fwCompare
          \/ fwDisconnect \/ fwReboot \/ fwI2c \/ fwUserCode \/ fwVerifyXo2 \/ fwUploaded \/ fwNull

fwSpec == fwInit /\ [][fwNext]_fwVars /\ WF_fwVars(fwNext)

-----------------------------------------------------------------------------
fwTypeOK ==
    /\ fwAt \in 1..Len(fwProg) + 1
    /\ fwOpen \subseteq DOMAIN fwMem
    /\ \A area \in DOMAIN fwMem : \A a \in DOMAIN fwMem[area] :
         fwMem[area][a] \in {"old", "erased", "new", "bad"}
    /\ fwEvents \subseteq {"mismatch", "reboot", "skipped"}
    /\ fwFaults \in 0..MaxFwFaults

Operations(op) == {fwProg[k] : k \in {i \in DOMAIN fwProg : fwProg[i].op = op}}

Written ==
    /\ \A o \in Operations("write") : \A a \in o.adr : fwMem[o.area][a] = "new"
    /\ Operations("verifyXo2") # {} => fwXo2.cfg = fwJedec.pages

(* A status that says success says that the new firmware is in the camera,  *)
(* but for the three ways of the code to lose sight of a failure:           *)
(* a block that reads back different (uploadAndVerify leaves its loop), a   *)
(* failed upload whose reboot request fails, and a MachXO2 file without     *)
(* user code.                                                               *)
SuccessIsWrittenUnlessHidden ==
    fwEnded /\ fwProg # <<>> /\ succeeded(fwStatus) /\ fwEvents = {} => Written

(* The MachXO2 is never restarted with a configuration that is partly       *)
(* written: UpdateConfiguration refreshes it after the erase and after the  *)
(* verification only.                                                       *)
RefreshLoadsWhole ==
    \/ \E what \in {"old", "erased"} : \A p \in 1..CfgPages : fwXo2.loaded[p] = what
    \/ fwXo2.loaded = fwJedec.pages

Complete == fwJedec.type = "own" /\ Len(fwJedec.pages) = CfgPages /\ "junk" \notin Range(fwJedec.pages)

(* Without faults an accepted upload succeeds and leaves nothing unlocked:  *)
(* all flash it writes was erased before (AddEraseRequests covers the       *)
(* padded items).  Excepted are Blackfin cameras, whose single write fits   *)
(* no packet, Jedec files that do not match the device, and packages with   *)
(* an item without data, which are accepted and then dereference null.      *)
FaultFreeUpload ==
    fwEnded /\ fwProg # <<>> /\ fwFaults = 0 /\ Operations("datagram") = {} /\ Operations("null") = {}
      /\ (Operations("verifyXo2") # {} => Complete) =>
        succeeded(fwStatus) /\ fwOpen = {} /\ (Written \/ "skipped" \in fwEvents)

(* Erasing spares the blocks no item lies in.                               *)
SpareBlocksAreKept ==
    LET used == UNION {o.adr : o \in {w \in Operations("write") : w.area = "flash"}}
    IN \A a \in DOMAIN fwMem["flash"] :
         (\A b \in used : b \div BlockSize # a \div BlockSize) => fwMem["flash"][a] = "old"

(* What a firmware upload promises whatever operation fails: its status is  *)
(* true, no device runs half a configuration, flash of others is kept, and  *)
(* without faults it succeeds.                                              *)
UploadsHold ==
    fwTypeOK /\ SuccessIsWrittenUnlessHidden /\ RefreshLoadsWhole /\ FaultFreeUpload /\ SpareBlocksAreKept
=============================================================================
