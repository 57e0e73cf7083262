------------------------------ MODULE MassDevice ------------------------------
(***************************************************************************)
(* The life of the one mass storage device (iop/mass_stor.c, 754-1104).    *)
(*                                                                         *)
(* The usbd thread calls probe/connect when a device is plugged and        *)
(* disconnect when it is unplugged.  The threads that use the file system  *)
(* call mass_stor_getStatus, which waits for the driver to come up, polls  *)
(* for a device, configures a device that is not, and warms it up.  Every  *)
(* transfer waits on a semaphore, so the usbd thread and the other clients *)
(* run in between.  A device is a model value: one insertion of one medium.*)
(***************************************************************************)
EXTENDS Integers, FiniteSets

CONSTANTS Device,         \* insertions of a device
          Client,         \* threads that call mass_stor_getStatus
          NoDevice,       \* devId -1, an endpoint -1
          Polls,          \* rounds of the polling loop (1000 in the code)
          Transfers       \* transfers of a stage of the warm-up after its first

ASSUME DeviceAssumption ==
  /\ NoDevice \notin Device
  /\ Polls \in Nat \ {0}
  /\ Transfers \in Nat

VARIABLES
  plugged,        \* devices on the bus
  addressed,      \* plugged devices that have executed SET_CONFIGURATION
  devId,          \* mass_device.devId
  controlEp, bulkEpI, bulkEpO,   \* endpoints of mass_device: whose they are
  openI, openO,   \* devices whose bulk endpoints the driver opened and did not close
  status,         \* mass_device.status, as a set of flags
  sizeOf,         \* device whose block size is in Size_Sector (NoDevice: of none)
  readySema,      \* driver_ready_sema
  driverReady,    \* driver_ready
  trouble,        \* history: the set-up of the device was disturbed, or a request failed
  pc, polls,      \* each client in mass_stor_getStatus
  left,           \* transfers that its stage of the warm-up may still take
  target,         \* device whose answer it waits for
  ret             \* its last result

endpoints  == <<controlEp, bulkEpI, bulkEpO, openI, openO>>
devVars    == <<plugged, addressed, devId, endpoints, status, sizeOf, trouble>>
clientVars == <<pc, polls, left, target, ret>>
massVars   == <<devVars, readySema, driverReady, clientVars>>

DETECTED == "detected"
CONFIGURED == "configured"
DISCONNECTED == "disconnected"
Flags == {DETECTED, CONFIGURED, DISCONNECTED}

Error == {"error"}             \* a negative result of mass_stor_getStatus
Exchanges == {"inquiry", "prepare", "readCapacity"}
SettingUp == {"setConfiguration", "setInterface"} \union Exchanges
PCs == {"idle", "waitReady", "poll"} \union SettingUp

MassTypeOK ==
  /\ plugged \subseteq Device
  /\ addressed \subseteq plugged
  /\ {devId, controlEp, bulkEpI, bulkEpO, sizeOf} \subseteq Device \union {NoDevice}
  /\ openI \subseteq Device /\ openO \subseteq Device
  /\ status \subseteq Flags
  /\ readySema \in {"created", "signalled", "deleted"}
  /\ driverReady \in BOOLEAN
  /\ trouble \in BOOLEAN
  /\ pc \in [Client -> PCs]
  /\ polls \in [Client -> 0 .. Polls]
  /\ left \in [Client -> 0 .. Transfers]
  /\ target \in [Client -> plugged \union {NoDevice}]
  /\ ret \in [Client -> (SUBSET Flags) \union {Error}]

Ready == {DETECTED, CONFIGURED}
SettingUpClients == {c \in Client : pc[c] \in SettingUp}
-----------------------------------------------------------------------------
(* The usbd thread                                                         *)

(* Mutants: connect starts from a clean status; a connect that fails       *)
(* leaves bulk OUT open.                                                   *)
ConnectClean(d) ==
  /\ devId' = d
  /\ controlEp' = d /\ bulkEpI' = d /\ bulkEpO' = d
  /\ openI' = openI \union {d} /\ openO' = openO \union {d}
  /\ status' = {DETECTED}

ConnectLeaks(d) ==
  /\ devId' = d
  /\ controlEp' = d /\ bulkEpI' \in {d, NoDevice} /\ bulkEpO' = d
  /\ openI' = openI \union ({bulkEpI'} \ {NoDevice})
  /\ openO' = openO \union {d}
  /\ status' = IF bulkEpI' = d THEN status \union {DETECTED} ELSE status

(* mass_stor_connect: UsbOpenEndpoint gives an endpoint of the device or   *)
(* fails, and a device may have no endpoint of a kind.  Only bulk IN has   *)
(* to be there: without it connect closes bulk OUT again and fails, with   *)
(* the control endpoint open and the fields as they are.                   *)
Connect(d) ==
  /\ devId' = d
  /\ controlEp' \in {d, NoDevice} /\ bulkEpO' \in {d, NoDevice}
  /\ \/ /\ bulkEpI' = NoDevice
        /\ UNCHANGED <<openI, openO, status>>
     \/ /\ bulkEpI' = d
        /\ openI' = openI \union {bulkEpI'}
        /\ openO' = openO \union ({bulkEpO'} \ {NoDevice})
        /\ status' = status \union {DETECTED}

(* probe refuses a second device, which is then never looked at again.     *)
Plug(d) ==
  /\ d \notin plugged
  /\ plugged' = plugged \union {d}
  /\ \/ DETECTED \in status /\ UNCHANGED <<devId, endpoints, status>>
     \/ DETECTED \notin status /\ Connect(d)
  /\ trouble' = (trouble /\ (DETECTED \in status \/ SettingUpClients # {}))
  /\ UNCHANGED <<addressed, sizeOf, readySema, driverReady, clientVars>>

(* Mutant: the device stays configured.                                    *)
ReleaseKeepsConfigured ==
  /\ openI' = openI \ {bulkEpI} /\ openO' = openO \ {bulkEpO}
  /\ devId' = NoDevice /\ controlEp' = NoDevice /\ bulkEpI' = NoDevice /\ bulkEpO' = NoDevice
  /\ status' = (status \ {DETECTED}) \union {DISCONNECTED}

(* mass_stor_release: the bulk endpoints are closed, the control endpoint  *)
(* is only forgotten.                                                      *)
Release ==
  /\ openI' = openI \ {bulkEpI} /\ openO' = openO \ {bulkEpO}
  /\ devId' = NoDevice /\ controlEp' = NoDevice /\ bulkEpI' = NoDevice /\ bulkEpO' = NoDevice
  /\ status' = {DISCONNECTED}

(* mass_stor_disconnect; usbd ends the transfers of a device that is gone. *)
Unplug(d) ==
  /\ d \in plugged
  /\ plugged' = plugged \ {d}
  /\ addressed' = addressed \ {d}
  /\ IF DETECTED \in status /\ d = devId
       THEN Release /\ trouble' = (trouble \/ SettingUpClients # {})
       ELSE UNCHANGED <<devId, endpoints, status, trouble>>
  /\ target' = [c \in Client |-> IF target[c] = d THEN NoDevice ELSE target[c]]
  /\ UNCHANGED <<sizeOf, readySema, driverReady, pc, polls, left, ret>>

(* rpcMainThread announces that the driver can be used.                    *)
SignalReady ==
  /\ readySema = "created"
  /\ readySema' = "signalled"
  /\ UNCHANGED <<devVars, driverReady, clientVars>>
-----------------------------------------------------------------------------
(* mass_stor_getStatus                                                     *)

Call(c) ==
  /\ pc[c] = "idle"
  /\ pc' = [pc EXCEPT ![c] = IF driverReady THEN "poll" ELSE "waitReady"]
  /\ ret' = [ret EXCEPT ![c] = Error]
  /\ UNCHANGED <<devVars, readySema, driverReady, polls, left, target>>

(* WaitSema then DeleteSema: the first client takes the signal, and its    *)
(* DeleteSema lets the others go (WaitSema of a deleted semaphore fails).  *)
WaitReady(c) ==
  /\ pc[c] = "waitReady"
  /\ readySema \in {"signalled", "deleted"}
  /\ readySema' = "deleted"
  /\ driverReady' = TRUE
  /\ pc' = [pc EXCEPT ![c] = "poll"]
  /\ UNCHANGED <<devVars, polls, left, target, ret>>

(* The locals of a call that has ended are reset, and when the next one     *)
(* begins its result.                                                       *)
Return(c, r) ==
  /\ ret' = [ret EXCEPT ![c] = r]
  /\ polls' = [polls EXCEPT ![c] = Polls]
  /\ left' = [left EXCEPT ![c] = 0]
  /\ target' = [target EXCEPT ![c] = NoDevice]
  /\ pc' = [pc EXCEPT ![c] = "idle"]

(* Mutants: the polling loop tests its count too late, or never counts.    *)
PollAgainLate(c) ==
  /\ pc[c] = "poll"
  /\ DETECTED \notin status /\ polls[c] >= 0
  /\ polls' = [polls EXCEPT ![c] = @ - 1]
  /\ UNCHANGED <<devVars, readySema, driverReady, pc, left, target, ret>>

PollAgainForever(c) ==
  /\ pc[c] = "poll"
  /\ DETECTED \notin status
  /\ polls' = [polls EXCEPT ![c] = IF @ = 1 THEN Polls ELSE @ - 1]
  /\ UNCHANGED <<devVars, readySema, driverReady, pc, left, target, ret>>

(* The polling loop: no device yet, wait and look again, or give up.       *)
PollAgain(c) ==
  /\ pc[c] = "poll"
  /\ DETECTED \notin status /\ polls[c] > 1
  /\ polls' = [polls EXCEPT ![c] = @ - 1]
  /\ UNCHANGED <<devVars, readySema, driverReady, pc, left, target, ret>>

PollTimeout(c) ==
  /\ pc[c] = "poll"
  /\ DETECTED \notin status /\ polls[c] = 1
  /\ Return(c, Error)
  /\ UNCHANGED <<devVars, readySema, driverReady>>

AlreadyConfigured(c) ==
  /\ pc[c] = "poll"
  /\ {DETECTED, CONFIGURED} \subseteq status
  /\ Return(c, status)
  /\ UNCHANGED <<devVars, readySema, driverReady>>

(* A transfer is submitted and waited for, unless usbd refuses it, as it   *)
(* does when the endpoint is -1 or of a device that is gone.               *)
Submitted(endpoint) == IF endpoint \in plugged THEN endpoint ELSE NoDevice

(* set_configuration is sent on the control endpoint as it is now.         *)
Configure(c) ==
  /\ pc[c] = "poll"
  /\ DETECTED \in status /\ CONFIGURED \notin status
  /\ pc' = [pc EXCEPT ![c] = "setConfiguration"]
  /\ target' = [target EXCEPT ![c] = Submitted(controlEp)]
  /\ polls' = [polls EXCEPT ![c] = Polls]
  /\ UNCHANGED <<devVars, readySema, driverReady, left, ret>>

(* It is done, or was refused or failed: neither is looked at, and         *)
(* set_interface is sent.                                                  *)
Configured(c) ==
  /\ pc[c] = "setConfiguration"
  /\ \/ /\ target[c] # NoDevice
        /\ addressed' = addressed \union {target[c]}
        /\ UNCHANGED trouble
     \/ /\ trouble' = TRUE
        /\ UNCHANGED addressed
  /\ pc' = [pc EXCEPT ![c] = "setInterface"]
  /\ target' = [target EXCEPT ![c] = Submitted(controlEp)]
  /\ UNCHANGED <<plugged, devId, endpoints, status, sizeOf, readySema, driverReady, polls, left, ret>>

(* The first transfer of a stage of the warm-up, and the others: each goes *)
(* to the endpoint that is there when it is submitted (a command on bulk   *)
(* OUT that has no endpoint is one that usbd refuses).                     *)
Exchange(c, stage) ==
  /\ pc' = [pc EXCEPT ![c] = stage]
  /\ target' = [target EXCEPT ![c] = Submitted(bulkEpI)]
  /\ left' = [left EXCEPT ![c] = Transfers]
  /\ UNCHANGED <<polls, ret>>

NextTransfer(c) ==
  /\ pc[c] \in Exchanges /\ left[c] > 0
  /\ left' = [left EXCEPT ![c] = @ - 1]
  /\ target' = [target EXCEPT ![c] = Submitted(bulkEpI)]
  /\ UNCHANGED <<devVars, readySema, driverReady, pc, polls, ret>>

(* set_interface is over: the flag is set on whatever is there now; the    *)
(* warm-up starts if a device is, and fails at once if none is.            *)
InterfaceSet(c) ==
  /\ pc[c] = "setInterface"
  /\ \/ /\ DETECTED \in status
        /\ status' = status \union {CONFIGURED}
        /\ Exchange(c, "inquiry")
        /\ UNCHANGED <<devId, endpoints, trouble>>
     \/ /\ DETECTED \notin status
        /\ Release /\ trouble' = (trouble \/ SettingUpClients # {c})
        /\ Return(c, Error)
  /\ UNCHANGED <<plugged, addressed, sizeOf, readySema, driverReady>>

(* INQUIRY: no byte came (returnSize), so the device is not ready and is   *)
(* released; or START STOP UNIT, TEST UNIT READY and REQUEST SENSE follow, *)
(* whose results nobody looks at.                                          *)
WarmupFails(c) ==
  /\ pc[c] = "inquiry"
  /\ Release /\ trouble' = (trouble \/ SettingUpClients # {c})
  /\ Return(c, Error)
  /\ UNCHANGED <<plugged, addressed, sizeOf, readySema, driverReady>>

Inquired(c) ==
  /\ pc[c] = "inquiry"
  /\ Exchange(c, "prepare")
  /\ UNCHANGED <<devVars, readySema, driverReady>>

Prepared(c) ==
  /\ pc[c] = "prepare"
  /\ Exchange(c, "readCapacity")
  /\ UNCHANGED <<devVars, readySema, driverReady>>

(* READ CAPACITY: the size is what is in the buffer, also when the         *)
(* transfer failed; or every try stalled, which is a warning.              *)
WarmupOK(c) ==
  /\ pc[c] = "readCapacity"
  /\ \/ target[c] # NoDevice /\ sizeOf' = target[c] /\ UNCHANGED trouble
     \/ sizeOf' = NoDevice /\ trouble' = TRUE
  /\ Return(c, status)
  /\ UNCHANGED <<plugged, addressed, devId, endpoints, status, readySema, driverReady>>

WarmupNoCapacity(c) ==
  /\ pc[c] = "readCapacity"
  /\ trouble' = TRUE
  /\ Return(c, status)
  /\ UNCHANGED <<plugged, addressed, devId, endpoints, status, sizeOf, readySema, driverReady>>

GetStatus(c) ==
  \/ WaitReady(c) \/ PollAgain(c) \/ PollTimeout(c) \/ AlreadyConfigured(c)
  \/ Configure(c) \/ Configured(c) \/ InterfaceSet(c) \/ NextTransfer(c)
  \/ Inquired(c) \/ Prepared(c) \/ WarmupOK(c) \/ WarmupNoCapacity(c) \/ WarmupFails(c)

Bus == \/ SignalReady
       \/ \E d \in Device : Plug(d) \/ Unplug(d)

MassInit ==
  /\ plugged = {} /\ addressed = {}
  /\ devId = NoDevice /\ sizeOf = NoDevice
  /\ controlEp = NoDevice /\ bulkEpI = NoDevice /\ bulkEpO = NoDevice
  /\ openI = {} /\ openO = {}
  /\ status = {}
  /\ readySema = "created" /\ driverReady = FALSE
  /\ trouble = FALSE
  /\ pc = [c \in Client |-> "idle"]
  /\ polls = [c \in Client |-> Polls]
  /\ left = [c \in Client |-> 0]
  /\ target = [c \in Client |-> NoDevice]
  /\ ret = [c \in Client |-> Error]

MassNext == Bus \/ \E c \in Client : Call(c) \/ GetStatus(c)

(* The driver comes up, and a thread that can run does.  One that waits    *)
(* for the answer of a device can only when the device answers or is       *)
(* unplugged: there is no timeout.  Nobody has to plug, unplug or call.    *)
MassFairness ==
  /\ WF_massVars(SignalReady)
  /\ \A c \in Client : WF_massVars(target[c] = NoDevice /\ GetStatus(c))

MassSpec == MassInit /\ [][MassNext]_massVars /\ MassFairness
-----------------------------------------------------------------------------
(* While a device is detected the endpoints are those of the device, and   *)
(* bulk IN is open; what the driver has opened and not closed are the bulk *)
(* endpoints of the detected device, nothing when none is: a connect that  *)
(* fails, a late release by a client, a second device and a replug in the  *)
(* middle of a set-up included.                                            *)
EndpointsMatchDevice ==
  /\ DETECTED \in status =>
       devId \in plugged /\ bulkEpI = devId /\ {controlEp, bulkEpO} \subseteq {devId, NoDevice}
  /\ openI = IF DETECTED \in status THEN {bulkEpI} ELSE {}
  /\ openO = IF DETECTED \in status THEN {bulkEpO} \ {NoDevice} ELSE {}

(* A device that is flagged as detected and configured has executed        *)
(* SET_CONFIGURATION, and when nobody sets it up any more Size_Sector is   *)
(* its block size.  Both can fail only if a request of the set-up failed,  *)
(* which mass_stor_getStatus does not notice, or the driver lost a device  *)
(* while a client was setting it up (trouble).                             *)
ReadyIsSetUp ==
  Ready \subseteq status /\ ~ trouble =>
    /\ devId \in addressed
    /\ SettingUpClients = {} => sizeOf = devId

(* Every call of mass_stor_getStatus returns, whatever is plugged and      *)
(* unplugged meanwhile, also when two threads wait for the driver: only a  *)
(* device that stays and never answers can keep one.                       *)
CallsReturn ==
  \A c \in Client : \/ []<>(pc[c] = "idle")
                    \/ \E d \in Device : <>[](d \in plugged /\ target[c] = d)
=============================================================================
