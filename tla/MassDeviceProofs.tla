--------------------------- MODULE MassDeviceProofs ---------------------------
(***************************************************************************)
(* Proofs about MassDevice, for any number of devices, threads and rounds  *)
(* of polling: the endpoints are those of the detected device, and a       *)
(* device that is flagged ready was set up.                                *)
(***************************************************************************)
EXTENDS MassDevice, TLAPS

(* The parts of the state that say which device is set up, and how far.    *)
devState == <<plugged, addressed, devId, endpoints, status, sizeOf, trouble, pc, target>>

SomeoneSettingUp == \E c \in Client : pc[c] \in SettingUp

DeviceTypeOK ==
  /\ plugged \subseteq Device
  /\ addressed \subseteq plugged
  /\ NoDevice \notin plugged
  /\ trouble \in BOOLEAN
  /\ pc \in [Client -> PCs]
  /\ target \in [Client -> plugged \union {NoDevice}]

(* A device that is not there is not configured, and whoever is setting it *)
(* up is in trouble.                                                       *)
GoneIsNoticed ==
  DETECTED \notin status => CONFIGURED \notin status /\ (SomeoneSettingUp => trouble)

(* Without trouble the device that is there is the one that the requests   *)
(* of the set-up go to, and that has executed them.                        *)
SetupIsForDevice ==
  DETECTED \in status /\ ~ trouble =>
    /\ \A c \in Client :
         /\ pc[c] \in {"setConfiguration", "readCapacity"} => target[c] \in {devId, NoDevice}
         /\ pc[c] = "setInterface" => devId \in addressed
    /\ CONFIGURED \in status => /\ devId \in addressed
                                /\ SomeoneSettingUp \/ sizeOf = devId

IndInv == DeviceTypeOK /\ EndpointsMatchDevice /\ GoneIsNoticed /\ SetupIsForDevice

LEMMA SettingUpOnes == SettingUpClients = {} <=> ~ SomeoneSettingUp
  BY DEF SettingUpClients, SomeoneSettingUp

LEMMA OnlySettingUp ==
  ASSUME NEW c \in Client, pc[c] \in SettingUp
  PROVE  SettingUpClients # {c} <=> \E b \in Client \ {c} : pc[b] \in SettingUp
  BY DEF SettingUpClients, SettingUp
-----------------------------------------------------------------------------
LEMMA InitInv == MassInit => IndInv
  BY DEF MassInit, IndInv, DeviceTypeOK, EndpointsMatchDevice, GoneIsNoticed, SetupIsForDevice,
         SomeoneSettingUp, SettingUp, Exchanges, DETECTED, CONFIGURED, PCs

LEMMA StutterInv ==
  ASSUME IndInv, UNCHANGED devState
  PROVE  IndInv'
  BY DEF IndInv, DeviceTypeOK, EndpointsMatchDevice, GoneIsNoticed, SetupIsForDevice,
         SomeoneSettingUp, devState, endpoints

LEMMA PlugInv ==
  ASSUME IndInv, NEW d \in Device, Plug(d)
  PROVE  IndInv'
  <1> USE DeviceAssumption DEF IndInv, Plug, Connect, clientVars, endpoints
  <1>1. DeviceTypeOK'
    BY DEF DeviceTypeOK
  <1>2. EndpointsMatchDevice'
    <2>1. CASE DETECTED \in status
      BY <2>1 DEF EndpointsMatchDevice
    <2>2. CASE DETECTED \notin status
      <3>1. openI = {} /\ openO = {} /\ d # NoDevice
        BY <2>2 DEF EndpointsMatchDevice
      <3>2. CASE bulkEpI' = NoDevice
        BY <2>2, <3>1, <3>2 DEF EndpointsMatchDevice
      <3>3. CASE bulkEpI' = d
        BY <2>2, <3>1, <3>3 DEF EndpointsMatchDevice
      <3> QED BY <2>2, <3>2, <3>3
    <2> QED BY <2>1, <2>2
  <1>3. SomeoneSettingUp' <=> SomeoneSettingUp
    BY DEF SomeoneSettingUp
  <1>4. GoneIsNoticed'
    BY <1>3, SettingUpOnes DEF GoneIsNoticed, DeviceTypeOK, DETECTED, CONFIGURED
  <1>5. SetupIsForDevice'
    BY <1>3, SettingUpOnes DEF GoneIsNoticed, SetupIsForDevice, DeviceTypeOK, SomeoneSettingUp,
                           SettingUp, Exchanges, DETECTED, CONFIGURED
  <1> QED BY <1>1, <1>2, <1>4, <1>5

(* mass_stor_release closes what is open.                                  *)
LEMMA Released ==
  ASSUME IndInv, Release
  PROVE  /\ EndpointsMatchDevice'
         /\ DETECTED \notin status' /\ CONFIGURED \notin status'
  BY DEF IndInv, EndpointsMatchDevice, Release, DETECTED, CONFIGURED, DISCONNECTED

LEMMA UnplugInv ==
  ASSUME IndInv, NEW d \in Device, Unplug(d)
  PROVE  IndInv'
  <1> USE DEF IndInv, Unplug, endpoints
  <1>1. DeviceTypeOK'
    BY DEF DeviceTypeOK
  <1>2. SomeoneSettingUp' <=> SomeoneSettingUp
    BY DEF SomeoneSettingUp
  <1>3. CASE DETECTED \in status /\ d = devId
    <2>1. /\ EndpointsMatchDevice'
          /\ DETECTED \notin status' /\ CONFIGURED \notin status'
          /\ trouble' = (trouble \/ SettingUpClients # {})
      BY <1>3, Released
    <2>2. GoneIsNoticed'
      BY <1>2, <2>1, SettingUpOnes DEF GoneIsNoticed
    <2>3. SetupIsForDevice'
      BY <2>1 DEF SetupIsForDevice
    <2> QED BY <1>1, <2>1, <2>2, <2>3
  <1>4. CASE ~ (DETECTED \in status /\ d = devId)
    <2>1. UNCHANGED <<devId, endpoints, status, trouble>>
      BY <1>4
    <2>2. EndpointsMatchDevice'
      BY <1>4, <2>1 DEF EndpointsMatchDevice
    <2>3. GoneIsNoticed'
      BY <1>2, <2>1 DEF GoneIsNoticed
    <2>4. SetupIsForDevice'
      BY <1>2, <1>4, <2>1 DEF SetupIsForDevice, DeviceTypeOK
    <2> QED BY <1>1, <2>2, <2>3, <2>4
  <1> QED BY <1>3, <1>4

(* Steps that leave the device alone, of a thread outside of the set-up or *)
(* in a stage whose answers nobody looks at.                               *)
LEMMA OutsideInv ==
  ASSUME IndInv, NEW c \in Client, pc[c] \notin SettingUp,
         NEW at \in PCs, at \notin SettingUp, pc' = [pc EXCEPT ![c] = at],
         target' = target \/ target' = [target EXCEPT ![c] = NoDevice],
         UNCHANGED devVars
  PROVE  IndInv'
  <1> USE DEF IndInv, devVars, endpoints
  <1>1. DeviceTypeOK'
    BY DEF DeviceTypeOK
  <1>2. EndpointsMatchDevice'
    BY DEF EndpointsMatchDevice
  <1>3. SomeoneSettingUp' <=> SomeoneSettingUp
    BY DEF SomeoneSettingUp, DeviceTypeOK
  <1>4. GoneIsNoticed'
    BY <1>3 DEF GoneIsNoticed
  <1>5. SetupIsForDevice'
    BY <1>3 DEF SetupIsForDevice, DeviceTypeOK, SettingUp, Exchanges
  <1> QED BY <1>1, <1>2, <1>4, <1>5

(* A request goes to the device that is there.                             *)
LEMMA SubmittedIs ==
  ASSUME NEW endpoint, DeviceTypeOK
  PROVE  /\ Submitted(endpoint) \in plugged \union {NoDevice}
         /\ Submitted(endpoint) \in {endpoint, NoDevice}
  BY DEF Submitted

LEMMA ConfigureInv ==
  ASSUME IndInv, NEW c \in Client, Configure(c)
  PROVE  IndInv'
  <1> USE DEF IndInv, Configure, devVars, endpoints
  <1>1. /\ controlEp \in {devId, NoDevice}
        /\ Submitted(controlEp) \in plugged \union {NoDevice}
        /\ Submitted(controlEp) \in {devId, NoDevice}
    BY SubmittedIs DEF EndpointsMatchDevice
  <1>2. DeviceTypeOK'
    BY <1>1 DEF DeviceTypeOK, PCs, SettingUp
  <1>3. EndpointsMatchDevice'
    BY DEF EndpointsMatchDevice
  <1>4. GoneIsNoticed'
    BY DEF GoneIsNoticed
  <1>5. SetupIsForDevice'
    BY <1>1 DEF SetupIsForDevice, DeviceTypeOK
  <1> QED BY <1>2, <1>3, <1>4, <1>5

LEMMA ConfiguredInv ==
  ASSUME IndInv, NEW c \in Client, Configured(c)
  PROVE  IndInv'
  <1> USE DEF IndInv, Configured, endpoints
  <1>1. Submitted(controlEp) \in plugged \union {NoDevice}
    BY SubmittedIs
  <1>2. DeviceTypeOK'
    BY <1>1 DEF DeviceTypeOK, PCs, SettingUp
  <1>3. EndpointsMatchDevice'
    BY DEF EndpointsMatchDevice
  <1>4. SomeoneSettingUp' /\ SomeoneSettingUp
    BY DEF DeviceTypeOK, SomeoneSettingUp, SettingUp
  <1>5. GoneIsNoticed'
    BY <1>4 DEF GoneIsNoticed
  <1>6. SetupIsForDevice'
    BY <1>4 DEF SetupIsForDevice, DeviceTypeOK
  <1> QED BY <1>2, <1>3, <1>5, <1>6

(* A thread in the set-up gives the device back.                           *)
LEMMA ReleaseInv ==
  ASSUME IndInv, NEW c \in Client, pc[c] \in SettingUp,
         Release, trouble' = (trouble \/ SettingUpClients # {c}),
         pc' = [pc EXCEPT ![c] = "idle"], target' = [target EXCEPT ![c] = NoDevice],
         UNCHANGED <<plugged, addressed>>
  PROVE  IndInv'
  <1> USE DEF IndInv
  <1>1. DeviceTypeOK'
    BY DEF DeviceTypeOK, PCs
  <1>2. /\ EndpointsMatchDevice'
        /\ DETECTED \notin status' /\ CONFIGURED \notin status'
    BY Released
  <1>3. SomeoneSettingUp' => trouble'
    BY OnlySettingUp DEF SomeoneSettingUp, SettingUp, Exchanges, DeviceTypeOK
  <1>4. GoneIsNoticed'
    BY <1>2, <1>3 DEF GoneIsNoticed
  <1>5. SetupIsForDevice'
    BY <1>2 DEF SetupIsForDevice
  <1> QED BY <1>1, <1>2, <1>4, <1>5

(* A thread goes on with the warm-up.                                      *)
LEMMA ExchangeInv ==
  ASSUME IndInv, NEW c \in Client, pc[c] \in Exchanges, NEW stage \in Exchanges,
         pc' = [pc EXCEPT ![c] = stage],
         target' = [target EXCEPT ![c] = Submitted(bulkEpI)], UNCHANGED devVars
  PROVE  IndInv'
  <1> USE DEF IndInv, devVars, endpoints
  <1>1. /\ Submitted(bulkEpI) \in plugged \union {NoDevice}
        /\ DETECTED \in status => Submitted(bulkEpI) \in {devId, NoDevice}
    BY SubmittedIs DEF EndpointsMatchDevice
  <1>2. DeviceTypeOK'
    BY <1>1 DEF DeviceTypeOK, PCs, SettingUp
  <1>3. EndpointsMatchDevice'
    BY DEF EndpointsMatchDevice
  <1>4. SomeoneSettingUp' /\ SomeoneSettingUp
    BY DEF DeviceTypeOK, SomeoneSettingUp, SettingUp
  <1>5. GoneIsNoticed'
    BY <1>4 DEF GoneIsNoticed
  <1>6. SetupIsForDevice'
    BY <1>1, <1>4 DEF SetupIsForDevice, DeviceTypeOK, Exchanges
  <1> QED BY <1>2, <1>3, <1>5, <1>6

LEMMA WarmingUpInv ==
  ASSUME IndInv, NEW c \in Client, NextTransfer(c) \/ Inquired(c) \/ Prepared(c)
  PROVE  IndInv'
  <1>1. CASE NextTransfer(c)
    <2>1. pc' = [pc EXCEPT ![c] = pc[c]]
      BY <1>1 DEF NextTransfer, IndInv, DeviceTypeOK
    <2> QED BY <1>1, <2>1, ExchangeInv DEF NextTransfer
  <1>2. CASE Inquired(c) \/ Prepared(c)
    BY <1>2, ExchangeInv DEF Inquired, Prepared, Exchange, Exchanges
  <1> QED BY <1>1, <1>2

LEMMA InterfaceSetInv ==
  ASSUME IndInv, NEW c \in Client, InterfaceSet(c)
  PROVE  IndInv'
  <1> USE DEF InterfaceSet
  <1>1. CASE DETECTED \notin status
    <2>1. pc[c] \in SettingUp
      BY DEF SettingUp
    <2> QED BY <1>1, <2>1, ReleaseInv DEF Return
  <1>2. CASE DETECTED \in status
    <2> USE <1>2 DEF IndInv, endpoints, Exchange
    <2>1. DeviceTypeOK'
      <3>1. Submitted(bulkEpI) \in plugged \union {NoDevice}
        BY SubmittedIs
      <3> QED BY <3>1 DEF DeviceTypeOK, PCs, SettingUp, Exchanges
    <2>2. DETECTED \in status'
      OBVIOUS
    <2>3. EndpointsMatchDevice'
      BY <2>2 DEF EndpointsMatchDevice
    <2>4. SomeoneSettingUp'
      BY DEF SomeoneSettingUp, SettingUp, Exchanges, DeviceTypeOK
    <2>5. GoneIsNoticed'
      BY <2>2 DEF GoneIsNoticed
    <2>6. SetupIsForDevice'
      BY <2>4 DEF SetupIsForDevice, DeviceTypeOK
    <2> QED BY <2>1, <2>3, <2>5, <2>6
  <1> QED BY <1>1, <1>2

LEMMA WarmupOKInv ==
  ASSUME IndInv, NEW c \in Client, WarmupOK(c)
  PROVE  IndInv'
  <1> USE DEF IndInv, WarmupOK, Return, endpoints
  <1>1. DeviceTypeOK'
    BY DEF DeviceTypeOK, PCs
  <1>2. EndpointsMatchDevice'
    BY DEF EndpointsMatchDevice
  <1>3. SomeoneSettingUp' => SomeoneSettingUp
    BY DEF SomeoneSettingUp, SettingUp, Exchanges, DeviceTypeOK
  <1>4. SomeoneSettingUp
    BY DEF SomeoneSettingUp, SettingUp, Exchanges
  <1>5. GoneIsNoticed'
    BY <1>3, <1>4 DEF GoneIsNoticed
  <1>6. SetupIsForDevice'
    BY DEF SetupIsForDevice, DeviceTypeOK
  <1> QED BY <1>1, <1>2, <1>5, <1>6

LEMMA WarmupNoCapacityInv ==
  ASSUME IndInv, NEW c \in Client, WarmupNoCapacity(c)
  PROVE  IndInv'
  BY DEF IndInv, WarmupNoCapacity, Return, DeviceTypeOK, PCs, EndpointsMatchDevice,
         GoneIsNoticed, SetupIsForDevice, endpoints

LEMMA WarmupFailsInv ==
  ASSUME IndInv, NEW c \in Client, WarmupFails(c)
  PROVE  IndInv'
  BY ReleaseInv DEF WarmupFails, Return, SettingUp, Exchanges
-----------------------------------------------------------------------------
LEMMA ClientInv ==
  ASSUME IndInv, NEW c \in Client, Call(c) \/ GetStatus(c)
  PROVE  IndInv'
  <1> USE DEF SettingUp, Exchanges, PCs
  <1>1. CASE Call(c)
    <2> DEFINE at == IF driverReady THEN "poll" ELSE "waitReady"
    <2>1. at \in PCs /\ at \notin SettingUp
      OBVIOUS
    <2> QED BY <1>1, <2>1, OutsideInv DEF Call
  <1>2. CASE WaitReady(c)
    BY <1>2, OutsideInv DEF WaitReady
  <1>3. CASE PollAgain(c)
    BY <1>3, StutterInv DEF PollAgain, devVars, devState
  <1>4. CASE PollTimeout(c)
    BY <1>4, OutsideInv DEF PollTimeout, Return
  <1>5. CASE AlreadyConfigured(c)
    BY <1>5, OutsideInv DEF AlreadyConfigured, Return
  <1>6. CASE Configure(c) \/ Configured(c) \/ InterfaceSet(c)
    BY <1>6, ConfigureInv, ConfiguredInv, InterfaceSetInv
  <1>7. CASE NextTransfer(c) \/ Inquired(c) \/ Prepared(c)
    BY <1>7, WarmingUpInv
  <1>8. CASE WarmupOK(c) \/ WarmupNoCapacity(c) \/ WarmupFails(c)
    BY <1>8, WarmupOKInv, WarmupNoCapacityInv, WarmupFailsInv
  <1> QED BY <1>1, <1>2, <1>3, <1>4, <1>5, <1>6, <1>7, <1>8 DEF GetStatus

LEMMA NextInv ==
  ASSUME IndInv, [MassNext]_massVars
  PROVE  IndInv'
  <1>1. CASE UNCHANGED massVars
    BY <1>1, StutterInv DEF massVars, devVars, clientVars, devState
  <1>2. CASE SignalReady
    BY <1>2, StutterInv DEF SignalReady, devVars, clientVars, devState
  <1>3. ASSUME NEW d \in Device, Plug(d) \/ Unplug(d)
        PROVE  IndInv'
    BY <1>3, PlugInv, UnplugInv
  <1>4. ASSUME NEW c \in Client, Call(c) \/ GetStatus(c)
        PROVE  IndInv'
    BY <1>4, ClientInv
  <1> QED BY <1>1, <1>2, <1>3, <1>4 DEF MassNext, Bus

LEMMA Inductive == MassSpec => []IndInv
  BY InitInv, NextInv, PTL DEF MassSpec

LEMMA TypeInit == MassInit => MassTypeOK
  <1> SUFFICES ASSUME MassInit PROVE MassTypeOK
    OBVIOUS
  <1> DEFINE Result == (SUBSET Flags) \union {Error}
  <1>1. polls \in [Client -> 0 .. Polls] /\ left \in [Client -> 0 .. Transfers]
    BY DeviceAssumption DEF MassInit
  <1>2. ret \in [Client -> Result]
    <2> HIDE DEF Result
    <2>1. Error \in Result
      BY DEF Result
    <2> QED BY <2>1 DEF MassInit
  <1> QED BY <1>1, <1>2 DEF MassInit, MassTypeOK, PCs

(* What the device driver keeps, and what a client does.                   *)
DriverTypeOK ==
  /\ plugged \subseteq Device
  /\ addressed \subseteq plugged
  /\ {devId, controlEp, bulkEpI, bulkEpO, sizeOf} \subseteq Device \union {NoDevice}
  /\ openI \subseteq Device /\ openO \subseteq Device
  /\ status \subseteq Flags
  /\ readySema \in {"created", "signalled", "deleted"}
  /\ driverReady \in BOOLEAN
  /\ trouble \in BOOLEAN

CallsTypeOK ==
  /\ pc \in [Client -> PCs]
  /\ polls \in [Client -> 0 .. Polls]
  /\ left \in [Client -> 0 .. Transfers]
  /\ target \in [Client -> plugged \union {NoDevice}]
  /\ ret \in [Client -> (SUBSET Flags) \union {Error}]

LEMMA TypeParts == MassTypeOK <=> DriverTypeOK /\ CallsTypeOK
  BY DEF MassTypeOK, DriverTypeOK, CallsTypeOK

LEMMA DriverStep ==
  ASSUME DriverTypeOK, CallsTypeOK, [MassNext]_massVars
  PROVE  DriverTypeOK'
  <1> USE DEF DriverTypeOK, devVars, endpoints, clientVars, Release, Connect, Flags,
              DETECTED, CONFIGURED, DISCONNECTED
  <1>1. CASE UNCHANGED massVars \/ SignalReady
    BY <1>1 DEF massVars, SignalReady
  <1>2. ASSUME NEW d \in Device, Plug(d) PROVE DriverTypeOK'
    BY <1>2 DEF Plug
  <1>3. ASSUME NEW d \in Device, Unplug(d) PROVE DriverTypeOK'
    BY <1>3 DEF Unplug
  <1>4. ASSUME NEW c \in Client, Call(c) \/ GetStatus(c) PROVE DriverTypeOK'
    <2>1. CASE \/ Call(c) \/ WaitReady(c) \/ PollAgain(c) \/ PollTimeout(c)
               \/ AlreadyConfigured(c) \/ Configure(c) \/ NextTransfer(c)
               \/ Inquired(c) \/ Prepared(c)
      BY <2>1 DEF Call, WaitReady, PollAgain, PollTimeout, AlreadyConfigured, Configure,
                  NextTransfer, Inquired, Prepared
    <2>2. CASE Configured(c)
      BY <2>2 DEF Configured, CallsTypeOK
    <2>3. CASE InterfaceSet(c) \/ WarmupFails(c)
      BY <2>3 DEF InterfaceSet, WarmupFails
    <2>4. CASE WarmupOK(c) \/ WarmupNoCapacity(c)
      BY <2>4 DEF WarmupOK, WarmupNoCapacity, CallsTypeOK
    <2> QED BY <1>4, <2>1, <2>2, <2>3, <2>4 DEF GetStatus
  <1> QED BY <1>1, <1>2, <1>3, <1>4 DEF MassNext, Bus

LEMMA CallsStep ==
  ASSUME DriverTypeOK, CallsTypeOK, [MassNext]_massVars
  PROVE  CallsTypeOK'
  <1> DEFINE Result == (SUBSET Flags) \union {Error}
  <1>1. status \in Result /\ Error \in Result
    BY DEF DriverTypeOK
  <1>2. CallsTypeOK <=>
          /\ pc \in [Client -> PCs] /\ polls \in [Client -> 0 .. Polls]
          /\ left \in [Client -> 0 .. Transfers]
          /\ target \in [Client -> plugged \union {NoDevice}]
          /\ ret \in [Client -> Result]
    BY DEF CallsTypeOK
  <1>3. CallsTypeOK' <=>
          /\ pc' \in [Client -> PCs] /\ polls' \in [Client -> 0 .. Polls]
          /\ left' \in [Client -> 0 .. Transfers]
          /\ target' \in [Client -> plugged' \union {NoDevice}]
          /\ ret' \in [Client -> Result]
    BY DEF CallsTypeOK
  <1> HIDE DEF Result
  <1>4. \A endpoint : Submitted(endpoint) \in plugged \union {NoDevice}
    BY DEF Submitted
  <1>5. 0 \in 0 .. Transfers /\ Transfers \in 0 .. Transfers /\ Polls \in 0 .. Polls
    BY DeviceAssumption
  <1>6. ASSUME NEW c \in Client, NEW r \in Result, Return(c, r), UNCHANGED plugged
        PROVE  CallsTypeOK'
    BY <1>2, <1>3, <1>5, <1>6 DEF Return, PCs
  <1>7. ASSUME NEW c \in Client, NEW stage \in Exchanges, Exchange(c, stage),
               UNCHANGED plugged
        PROVE  CallsTypeOK'
    <2>1. stage \in PCs
      BY DEF PCs, SettingUp
    <2> QED BY <1>2, <1>3, <1>4, <1>5, <1>7, <2>1 DEF Exchange
  <1> USE <1>2, <1>3 DEF clientVars, devVars
  <1>8. CASE UNCHANGED massVars \/ SignalReady
    BY <1>8 DEF massVars, SignalReady
  <1>9. ASSUME NEW d \in Device, Plug(d) PROVE CallsTypeOK'
    BY <1>9 DEF Plug
  <1>10. ASSUME NEW d \in Device, Unplug(d) PROVE CallsTypeOK'
    BY <1>10 DEF Unplug
  <1>11. ASSUME NEW c \in Client, Call(c) \/ WaitReady(c) PROVE CallsTypeOK'
    <2>1. {"poll", "waitReady"} \subseteq PCs
      BY DEF PCs
    <2> QED BY <1>1, <1>11, <2>1 DEF Call, WaitReady
  <1>12. ASSUME NEW c \in Client, PollAgain(c) PROVE CallsTypeOK'
    <2>1. polls[c] - 1 \in 0 .. Polls
      BY <1>12, DeviceAssumption DEF PollAgain
    <2> QED BY <1>12, <2>1 DEF PollAgain
  <1>13. ASSUME NEW c \in Client, NextTransfer(c) PROVE CallsTypeOK'
    <2>1. left[c] - 1 \in 0 .. Transfers
      BY <1>13, DeviceAssumption DEF NextTransfer
    <2> QED BY <1>4, <1>13, <2>1 DEF NextTransfer
  <1>14. ASSUME NEW c \in Client, Configure(c) \/ Configured(c) PROVE CallsTypeOK'
    <2>1. {"setConfiguration", "setInterface"} \subseteq PCs
      BY DEF PCs, SettingUp
    <2> QED BY <1>4, <1>5, <1>14, <2>1 DEF Configure, Configured
  <1>15. ASSUME NEW c \in Client,
                PollTimeout(c) \/ AlreadyConfigured(c) \/ WarmupFails(c) \/ WarmupOK(c)
                \/ WarmupNoCapacity(c)
         PROVE  CallsTypeOK'
    BY <1>1, <1>6, <1>15
       DEF PollTimeout, AlreadyConfigured, WarmupFails, WarmupOK, WarmupNoCapacity
  <1>16. ASSUME NEW c \in Client, InterfaceSet(c) \/ Inquired(c) \/ Prepared(c)
         PROVE  CallsTypeOK'
    BY <1>1, <1>6, <1>7, <1>16 DEF InterfaceSet, Inquired, Prepared, Exchanges
  <1> QED BY <1>8, <1>9, <1>10, <1>11, <1>12, <1>13, <1>14, <1>15, <1>16
          DEF MassNext, Bus, GetStatus

LEMMA TypeStep ==
  ASSUME MassTypeOK, [MassNext]_massVars
  PROVE  MassTypeOK'
  <1>1. DriverTypeOK /\ CallsTypeOK
    BY TypeParts
  <1>2. DriverTypeOK' /\ CallsTypeOK'
    BY <1>1, DriverStep, CallsStep
  <1> QED BY <1>2 DEF MassTypeOK, DriverTypeOK, CallsTypeOK

(* Every variable keeps its type, in any interleaving of the callbacks of  *)
(* usbd with the calls of mass_stor_getStatus.                             *)
THEOREM TypeCorrect == MassSpec => []MassTypeOK
  BY TypeInit, TypeStep, PTL DEF MassSpec

(* While a device is detected the endpoints of mass_device are its own and *)
(* bulk IN is open; the bulk endpoints that were opened and not closed are *)
(* those, and none when no device is detected (mass_stor_connect also when *)
(* it fails, mass_stor_release), for any number of devices and threads.    *)
THEOREM EndpointsAreTheDevices == MassSpec => []EndpointsMatchDevice
  BY Inductive, PTL DEF IndInv

(* A device flagged as detected and configured has executed                *)
(* SET_CONFIGURATION, and when the last thread leaves the set-up           *)
(* (mass_stor_getStatus) Size_Sector is its block size, unless a request   *)
(* failed or the driver lost a device during the set-up (trouble).         *)
THEOREM ReadyMeansSetUp == MassSpec => []ReadyIsSetUp
  <1>1. IndInv => ReadyIsSetUp
    BY SettingUpOnes DEF IndInv, SetupIsForDevice, ReadyIsSetUp, Ready
  <1> QED BY <1>1, Inductive, PTL
=============================================================================
