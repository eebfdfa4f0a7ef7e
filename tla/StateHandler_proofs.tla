------------------------- MODULE StateHandler_proofs -------------------------
(***************************************************************************)
(* Proofs about StateHandler and Osd: their types, that WLAN is not shown  *)
(* when airplane mode was switched, and that the session's copy of what is *)
(* enabled agrees with the device service at rest, for any delays, VPNs    *)
(* and devices, and any number of restarts.                                *)
(***************************************************************************)
EXTENDS StateHandler, TLAPS

-----------------------------------------------------------------------------
(* The messages on the screen. *)

\* A WLAN message that waits is the user's, or airplane mode is signalled in time to
\* stop it; and once airplane mode was signalled, the reset timer outlasts the signal
\* of WLAN that is still to come.
OsdInv ==
    /\ OsdTypeOK
    /\ delayTimer # Off => \/ heard = [blocked |-> wifiEnabled, cause |-> "user"]
                           \/ "Enabled" \in unsent /\ due < delayTimer
    /\ "WifiEnabled" \in unsent /\ "Enabled" \notin unsent => due < resetTimer

\* What module Osd does in a step of the handler.
OsdNext == OsdStep \/ SwitchWlan \/ SwitchAirplane

\* Everything else leaves the messages alone.
LEMMA OsdNextOnly == [Next]_vars => [OsdNext]_osdVars
  BY DEF Next, vars, OsdNext

LEMMA OsdInitInv == OsdInit => OsdInv
  BY OsdAssumption DEF OsdInit, OsdInv, OsdTypeOK, Off, Kinds

LEMMA SwitchWlanStep ==
  ASSUME OsdInv, SwitchWlan
  PROVE  OsdInv'
  <1>1. /\ wlan' \in BOOLEAN
        /\ heard' = [blocked |-> wlan', cause |-> "user"]
        /\ unsent = {} /\ UNCHANGED <<airplane, unsent, due>>
    BY DEF SwitchWlan
  <1>2. heard' \in [blocked : BOOLEAN, cause : {"user", "airplane"}]
    BY <1>1
  <1>3. CASE osdEnable
    <2>1. /\ delayTimer' = Delay /\ wifiEnabled' = wlan'
          /\ UNCHANGED <<resetTimer, osdEnable>>
      BY <1>3 DEF SwitchWlan, OnAirplaneModeWifiEnabledChanged
    <2> QED
      BY <1>1, <1>2, <1>3, <2>1, OsdAssumption DEF OsdInv, OsdTypeOK, Off, Kinds
  <1>4. CASE ~osdEnable
    <2>1. delayTimer' = Off /\ UNCHANGED <<wifiEnabled, resetTimer, osdEnable>>
      BY <1>4 DEF SwitchWlan, OnAirplaneModeWifiEnabledChanged
    <2> QED
      BY <1>1, <1>2, <1>4, <2>1, OsdAssumption DEF OsdInv, OsdTypeOK, Off, Kinds
  <1> QED
    BY <1>3, <1>4

LEMMA SwitchAirplaneStep ==
  ASSUME OsdInv, SwitchAirplane
  PROVE  OsdInv'
  BY OsdAssumption DEF OsdInv, OsdTypeOK, SwitchAirplane, handlerVars, Off, Kinds

\* The signal of WLAN comes first, and that of airplane mode is due before the message;
\* or it comes second, and the message is suppressed.
LEMMA SignalStep ==
  ASSUME OsdInv, NEW changed \in SUBSET Kinds, Signal(changed)
  PROVE  OsdInv'
  <1>1. CASE "Enabled" \in changed
    <2>1. /\ delayTimer' = Off /\ resetTimer' = Reset /\ osdEnable' = FALSE
          /\ unsent' = unsent \ changed
          /\ UNCHANGED <<airplane, wlan, due, wifiEnabled>>
      BY <1>1 DEF Signal, OnAirplaneModeEnabledChanged
    <2>2. heard' \in [blocked : BOOLEAN, cause : {"user", "airplane"}]
      BY DEF Signal, OsdInv, OsdTypeOK
    <2>3. unsent' \subseteq Kinds
      BY <2>1 DEF OsdInv, OsdTypeOK
    <2>4. /\ delayTimer' \in Off .. Delay /\ resetTimer' \in Off .. Reset
          /\ resetTimer' # Off /\ due' \in 0 .. Skew /\ due' < resetTimer'
      BY <2>1, OsdAssumption DEF OsdInv, OsdTypeOK, Off
    <2> QED
      BY <2>1, <2>2, <2>3, <2>4 DEF OsdInv, OsdTypeOK
  <1>2. CASE "Enabled" \notin changed
    <2>1. changed = {"WifiEnabled"} /\ "WifiEnabled" \in unsent
      BY <1>2 DEF Signal, Kinds
    <2>2. /\ unsent' = unsent \ {"WifiEnabled"}
          /\ heard' = [blocked |-> wlan, cause |-> "airplane"]
          /\ OnAirplaneModeWifiEnabledChanged(wlan)
          /\ UNCHANGED <<airplane, wlan, due>>
      BY <1>2, <2>1 DEF Signal
    <2>3. OsdTypeOK'
      BY <2>2, OsdAssumption
         DEF OsdInv, OsdTypeOK, OnAirplaneModeWifiEnabledChanged, Off, Kinds
    <2>4. CASE "Enabled" \in unsent
      BY <2>2, <2>3, <2>4, OsdAssumption
         DEF OsdInv, OsdTypeOK, OnAirplaneModeWifiEnabledChanged, Off, Kinds
    <2>5. CASE "Enabled" \notin unsent
      BY <2>1, <2>2, <2>3, <2>5, OsdAssumption
         DEF OsdInv, OsdTypeOK, OnAirplaneModeWifiEnabledChanged, Off, Kinds
    <2> QED
      BY <2>4, <2>5
  <1> QED
    BY <1>1, <1>2

LEMMA TimerSteps ==
  ASSUME OsdInv, DelayShowWifiOSD \/ ResetWifiOSDEnable \/ Tick
  PROVE  OsdInv'
  <1>1. CASE DelayShowWifiOSD
    BY <1>1, OsdAssumption DEF OsdInv, OsdTypeOK, DelayShowWifiOSD, daemonVars, Off
  <1>2. CASE ResetWifiOSDEnable
    BY <1>2, OsdAssumption DEF OsdInv, OsdTypeOK, ResetWifiOSDEnable, daemonVars, Off
  <1>3. CASE Tick
    BY <1>3, OsdAssumption DEF OsdInv, OsdTypeOK, Tick, Earlier, Off
  <1> QED
    BY <1>1, <1>2, <1>3

LEMMA OsdNextInv == OsdInv /\ [OsdNext]_osdVars => OsdInv'
  <1> SUFFICES ASSUME OsdInv, [OsdNext]_osdVars PROVE OsdInv'
    OBVIOUS
  <1>1. CASE UNCHANGED osdVars
    BY <1>1 DEF OsdInv, OsdTypeOK, osdVars, daemonVars, handlerVars
  <1>2. CASE OsdNext
    BY <1>2, SwitchWlanStep, SwitchAirplaneStep, SignalStep, TimerSteps DEF OsdNext, OsdStep
  <1> QED
    BY <1>1, <1>2

\* A message that is shown has waited till now, so that no signal of airplane mode can
\* still be due.
LEMMA ShownIsUsers ==
  ASSUME OsdInv, DelayShowWifiOSD
  PROVE  heard = [blocked |-> wifiEnabled, cause |-> "user"]
  BY OsdAssumption DEF OsdInv, OsdTypeOK, DelayShowWifiOSD, Off

\* However fast airplane mode is switched to and fro, in whichever order its two
\* signals come, and for all delays with Skew < Delay < Reset: only what the user has
\* done to WLAN is shown as a message on WLAN.
THEOREM WlanIsHidden == Spec => AirplaneHidesWlan
  <1>1. Init => OsdInv
    BY OsdInitInv DEF Init
  <1>2. OsdInv /\ [Next]_vars => OsdInv'
    BY OsdNextOnly, OsdNextInv
  <1>3. OsdInv /\ [Next]_vars
        => [DelayShowWifiOSD /\ osdEnable =>
              heard = [blocked |-> wifiEnabled, cause |-> "user"]]_osdVars
    BY ShownIsUsers
  <1> QED
    BY <1>1, <1>2, <1>3, PTL DEF Spec, AirplaneHidesWlan

-----------------------------------------------------------------------------
(* Types. *)

\* A timer of a wake-up was started by one of the inputs: TypeOK bounds them by
\* MaxInputs, and is inductive with this.
NoticeType ==
    /\ vpn \in [Vpns -> VpnStates \cup {"none", "gone"}]
    /\ nmWire \in Seq(NmSignal)
    /\ connections \in [Vpns -> [state : VpnStates \cup {"none", "other"}, failed : BOOLEAN]]
    /\ notices \in [Vpns -> Seq({"connected", "disconnected", "failed"})]
    /\ notify \in BOOLEAN

DeviceType ==
    /\ present \subseteq Devices
    /\ devices \in [Devices -> Settings \cup {"unknown"}]
    /\ queries \subseteq Devices
    /\ setting \in [Devices -> Settings]
    /\ serving \in BOOLEAN /\ served \subseteq Devices
    /\ ~serving => served = {} /\ relay = <<>>
    /\ relay \in Seq(News) /\ wire \in Seq(News)

InputType == inputs \in 0 .. MaxInputs /\ wakeTimers \in 0 .. inputs

TypeInv == OsdInv /\ NoticeType /\ DeviceType /\ InputType

\* What a queue has after a message was sent, and after one was read.
LEMMA Queues ==
  ASSUME NEW S, NEW q \in Seq(S)
  PROVE  /\ \A m \in S : /\ Append(q, m) \in Seq(S) /\ Len(Append(q, m)) = Len(q) + 1
                         /\ Append(q, m)[Len(q) + 1] = m
                         /\ \A i \in 1 .. Len(q) : Append(q, m)[i] = q[i]
         /\ Len(q) \in Nat
         /\ q # <<>> => /\ Head(q) \in S /\ Tail(q) \in Seq(S)
                        /\ Head(q) = q[1] /\ Len(q) >= 1 /\ Len(Tail(q)) = Len(q) - 1
                        /\ \A i \in 1 .. Len(q) - 1 : Tail(q)[i] = q[i + 1]
  OBVIOUS

\* A function with one value changed.
LEMMA Except ==
  ASSUME NEW D, NEW R, NEW f \in [D -> R], NEW d \in D, NEW r \in R
  PROVE  /\ [f EXCEPT ![d] = r] \in [D -> R]
         /\ [f EXCEPT ![d] = r][d] = r
         /\ \A e \in D : e # d => [f EXCEPT ![d] = r][e] = f[e]
  OBVIOUS

\* What is sent over the bus.
LEMMA MessageTypes ==
  /\ \A v \in Vpns, s \in VpnStates, u \in BOOLEAN :
        [vpn |-> v, state |-> s, user |-> u] \in NmSignal
  /\ Registered \in NmSignal
  /\ \A d \in Devices, s \in Settings : [device |-> d, setting |-> s] \in News
  BY DEF NmSignal, News

LEMMA InitTypes == Init => TypeInv
  <1> SUFFICES ASSUME Init PROVE TypeInv
    OBVIOUS
  <1>1. NoticeType
    <2>1. nmWire \in Seq(NmSignal)
      BY MessageTypes DEF Init
    <2> QED
      BY <2>1 DEF Init, NoticeInit, NoticeType, Unlisted
  <1>2. DeviceType
    <2>1. relay \in Seq(News) /\ wire \in Seq(News)
      BY DEF Init, DeviceInit
    <2>2. /\ present \subseteq Devices /\ queries \subseteq Devices /\ served \subseteq Devices
          /\ devices \in [Devices -> Settings \cup {"unknown"}]
          /\ setting \in [Devices -> Settings] /\ serving \in BOOLEAN
          /\ served = {} /\ relay = <<>>
      BY DEF Init, DeviceInit
    <2> QED
      BY <2>1, <2>2 DEF DeviceType
  <1>3. InputType
    BY StateHandlerAssumption DEF Init, NoticeInit, InputType
  <1> QED
    BY OsdInitInv, <1>1, <1>2, <1>3 DEF Init, TypeInv

\* A VPN goes on: its state and a signal.
LEMMA ProceedsType ==
  ASSUME NoticeType, NEW v \in Vpns, NEW from, NEW to \in VpnStates, Proceeds(v, from, to)
  PROVE  NoticeType' /\ UNCHANGED wakeTimers
  <1>1. vpn' = [vpn EXCEPT ![v] = to] /\ nmWire' = Append(nmWire, [vpn |-> v, state |-> to, user |-> FALSE])
    BY DEF Proceeds, Emit
  <1>2. nmWire' \in Seq(NmSignal)
    BY <1>1, MessageTypes, Queues DEF NoticeType
  <1> QED
    BY <1>1, <1>2 DEF NoticeType, Proceeds

LEMMA NoticeStepType ==
  ASSUME NoticeType, InputType, NoticeStep
  PROVE  NoticeType' /\ InputType'
  <1>1. ASSUME NEW v \in Vpns, Activate(v) \/ VpnGoesOn(v) \/ Repeat(v)
        PROVE  NoticeType' /\ InputType'
    <2>1. \E from : \E to \in VpnStates : Proceeds(v, from, to)
      <3>1. CASE Activate(v)
        BY <3>1 DEF Activate, VpnStates
      <3>2. CASE VpnGoesOn(v)
        BY <3>2 DEF VpnGoesOn, VpnStates
      <3>3. CASE Repeat(v)
        BY <3>3 DEF Repeat, Listed, NoticeType
      <3> QED
        BY <1>1, <3>1, <3>2, <3>3
    <2>2. inputs' = inputs \/ Input
      BY <1>1 DEF Activate, VpnGoesOn, Repeat
    <2> QED
      BY <2>1, <2>2, ProceedsType, StateHandlerAssumption DEF InputType, Input
  <1>2. ASSUME NEW v \in Vpns, Stray(v)
        PROVE  NoticeType' /\ InputType'
    <2>1. nmWire' \in Seq(NmSignal)
      BY <1>2, MessageTypes, Queues DEF NoticeType, Stray, Emit, VpnStates
    <2> QED
      BY <1>2, <2>1 DEF NoticeType, InputType, Stray
  <1>3. ASSUME NEW v \in Vpns, Vanish(v)
        PROVE  NoticeType' /\ InputType'
    BY <1>3 DEF NoticeType, InputType, Vanish
  <1>4. ASSUME NEW v \in Vpns, OnActiveConnectionAdded(v) \/ OnActiveConnectionRemoved(v)
        PROVE  NoticeType' /\ InputType'
    <2>1. PICK e \in [state : VpnStates \cup {"none", "other"}, failed : BOOLEAN] :
                 connections' = [connections EXCEPT ![v] = e]
      BY <1>4 DEF OnActiveConnectionAdded, OnActiveConnectionRemoved, NewEntry, Unlisted
    <2> QED
      BY <1>4, <2>1
         DEF NoticeType, InputType, OnActiveConnectionAdded, OnActiveConnectionRemoved
  <1>5. CASE Sleep \/ Wake
    <2>1. InputType'
      BY <1>5, StateHandlerAssumption DEF InputType, Sleep, Wake, Input
    <2>2. UNCHANGED <<vpnVars, nmWire>> /\ (notify' = notify \/ notify' = FALSE)
      BY <1>5 DEF Sleep, Wake
    <2>3. notify' \in BOOLEAN
      BY <2>2 DEF NoticeType
    <2> QED
      BY <2>1, <2>2, <2>3 DEF NoticeType, vpnVars
  <1>6. CASE WakeTimerFires
    BY <1>6, StateHandlerAssumption DEF NoticeType, InputType, WakeTimerFires, vpnVars
  <1>7. CASE NmRestarts
    <2>1. nmWire' \in Seq(NmSignal)
      BY <1>7, MessageTypes, Queues DEF NoticeType, NmRestarts
    <2> QED
      BY <1>7, <2>1, StateHandlerAssumption DEF NoticeType, InputType, NmRestarts, Input
  <1> QED
    BY <1>1, <1>2, <1>3, <1>4, <1>5, <1>6, <1>7 DEF NoticeStep

\* A signal of a VPN changes one entry, and adds one notice at most.
LEMMA HandleVpnType ==
  ASSUME NoticeType, NEW v \in Vpns, NEW state \in VpnStates, NEW user \in BOOLEAN,
         HandleVpnStateChanged(v, state, user)
  PROVE  /\ connections' \in [Vpns -> [state : VpnStates \cup {"none", "other"}, failed : BOOLEAN]]
         /\ notices' \in [Vpns -> Seq({"connected", "disconnected", "failed"})]
  <1>1. connections[v] \in [state : VpnStates \cup {"none", "other"}, failed : BOOLEAN]
    BY DEF NoticeType
  <1>2. \/ UNCHANGED connections
        \/ \E failed \in BOOLEAN : SetEntry(v, state, failed)
    BY <1>1 DEF HandleVpnStateChanged
  <1>3. \/ UNCHANGED notices
        \/ \E notice \in {"connected", "disconnected", "failed"} : Notify(v, notice)
    BY DEF HandleVpnStateChanged
  <1>4. \A notice \in {"connected", "disconnected", "failed"} :
           Append(notices[v], notice) \in Seq({"connected", "disconnected", "failed"})
    BY Queues DEF NoticeType
  <1>5. connections' \in [Vpns -> [state : VpnStates \cup {"none", "other"}, failed : BOOLEAN]]
    <2>1. ASSUME NEW failed \in BOOLEAN, SetEntry(v, state, failed)
          PROVE  connections' \in [Vpns -> [state : VpnStates \cup {"none", "other"}, failed : BOOLEAN]]
      <3>1. [state |-> state, failed |-> failed]
              \in [state : VpnStates \cup {"none", "other"}, failed : BOOLEAN]
        OBVIOUS
      <3> QED
        BY <2>1, <3>1, Except DEF NoticeType, SetEntry
    <2> QED
      BY <1>2, <2>1 DEF NoticeType
  <1>6. notices' \in [Vpns -> Seq({"connected", "disconnected", "failed"})]
    <2>1. CASE UNCHANGED notices
      BY <2>1 DEF NoticeType
    <2>2. ASSUME NEW notice \in {"connected", "disconnected", "failed"}, Notify(v, notice)
          PROVE  notices' \in [Vpns -> Seq({"connected", "disconnected", "failed"})]
      <3>1. notices' = notices \/ notices' = [notices EXCEPT ![v] = Append(notices[v], notice)]
        BY <2>2 DEF Notify
      <3>2. [notices EXCEPT ![v] = Append(notices[v], notice)]
              \in [Vpns -> Seq({"connected", "disconnected", "failed"})]
        BY <1>4 DEF NoticeType
      <3> QED
        BY <3>1, <3>2 DEF NoticeType
    <2> QED
      BY <1>3, <2>1, <2>2
  <1> QED
    BY <1>5, <1>6

LEMMA HandleNmSignalType ==
  ASSUME NoticeType, DeviceType, InputType, HandleNmSignal
  PROVE  NoticeType' /\ DeviceType' /\ InputType'
  <1>1. /\ nmWire # <<>> /\ nmWire' = Tail(nmWire)
        /\ UNCHANGED <<vpn, notify, wakeTimers, inputs>>
        /\ UNCHANGED <<present, setting, serving, served, relay, wire>>
    BY DEF HandleNmSignal, serviceVars
  <1>2. nmWire' \in Seq(NmSignal) /\ Head(nmWire) \in NmSignal
    BY <1>1, Queues DEF NoticeType
  <1>3. CASE InitTables
    <2>1. connections' \in [Vpns -> [state : VpnStates \cup {"none", "other"}, failed : BOOLEAN]]
      BY <1>3 DEF InitTables, NewEntry, Unlisted
    <2>2. devices' \in [Devices -> Settings \cup {"unknown"}] /\ queries' \subseteq Devices
      BY <1>3 DEF InitTables, DeviceType, Settings
    <2> QED
      BY <1>1, <1>2, <1>3, <2>1, <2>2 DEF NoticeType, DeviceType, InputType, InitTables
  <1>4. CASE ~InitTables
    <2>1. /\ Head(nmWire).vpn \in Vpns /\ Head(nmWire).state \in VpnStates
          /\ Head(nmWire).user \in BOOLEAN
          /\ HandleVpnStateChanged(Head(nmWire).vpn, Head(nmWire).state, Head(nmWire).user)
          /\ UNCHANGED <<devices, queries>>
      BY <1>2, <1>4 DEF HandleNmSignal, NmSignal
    <2> QED
      BY <1>1, <1>2, <2>1, HandleVpnType DEF NoticeType, DeviceType, InputType
  <1> QED
    BY <1>3, <1>4

LEMMA DeviceStepType ==
  ASSUME DeviceType, InputType, DeviceStep, UNCHANGED noticeVars
  PROVE  DeviceType' /\ InputType'
  <1>1. InputType'
    <2>1. inputs' = inputs \/ Input
      BY DEF DeviceStep, Plug, Unplug, OnDeviceAdded, OnDeviceRemoved, AnswerQuery, ServiceSees,
             ServiceLoses, ServiceLosesName, EnableDevice, OnDeviceEnabled, ServiceSends, ServiceStarts, ServiceStops
    <2> QED
      BY <2>1, StateHandlerAssumption DEF InputType, Input, noticeVars
  <1>2. ASSUME NEW d \in Devices, Plug(d) \/ Unplug(d) \/ OnDeviceAdded(d) \/ OnDeviceRemoved(d)
        PROVE  DeviceType'
    BY <1>2 DEF DeviceType, Plug, Unplug, OnDeviceAdded, OnDeviceRemoved, serviceVars, Settings
  <1>3. ASSUME NEW d \in Devices, AnswerQuery(d)
        PROVE  DeviceType'
    <2>1. setting[d] \in Settings /\ "on" \in Settings
      BY DEF DeviceType, Settings
    <2>2. \/ UNCHANGED wire
          \/ \E now \in Settings : wire' = Append(wire, [device |-> d, setting |-> now])
      BY <1>3, <2>1 DEF AnswerQuery
    <2>3. wire' \in Seq(News)
      <3>1. \A now \in Settings : [device |-> d, setting |-> now] \in News
        BY MessageTypes
      <3>2. wire \in Seq(News)
        BY DEF DeviceType
      <3>3. \A m \in News : Append(wire, m) \in Seq(News)
        BY <3>2, Queues
      <3> QED
        BY ONLY <2>2, <3>1, <3>2, <3>3
    <2> QED
      BY <1>3, <2>3 DEF DeviceType, AnswerQuery, serviceVars
  <1>4. ASSUME NEW d \in Devices, ServiceSees(d)
        PROVE  DeviceType'
    <2>1. setting[d] \in Settings
      BY DEF DeviceType
    <2>2. relay' \in Seq(News)
      BY <1>4, <2>1, MessageTypes, Queues DEF DeviceType, ServiceSees, DeviceEnabled
    <2> QED
      BY <1>4, <2>2 DEF DeviceType, ServiceSees
  <1>5. ASSUME NEW d \in Devices, EnableDevice(d)
        PROVE  DeviceType'
    <2>1. PICK now \in Settings : setting' = [setting EXCEPT ![d] = now] /\ DeviceEnabled(d, now)
      BY <1>5 DEF EnableDevice
    <2>2. relay' \in Seq(News)
      BY <2>1, MessageTypes, Queues DEF DeviceType, DeviceEnabled
    <2>3. serving
      BY <1>5 DEF DeviceType, EnableDevice
    <2> QED
      BY <1>5, <2>1, <2>2, <2>3 DEF DeviceType, EnableDevice
  <1>6. ASSUME OnDeviceEnabled
        PROVE  DeviceType'
    <2>1. wire' \in Seq(News) /\ Head(wire) \in News
      BY <1>6, Queues DEF DeviceType, OnDeviceEnabled
    <2>2. devices' \in [Devices -> Settings \cup {"unknown"}]
      BY <1>6, <2>1 DEF DeviceType, OnDeviceEnabled, News
    <2> QED
      BY <1>6, <2>1, <2>2 DEF DeviceType, OnDeviceEnabled, serviceVars
  <1>7. ASSUME ServiceSends
        PROVE  DeviceType'
    <2>1. relay' \in Seq(News) /\ Head(relay) \in News
      BY <1>7, Queues DEF DeviceType, ServiceSends
    <2>2. wire' \in Seq(News) /\ serving
      BY <1>7, <2>1, Queues DEF DeviceType, ServiceSends
    <2> QED
      BY <1>7, <2>1, <2>2 DEF DeviceType, ServiceSends
  <1>8. ASSUME NEW d \in Devices, ServiceLoses(d) \/ ServiceLosesName(d)
        PROVE  DeviceType'
    BY <1>8 DEF DeviceType, ServiceLoses, ServiceLosesName
  <1>9. ASSUME ServiceStarts \/ ServiceStops
        PROVE  DeviceType'
    <2>1. <<>> \in Seq(News)
      OBVIOUS
    <2>2. CASE ServiceStarts
      BY <2>2 DEF DeviceType, ServiceStarts
    <2>3. CASE ServiceStops
      BY <2>1, <2>3 DEF DeviceType, ServiceStops
    <2> QED
      BY <1>9, <2>2, <2>3
  <1> QED
    BY <1>1, <1>2, <1>3, <1>4, <1>5, <1>6, <1>7, <1>8, <1>9 DEF DeviceStep

LEMMA NextTypes == TypeInv /\ [Next]_vars => TypeInv'
  <1> SUFFICES ASSUME TypeInv, [Next]_vars PROVE TypeInv'
    OBVIOUS
  <1>1. OsdInv'
    BY OsdNextOnly, OsdNextInv DEF TypeInv
  <1>2. NoticeType' /\ DeviceType' /\ InputType'
    <2>1. CASE UNCHANGED <<noticeVars, deviceVars>> /\ (inputs' = inputs \/ Input)
      BY <2>1, StateHandlerAssumption
         DEF TypeInv, NoticeType, DeviceType, InputType, Input, noticeVars, deviceVars, vpnVars,
             serviceVars
    <2>2. CASE NoticeStep /\ UNCHANGED deviceVars
      BY <2>2, NoticeStepType DEF TypeInv, DeviceType, deviceVars, serviceVars
    <2>3. CASE DeviceStep /\ UNCHANGED noticeVars
      BY <2>3, DeviceStepType DEF TypeInv, NoticeType, noticeVars, vpnVars
    <2>4. CASE HandleNmSignal
      BY <2>4, HandleNmSignalType DEF TypeInv
    <2> QED
      BY <2>1, <2>2, <2>3, <2>4 DEF Next, vars
  <1> QED
    BY <1>1, <1>2 DEF TypeInv

\* Every variable of the handler, of NetworkManager and of the device service keeps its
\* type; while messages on WLAN are off, none waits, and the timer that allows them
\* again runs.
THEOREM TypeCorrect == Spec => []TypeOK
  <1>1. TypeInv => TypeOK
    BY StateHandlerAssumption DEF TypeInv, NoticeType, DeviceType, InputType, OsdInv, TypeOK
  <1> QED
    BY InitTypes, NextTypes, <1>1, PTL DEF Spec

-----------------------------------------------------------------------------
(* What is enabled. *)

\* The news of a device in a queue, and its last one.
Of(q, d) == {i \in 1 .. Len(q) : q[i].device = d}
Ends(q, d, s) == \E i \in Of(q, d) : q[i].setting = s /\ \A j \in Of(q, d) : j <= i

\* The last news on the way is what the service has, of a device it serves.  Where there is none,
\* the handler has it already, or a query that is not answered will fetch it.
DeviceInv ==
    \A d \in Devices :
       /\ d \in served => Of(relay, d) = {} \/ Ends(relay, d, setting[d])
       /\ d \in served /\ Of(relay, d) = {}
          => \/ d \in queries
             \/ Ends(wire, d, setting[d])
             \/ Of(wire, d) = {} /\ devices[d] \in {"unknown", setting[d]}

\* News that is sent is the last of its device.
LEMMA EndsSent ==
  ASSUME NEW q \in Seq(News), NEW m \in News
  PROVE  Ends(Append(q, m), m.device, m.setting)
  <1>1. Len(q) + 1 \in Of(Append(q, m), m.device)
    BY Queues DEF Of
  <1>2. \A j \in Of(Append(q, m), m.device) : j <= Len(q) + 1
    BY Queues DEF Of
  <1> QED
    BY <1>1, <1>2, Queues DEF Ends

\* It says nothing of other devices.
LEMMA OthersSent ==
  ASSUME NEW q \in Seq(News), NEW m \in News, NEW d, d # m.device
  PROVE  /\ Of(Append(q, m), d) = Of(q, d)
         /\ \A s : Ends(q, d, s) => Ends(Append(q, m), d, s)
  <1>1. Of(Append(q, m), d) = Of(q, d)
    BY Queues DEF Of
  <1>2. \A i \in Of(q, d) : Append(q, m)[i] = q[i]
    BY Queues DEF Of
  <1> QED
    BY <1>1, <1>2 DEF Ends

\* News that is read was the last of its device, or leaves that in the queue.
LEMMA EndsRead ==
  ASSUME NEW q \in Seq(News), q # <<>>, NEW d, NEW s, Ends(q, d, s)
  PROVE  \/ Ends(Tail(q), d, s)
         \/ Of(Tail(q), d) = {} /\ Head(q).device = d /\ Head(q).setting = s
  <1>1. /\ Len(q) \in Nat /\ Len(q) >= 1 /\ Len(Tail(q)) = Len(q) - 1 /\ Head(q) = q[1]
        /\ \A i \in 1 .. Len(q) - 1 : Tail(q)[i] = q[i + 1]
    BY Queues
  <1>2. PICK i \in Of(q, d) : q[i].setting = s /\ \A j \in Of(q, d) : j <= i
    BY DEF Ends
  <1>3. \A j \in Of(Tail(q), d) : j + 1 \in Of(q, d)
    BY <1>1 DEF Of
  <1>4. CASE i = 1
    BY <1>1, <1>2, <1>3, <1>4 DEF Of
  <1>5. CASE i # 1
    <2>1. i - 1 \in Of(Tail(q), d) /\ Tail(q)[i - 1] = q[i]
      BY <1>1, <1>2, <1>5 DEF Of
    <2>2. \A j \in Of(Tail(q), d) : j <= i - 1
      BY <1>2, <1>3 DEF Of
    <2> QED
      BY <1>2, <2>1, <2>2 DEF Ends
  <1> QED
    BY <1>4, <1>5

\* A queue without news of a device has none after it is read, and one whose head is
\* of another device has none only if it had none.
LEMMA NoneRead ==
  ASSUME NEW q \in Seq(News), q # <<>>, NEW d
  PROVE  /\ Of(q, d) = {} => Of(Tail(q), d) = {} /\ Head(q).device # d
         /\ Of(Tail(q), d) = {} /\ Head(q).device # d => Of(q, d) = {}
  <1>1. /\ Len(q) \in Nat /\ Len(q) >= 1 /\ Len(Tail(q)) = Len(q) - 1 /\ Head(q) = q[1]
        /\ \A i \in 1 .. Len(q) - 1 : Tail(q)[i] = q[i + 1]
    BY Queues
  <1>2. \A j \in Of(Tail(q), d) : j + 1 \in Of(q, d)
    BY <1>1 DEF Of
  <1>3. \A j \in Of(q, d) : j = 1 \/ j - 1 \in Of(Tail(q), d)
    BY <1>1 DEF Of
  <1>4. 1 \in Of(q, d) <=> Head(q).device = d
    BY <1>1 DEF Of
  <1>5. Of(q, d) = {} => Of(Tail(q), d) = {} /\ Head(q).device # d
    BY <1>2, <1>4
  <1>6. Of(Tail(q), d) = {} /\ Head(q).device # d => Of(q, d) = {}
    BY <1>3, <1>4
  <1> QED
    BY <1>5, <1>6

\* Of what the step of one device changes, the other devices see nothing.
LEMMA DeviceStepInv ==
  ASSUME DeviceType, DeviceInv, DeviceStep
  PROVE  DeviceInv'
  <1>1. ASSUME NEW e \in Devices, Plug(e) \/ Unplug(e)
        PROVE  DeviceInv'
    BY <1>1 DEF DeviceInv, Plug, Unplug, serviceVars
  <1>2. ASSUME NEW e \in Devices, OnDeviceAdded(e)
        PROVE  DeviceInv'
    BY <1>2 DEF DeviceInv, DeviceType, OnDeviceAdded, serviceVars
  <1>3. ASSUME NEW e \in Devices, OnDeviceRemoved(e)
        PROVE  DeviceInv'
    BY <1>3 DEF DeviceInv, DeviceType, OnDeviceRemoved, serviceVars
  <1>4. ASSUME NEW e \in Devices, AnswerQuery(e)
        PROVE  DeviceInv'
    <2> DEFINE m == [device |-> e, setting |-> setting[e]]
    <2>1. m \in News
      BY MessageTypes DEF DeviceType
    <2>2. CASE e \in served
      <3>1. wire' = Append(wire, m)
        BY <1>4, <2>2 DEF AnswerQuery
      <3>2. Ends(wire', e, setting[e])
        BY <3>1, <2>1, EndsSent DEF DeviceType
      <3>3. \A d \in Devices \ {e} :
               Of(wire', d) = Of(wire, d) /\ (Ends(wire, d, setting[d]) => Ends(wire', d, setting[d]))
        BY <3>1, <2>1, OthersSent DEF DeviceType
      <3> HIDE DEF m
      <3> QED
        BY <1>4, <3>2, <3>3 DEF DeviceInv, AnswerQuery, serviceVars
    <2>3. CASE e \notin served
      <3>1. \/ UNCHANGED wire
            \/ \E now \in Settings : wire' = Append(wire, [device |-> e, setting |-> now])
        BY <1>4, <2>3 DEF AnswerQuery, DeviceType, Settings
      <3>2. \A d \in Devices \ {e} :
               Of(wire', d) = Of(wire, d) /\ (Ends(wire, d, setting[d]) => Ends(wire', d, setting[d]))
        <4>1. CASE UNCHANGED wire
          BY <4>1
        <4>2. ASSUME NEW now \in Settings, wire' = Append(wire, [device |-> e, setting |-> now])
              PROVE  \A d \in Devices \ {e} :
                        /\ Of(wire', d) = Of(wire, d)
                        /\ (Ends(wire, d, setting[d]) => Ends(wire', d, setting[d]))
          <5> DEFINE n == [device |-> e, setting |-> now]
          <5>1. n \in News /\ n.device = e /\ wire \in Seq(News) /\ wire' = Append(wire, n)
            BY <4>2, MessageTypes DEF DeviceType
          <5> HIDE DEF n
          <5> QED
            BY <5>1, OthersSent
        <4> QED
          BY <3>1, <4>1, <4>2
      <3> QED
        BY <1>4, <2>3, <3>2 DEF DeviceInv, AnswerQuery, serviceVars
    <2> QED
      BY <2>2, <2>3
  <1>5. ASSUME NEW e \in Devices, NEW now \in Settings, DeviceEnabled(e, now),
               setting' = [setting EXCEPT ![e] = now],
               UNCHANGED <<devices, queries, wire>>, served' \subseteq served \cup {e}
        PROVE  DeviceInv'
    <2> DEFINE m == [device |-> e, setting |-> now]
    <2>1. m \in News /\ relay' = Append(relay, m)
      BY <1>5, MessageTypes DEF DeviceEnabled
    <2>2. Ends(relay', e, setting'[e]) /\ Of(relay', e) # {}
      <3>1. setting'[e] = now /\ relay \in Seq(News) /\ m.device = e /\ m.setting = now
        BY <1>5 DEF DeviceType
      <3> HIDE DEF m
      <3>2. Ends(relay', e, setting'[e])
        BY <2>1, <3>1, EndsSent
      <3>3. QED
        BY <3>2 DEF Ends
    <2>3. \A d \in Devices \ {e} :
             /\ Of(relay', d) = Of(relay, d) /\ setting'[d] = setting[d]
             /\ (Ends(relay, d, setting[d]) => Ends(relay', d, setting'[d]))
      BY <1>5, <2>1, OthersSent DEF DeviceType
    <2> HIDE DEF m
    <2> QED
      BY <1>5, <2>2, <2>3 DEF DeviceInv
  <1>6. ASSUME NEW e \in Devices, ServiceSees(e) \/ EnableDevice(e)
        PROVE  DeviceInv'
    <2>1. CASE ServiceSees(e)
      <3>1. setting[e] \in Settings /\ setting' = [setting EXCEPT ![e] = setting[e]]
        BY <2>1 DEF ServiceSees, DeviceType
      <3> QED
        BY <2>1, <3>1, <1>5 DEF ServiceSees
    <2>2. CASE EnableDevice(e)
      BY <2>2, <1>5 DEF EnableDevice
    <2> QED
      BY <1>6, <2>1, <2>2
  <1>7. ASSUME NEW e \in Devices, ServiceLoses(e) \/ ServiceLosesName(e)
        PROVE  DeviceInv'
    BY <1>7 DEF DeviceInv, DeviceType, ServiceLoses, ServiceLosesName
  <1>8. ASSUME OnDeviceEnabled
        PROVE  DeviceInv'
    <2>1. /\ wire # <<>> /\ wire' = Tail(wire) /\ wire \in Seq(News) /\ Head(wire) \in News
          /\ UNCHANGED <<queries, setting, served, relay>>
      BY <1>8, Queues DEF OnDeviceEnabled, DeviceType, serviceVars
    <2>2. \A d \in Devices :
             /\ devices[d] = "unknown" => devices'[d] = "unknown"
             /\ d # Head(wire).device => devices'[d] = devices[d]
             /\ d = Head(wire).device /\ devices[d] # "unknown"
                => devices'[d] = Head(wire).setting
      BY <1>8, <2>1 DEF OnDeviceEnabled, DeviceType
    <2>3. ASSUME NEW d \in Devices, Ends(wire, d, setting[d])
          PROVE  \/ Ends(wire', d, setting[d])
                 \/ Of(wire', d) = {} /\ devices'[d] \in {"unknown", setting[d]}
      BY <2>1, <2>2, <2>3, EndsRead
    <2>4. ASSUME NEW d \in Devices, Of(wire, d) = {}
          PROVE  Of(wire', d) = {} /\ devices'[d] = devices[d]
      BY <2>1, <2>2, <2>4, NoneRead
    <2> QED
      BY <2>1, <2>3, <2>4 DEF DeviceInv
  <1>9. ASSUME ServiceSends
        PROVE  DeviceInv'
    <2>1. /\ relay # <<>> /\ relay' = Tail(relay) /\ relay \in Seq(News) /\ Head(relay) \in News
          /\ wire \in Seq(News) /\ wire' = Append(wire, Head(relay))
          /\ UNCHANGED <<devices, queries, setting, served>>
      BY <1>9, Queues DEF ServiceSends, DeviceType
    <2>2. ASSUME NEW d \in served
          PROVE  /\ Of(relay', d) = {} \/ Ends(relay', d, setting[d])
                 /\ Of(relay', d) = {} /\ Of(relay, d) # {} => Ends(wire', d, setting[d])
      <3>1. CASE Of(relay, d) = {}
        BY <2>1, <3>1, NoneRead
      <3>2. d \in Devices
        BY DEF DeviceType
      <3>3. CASE Ends(relay, d, setting[d])
        <4>1. CASE Ends(Tail(relay), d, setting[d])
          BY <2>1, <4>1 DEF Ends
        <4>2. CASE /\ Of(Tail(relay), d) = {}
                   /\ Head(relay).device = d /\ Head(relay).setting = setting[d]
          <5>1. Ends(Append(wire, Head(relay)), Head(relay).device, Head(relay).setting)
            BY <2>1, EndsSent
          <5> QED
            BY <2>1, <4>2, <5>1
        <4> QED
          BY <2>1, <3>3, <4>1, <4>2, EndsRead
      <3> QED
        BY <3>1, <3>2, <3>3 DEF DeviceInv
    <2>3. ASSUME NEW d \in Devices, Of(relay, d) = {}
          PROVE  /\ Of(wire', d) = Of(wire, d)
                 /\ Ends(wire, d, setting[d]) => Ends(wire', d, setting[d])
      <3>1. d # Head(relay).device
        BY <2>1, <2>3, NoneRead
      <3>2. /\ Of(Append(wire, Head(relay)), d) = Of(wire, d)
            /\ \A x : Ends(wire, d, x) => Ends(Append(wire, Head(relay)), d, x)
        BY <2>1, <3>1, OthersSent
      <3> QED
        BY <2>1, <3>2
    <2>4. ASSUME NEW d \in Devices, d \in served', Of(relay', d) = {}
          PROVE  \/ d \in queries'
                 \/ Ends(wire', d, setting'[d])
                 \/ Of(wire', d) = {} /\ devices'[d] \in {"unknown", setting'[d]}
      <3>1. CASE Of(relay, d) = {}
        BY <2>1, <2>3, <2>4, <3>1 DEF DeviceInv
      <3>2. CASE Of(relay, d) # {}
        BY <2>1, <2>2, <2>4, <3>2
      <3> QED
        BY <3>1, <3>2
    <2>5. \A d \in served : Of(relay', d) = {} \/ Ends(relay', d, setting'[d])
      BY <2>1, <2>2
    <2> QED
      BY <2>1, <2>4, <2>5 DEF DeviceInv
  <1>10. ASSUME ServiceStarts \/ ServiceStops
         PROVE  DeviceInv'
    <2>1. CASE ServiceStarts
      BY <2>1 DEF DeviceInv, ServiceStarts
    <2>2. CASE ServiceStops
      BY <2>2 DEF DeviceInv, ServiceStops, Of
    <2> QED
      BY <1>10, <2>1, <2>2
  <1> QED
    BY <1>1, <1>2, <1>3, <1>4, <1>6, <1>7, <1>8, <1>9, <1>10 DEF DeviceStep

LEMMA DeviceNext == TypeInv /\ DeviceInv /\ [Next]_vars => DeviceInv'
  <1> SUFFICES ASSUME TypeInv, DeviceInv, [Next]_vars PROVE DeviceInv'
    OBVIOUS
  <1>1. CASE UNCHANGED deviceVars
    BY <1>1 DEF DeviceInv, deviceVars, serviceVars
  <1>2. CASE DeviceStep
    BY <1>2, DeviceStepInv DEF TypeInv
  <1>3. CASE HandleNmSignal
    <2>1. CASE InitTables
      BY <1>3, <2>1 DEF TypeInv, DeviceType, DeviceInv, HandleNmSignal, InitTables, serviceVars
    <2>2. CASE ~InitTables
      BY <1>3, <2>2 DEF DeviceInv, HandleNmSignal, serviceVars
    <2> QED
      BY <2>1, <2>2
  <1> QED
    BY <1>1, <1>2, <1>3 DEF Next, vars

\* At rest, handler and service agree: signals, which pass through one more thread than
\* answers, and answers overtake each other, and still the last to arrive is right.
THEOREM HandlerFollows == Spec => []EnabledFollows
  <1>1. Init => DeviceInv
    BY DEF Init, DeviceInit, DeviceInv, Of
  <1>2. TypeInv /\ DeviceInv => EnabledFollows
    BY DEF TypeInv, DeviceType, DeviceInv, EnabledFollows, Of, Ends
  <1> QED
    BY InitTypes, NextTypes, DeviceNext, <1>1, <1>2, PTL DEF Spec

-----------------------------------------------------------------------------
(* Notifications. *)

\* How far a VPN has come, by its state and by a signal; the stray signal is the last.
StateRank(state) ==
    IF state = "prepare" THEN 1 ELSE IF state = "activated" THEN 2
    ELSE IF state = "failed" THEN 3 ELSE IF state = "disconnected" THEN 4
    ELSE IF state = "gone" THEN 5 ELSE 0
Rank(m) == IF m.user THEN 5 ELSE StateRank(m.state)

\* The signals of a VPN in a queue, their order, and NetworkManager's restarts.
SignalsOf(q, v) == {i \in 1 .. Len(q) : q[i] # Registered /\ q[i].vpn = v}
Ordered(q, v) == \A i, j \in SignalsOf(q, v) : i < j => Rank(q[i]) <= Rank(q[j])
AtMost(q, v, r) == \A i \in SignalsOf(q, v) : Rank(q[i]) <= r
AtLeast(q, v, r) == \A i \in SignalsOf(q, v) : r <= Rank(q[i])
Starts(q) == {j \in 1 .. Len(q) : q[j] = Registered}
Late(q, v) == \A j \in Starts(q), i \in SignalsOf(q, v) : j < i

InOrder(s) == \A i, j \in 1 .. Len(s) : i < j => s[i] = "connected" /\ s[j] # "connected"

\* Something was said of a VPN: its entry says what came last, and of what is still to
\* come nothing is older; or the entry is gone for good.
Told(v) ==
    \/ connections[v] = Unlisted /\ vpn[v] = "gone"
    \/ \E r \in 2 .. 5 :
          /\ r <= StateRank(vpn[v]) /\ AtLeast(nmWire, v, r)
          /\ \/ r = 2 /\ connections[v].state = "activated" /\ notices[v] = <<"connected">>
             \/ r = 3 /\ connections[v].state = "failed" /\ connections[v].failed
             \/ r = 4 /\ connections[v].state = "disconnected"
             \/ r = 5 /\ connections[v].state = "activated"

VpnInv(v) ==
    /\ Ordered(nmWire, v) /\ AtMost(nmWire, v, StateRank(vpn[v]))
    /\ InOrder(notices[v])
    /\ notices[v] # <<>> => Told(v)
    /\ Listed(v) => Late(nmWire, v) /\ (Starts(nmWire) # {} => notices[v] = <<>>)

\* Only the stray signal has the user for its reason.
StrayOnly == \A i \in 1 .. Len(nmWire) :
                nmWire[i] # Registered /\ nmWire[i].user => nmWire[i].state = "activated"

NoticeInv == StrayOnly /\ \A v \in Vpns : VpnInv(v)

\* The ranks are numbers.
LEMMA Ranks ==
  /\ \A state : StateRank(state) \in 0 .. 5
  /\ \A m \in NmSignal : m # Registered =>
        /\ Rank(m) \in 1 .. 5 /\ m.vpn \in Vpns /\ m.state \in VpnStates /\ m.user \in BOOLEAN
  BY DEF StateRank, Rank, NmSignal, VpnStates, Registered

\* A new signal of a VPN, which no older one exceeds.
LEMMA SignalSent ==
  ASSUME NEW q \in Seq(NmSignal), NEW m \in NmSignal, m # Registered, NEW v, m.vpn = v,
         Ordered(q, v), AtMost(q, v, Rank(m))
  PROVE  /\ Ordered(Append(q, m), v) /\ AtMost(Append(q, m), v, Rank(m))
         /\ \A r \in Nat : AtLeast(q, v, r) /\ r <= Rank(m) => AtLeast(Append(q, m), v, r)
         /\ Late(q, v) => Late(Append(q, m), v)
         /\ Starts(Append(q, m)) = Starts(q)
  <1>1. /\ Len(q) \in Nat /\ Len(Append(q, m)) = Len(q) + 1 /\ Append(q, m)[Len(q) + 1] = m
        /\ \A i \in 1 .. Len(q) : Append(q, m)[i] = q[i]
    BY Queues
  <1>2. SignalsOf(Append(q, m), v) = SignalsOf(q, v) \cup {Len(q) + 1}
    BY <1>1 DEF SignalsOf
  <1>3. \A i \in SignalsOf(q, v) :
           i \in 1 .. Len(q) /\ Append(q, m)[i] = q[i] /\ Rank(q[i]) \in 1 .. 5
    BY <1>1, Ranks DEF SignalsOf
  <1>4. Starts(Append(q, m)) = Starts(q)
    BY <1>1 DEF Starts
  <1>5. Rank(m) \in 1 .. 5
    BY Ranks
  <1>6. Ordered(Append(q, m), v)
    BY <1>1, <1>2, <1>3, <1>5 DEF Ordered, AtMost
  <1>7. AtMost(Append(q, m), v, Rank(m))
    BY <1>1, <1>2, <1>3, <1>5 DEF AtMost
  <1>8. \A r \in Nat : AtLeast(q, v, r) /\ r <= Rank(m) => AtLeast(Append(q, m), v, r)
    BY <1>1, <1>2, <1>3, <1>5 DEF AtLeast
  <1>9. Late(q, v) => Late(Append(q, m), v)
    BY <1>1, <1>2, <1>3, <1>4 DEF Late, Starts
  <1> QED
    BY <1>4, <1>6, <1>7, <1>8, <1>9

\* A signal of another VPN, or of NetworkManager itself.
LEMMA OtherSent ==
  ASSUME NEW q \in Seq(NmSignal), NEW m \in NmSignal, NEW v, m = Registered \/ m.vpn # v
  PROVE  /\ Ordered(q, v) => Ordered(Append(q, m), v)
         /\ \A r : AtMost(q, v, r) => AtMost(Append(q, m), v, r)
         /\ \A r : AtLeast(q, v, r) => AtLeast(Append(q, m), v, r)
         /\ m # Registered => /\ Late(q, v) => Late(Append(q, m), v)
                              /\ Starts(Append(q, m)) = Starts(q)
  <1>1. /\ Len(q) \in Nat /\ Len(Append(q, m)) = Len(q) + 1 /\ Append(q, m)[Len(q) + 1] = m
        /\ \A i \in 1 .. Len(q) : Append(q, m)[i] = q[i]
    BY Queues
  <1>2. SignalsOf(Append(q, m), v) = SignalsOf(q, v)
    BY <1>1 DEF SignalsOf
  <1>3. \A i \in SignalsOf(q, v) : Append(q, m)[i] = q[i]
    BY <1>1 DEF SignalsOf
  <1>4. m # Registered => Starts(Append(q, m)) = Starts(q)
    BY <1>1 DEF Starts
  <1>5. /\ Ordered(q, v) => Ordered(Append(q, m), v)
        /\ \A r : AtMost(q, v, r) => AtMost(Append(q, m), v, r)
        /\ \A r : AtLeast(q, v, r) => AtLeast(Append(q, m), v, r)
    <2>1. \A i \in SignalsOf(Append(q, m), v) : i \in SignalsOf(q, v) /\ Rank(Append(q, m)[i]) = Rank(q[i])
      BY <1>2, <1>3
    <2>2. Ordered(q, v) => Ordered(Append(q, m), v)
      BY <2>1 DEF Ordered
    <2>3. \A r : AtMost(q, v, r) => AtMost(Append(q, m), v, r)
      BY <2>1 DEF AtMost
    <2>4. \A r : AtLeast(q, v, r) => AtLeast(Append(q, m), v, r)
      BY <2>1 DEF AtLeast
    <2> QED
      BY <2>2, <2>3, <2>4
  <1>6. m # Registered => (Late(q, v) => Late(Append(q, m), v))
    BY <1>2, <1>4 DEF Late
  <1> QED
    BY <1>4, <1>5, <1>6

\* What is left of a queue after its head was read.
LEMMA SignalRead ==
  ASSUME NEW q \in Seq(NmSignal), q # <<>>, NEW v, Ordered(q, v)
  PROVE  /\ Ordered(Tail(q), v)
         /\ \A r : AtMost(q, v, r) => AtMost(Tail(q), v, r)
         /\ \A r : AtLeast(q, v, r) => AtLeast(Tail(q), v, r)
         /\ Late(q, v) => Late(Tail(q), v)
         /\ Starts(q) = {} => Starts(Tail(q)) = {}
         /\ Head(q) = Registered => Starts(q) # {}
         /\ Head(q) # Registered /\ Head(q).vpn = v
            => /\ AtLeast(Tail(q), v, Rank(Head(q)))
               /\ \A r : AtMost(q, v, r) => Rank(Head(q)) <= r
               /\ \A r : AtLeast(q, v, r) => r <= Rank(Head(q))
               /\ Late(q, v) => Starts(Tail(q)) = {}
  <1> DEFINE t == Tail(q)
  <1>1. /\ Len(q) \in Nat /\ Len(q) >= 1 /\ Len(t) = Len(q) - 1 /\ Head(q) = q[1]
        /\ \A i \in 1 .. Len(q) - 1 : t[i] = q[i + 1]
    BY Queues
  <1>2. \A i \in SignalsOf(t, v) :
           /\ i \in Nat /\ i >= 1 /\ i + 1 \in SignalsOf(q, v) /\ t[i] = q[i + 1]
           /\ Rank(t[i]) = Rank(q[i + 1]) /\ Rank(q[i + 1]) \in Int
    BY <1>1, Ranks DEF SignalsOf
  <1>3. \A j \in Starts(t) : j \in Nat /\ j >= 1 /\ j + 1 \in Starts(q)
    BY <1>1 DEF Starts
  <1> HIDE DEF t
  <1>4. Ordered(t, v)
    <2> SUFFICES ASSUME NEW i \in SignalsOf(t, v), NEW j \in SignalsOf(t, v), i < j
                 PROVE  Rank(t[i]) <= Rank(t[j])
      BY DEF Ordered
    <2>1. /\ i + 1 \in SignalsOf(q, v) /\ j + 1 \in SignalsOf(q, v) /\ i + 1 < j + 1
          /\ Rank(t[i]) = Rank(q[i + 1]) /\ Rank(t[j]) = Rank(q[j + 1])
          /\ Rank(q[i + 1]) \in Int /\ Rank(q[j + 1]) \in Int
      BY <1>2
    <2>2. Rank(q[i + 1]) <= Rank(q[j + 1])
      BY <2>1 DEF Ordered
    <2> QED
      BY <2>1, <2>2
  <1>5. /\ \A r : AtMost(q, v, r) => AtMost(t, v, r)
        /\ \A r : AtLeast(q, v, r) => AtLeast(t, v, r)
    BY <1>2 DEF AtMost, AtLeast
  <1>6. Late(q, v) => Late(t, v)
    BY <1>2, <1>3 DEF Late
  <1>7. Head(q) = Registered => Starts(q) # {}
    BY <1>1 DEF Starts
  <1>8. ASSUME Head(q) # Registered, Head(q).vpn = v
        PROVE  /\ AtLeast(t, v, Rank(Head(q)))
               /\ \A r : AtMost(q, v, r) => Rank(Head(q)) <= r
               /\ \A r : AtLeast(q, v, r) => r <= Rank(Head(q))
               /\ Late(q, v) => Starts(t) = {}
    <2>1. 1 \in SignalsOf(q, v)
      BY <1>1, <1>8 DEF SignalsOf
    <2>2. AtLeast(t, v, Rank(Head(q)))
      <3> SUFFICES ASSUME NEW i \in SignalsOf(t, v)
                   PROVE  Rank(Head(q)) <= Rank(t[i])
        BY DEF AtLeast
      <3>1. i + 1 \in SignalsOf(q, v) /\ 1 < i + 1
            /\ Rank(t[i]) = Rank(q[i + 1]) /\ Rank(q[i + 1]) \in Int
        BY <1>2
      <3>2. Rank(q[1]) <= Rank(q[i + 1])
        BY <2>1, <3>1 DEF Ordered
      <3> QED
        BY <1>1, <3>1, <3>2
    <2>3. /\ \A r : AtMost(q, v, r) => Rank(Head(q)) <= r
          /\ \A r : AtLeast(q, v, r) => r <= Rank(Head(q))
      BY <1>1, <2>1 DEF AtMost, AtLeast
    <2>4. Late(q, v) => Starts(t) = {}
      BY <1>3, <2>1 DEF Late
    <2> QED
      BY <2>2, <2>3, <2>4
  <1>9. Starts(q) = {} => Starts(t) = {}
    BY <1>3
  <1> QED
    BY <1>4, <1>5, <1>6, <1>7, <1>8, <1>9 DEF t

\* Nothing was said of a VPN that has not started, or is listed without an entry.
LEMMA NothingYet ==
  ASSUME NEW v \in Vpns, VpnInv(v)
  PROVE  /\ vpn[v] = "none" => notices[v] = <<>>
         /\ Listed(v) /\ connections[v] = Unlisted => notices[v] = <<>>
  <1>1. StateRank("none") = 0
    BY DEF StateRank
  <1>2. Unlisted.state = "none"
    BY DEF Unlisted
  <1> QED
    BY <1>1, <1>2 DEF VpnInv, Told, Listed

\* NetworkManager sends a signal that no older one exceeds.
LEMMA EmitStep ==
  ASSUME NoticeType, NoticeInv,
         NEW v \in Vpns, NEW m \in NmSignal, m # Registered, m.vpn = v,
         m.user => m.state = "activated",
         NEW to, StateRank(to) = Rank(m), StateRank(vpn[v]) <= Rank(m), vpn[v] # "gone",
         vpn' = [vpn EXCEPT ![v] = to], nmWire' = Append(nmWire, m),
         UNCHANGED <<connections, notices>>
  PROVE  NoticeInv'
  <1>1. nmWire \in Seq(NmSignal)
    BY DEF NoticeType
  <1>2. StrayOnly'
    BY <1>1, Queues DEF NoticeInv, StrayOnly
  <1>3. ASSUME NEW w \in Vpns, w # v
        PROVE  VpnInv(w)'
    <2>1. vpn'[w] = vpn[w]
      BY <1>3 DEF NoticeType
    <2>2. /\ Ordered(nmWire', w) /\ AtMost(nmWire', w, StateRank(vpn[w]))
          /\ \A r : AtLeast(nmWire, w, r) => AtLeast(nmWire', w, r)
          /\ Late(nmWire, w) => Late(nmWire', w)
          /\ Starts(nmWire') = Starts(nmWire)
      BY <1>1, <1>3, OtherSent DEF NoticeInv, VpnInv
    <2>3. Told(w) => Told(w)'
      BY <2>1, <2>2 DEF Told
    <2> QED
      BY <2>1, <2>2, <2>3 DEF NoticeInv, VpnInv, Listed
  <1>4. VpnInv(v)'
    <2>1. VpnInv(v) /\ vpn'[v] = to
      BY DEF NoticeInv, NoticeType
    <2>2. Rank(m) \in 1 .. 5 /\ StateRank(vpn[v]) \in 0 .. 5
      BY Ranks
    <2>3. AtMost(nmWire, v, Rank(m))
      <3>1. \A i \in SignalsOf(nmWire, v) : Rank(nmWire[i]) \in 1 .. 5
        BY <1>1, Ranks DEF SignalsOf
      <3> QED
        BY <2>1, <2>2, <3>1 DEF VpnInv, AtMost
    <2>4. /\ Ordered(nmWire', v) /\ AtMost(nmWire', v, Rank(m))
          /\ \A r \in Nat : AtLeast(nmWire, v, r) /\ r <= Rank(m) => AtLeast(nmWire', v, r)
          /\ Late(nmWire, v) => Late(nmWire', v)
          /\ Starts(nmWire') = Starts(nmWire)
      BY <1>1, <2>1, <2>3, SignalSent DEF VpnInv
    <2>5. Told(v) => Told(v)'
      <3> SUFFICES ASSUME Told(v) PROVE Told(v)'
        OBVIOUS
      <3>1. PICK r \in 2 .. 5 :
                   /\ r <= StateRank(vpn[v]) /\ AtLeast(nmWire, v, r)
                   /\ \/ r = 2 /\ connections[v].state = "activated" /\ notices[v] = <<"connected">>
                      \/ r = 3 /\ connections[v].state = "failed" /\ connections[v].failed
                      \/ r = 4 /\ connections[v].state = "disconnected"
                      \/ r = 5 /\ connections[v].state = "activated"
        BY DEF Told
      <3>2. r <= StateRank(to) /\ AtLeast(nmWire', v, r)
        BY <2>2, <2>4, <3>1
      <3> QED
        BY <2>1, <3>1, <3>2 DEF Told
    <2>6. Late(nmWire, v) /\ (Starts(nmWire) # {} => notices[v] = <<>>)
      <3>1. CASE vpn[v] = "none"
        <4>1. SignalsOf(nmWire, v) = {}
          <5>1. \A i \in SignalsOf(nmWire, v) : Rank(nmWire[i]) \in 1 .. 5
            BY <1>1, Ranks DEF SignalsOf
          <5>2. StateRank(vpn[v]) = 0
            BY <3>1 DEF StateRank
          <5> QED
            BY <2>1, <5>1, <5>2 DEF VpnInv, AtMost
        <4> QED
          BY <2>1, <3>1, <4>1, NothingYet DEF Late
      <3>2. CASE vpn[v] # "none"
        BY <2>1, <3>2 DEF VpnInv, Listed
      <3> QED
        BY <3>1, <3>2
    <2> QED
      BY <2>1, <2>4, <2>5, <2>6 DEF VpnInv
  <1> QED
    BY <1>2, <1>3, <1>4 DEF NoticeInv

\* VPNs that are there end, with or without a restart of NetworkManager.
LEMMA EndStep ==
  ASSUME NoticeType, NoticeInv,
         vpn' \in [Vpns -> VpnStates \cup {"none", "gone"}],
         \A v \in Vpns : vpn'[v] = vpn[v] \/ vpn'[v] = "gone",
         \/ nmWire' = nmWire
         \/ nmWire' = Append(nmWire, Registered) /\ \A v \in Vpns : ~Listed(v)',
         UNCHANGED <<connections, notices>>
  PROVE  NoticeInv'
  <1>1. nmWire \in Seq(NmSignal) /\ Registered \in NmSignal
    BY MessageTypes DEF NoticeType
  <1>2. StrayOnly'
    <2>1. CASE nmWire' = nmWire
      BY <2>1 DEF NoticeInv, StrayOnly
    <2>2. CASE nmWire' = Append(nmWire, Registered)
      BY <1>1, <2>2, Queues DEF NoticeInv, StrayOnly
    <2> QED
      BY <2>1, <2>2
  <1>3. ASSUME NEW v \in Vpns
        PROVE  VpnInv(v)'
    <2>1. VpnInv(v)
      BY DEF NoticeInv
    <2>2. StateRank(vpn[v]) \in 0 .. 5 /\ StateRank(vpn[v]) <= StateRank(vpn'[v])
          /\ StateRank(vpn'[v]) \in 0 .. 5
      <3>1. StateRank("gone") = 5
        BY DEF StateRank
      <3>2. StateRank(vpn[v]) \in 0 .. 5 /\ StateRank(vpn'[v]) \in 0 .. 5
        BY Ranks
      <3>3. CASE vpn'[v] = vpn[v]
        BY <3>2, <3>3
      <3>4. CASE vpn'[v] = "gone"
        BY <3>1, <3>2, <3>4
      <3> QED
        BY <3>2, <3>3, <3>4
    <2>3. /\ Ordered(nmWire', v) /\ AtMost(nmWire', v, StateRank(vpn[v]))
          /\ \A r : AtLeast(nmWire, v, r) => AtLeast(nmWire', v, r)
      <3>1. CASE nmWire' = nmWire
        BY <2>1, <3>1 DEF VpnInv
      <3>2. CASE nmWire' = Append(nmWire, Registered)
        BY <1>1, <2>1, <3>2, OtherSent DEF VpnInv
      <3> QED
        BY <3>1, <3>2
    <2>4. AtMost(nmWire', v, StateRank(vpn'[v]))
      <3>1. \A i \in SignalsOf(nmWire', v) : Rank(nmWire'[i]) \in 1 .. 5
        <4>1. nmWire' \in Seq(NmSignal)
          BY <1>1, Queues
        <4> QED
          BY <4>1, Ranks DEF SignalsOf
      <3> QED
        BY <2>2, <2>3, <3>1 DEF AtMost
    <2>5. Told(v) => Told(v)'
      <3> SUFFICES ASSUME Told(v) PROVE Told(v)'
        OBVIOUS
      <3>1. CASE connections[v] = Unlisted /\ vpn[v] = "gone"
        BY <3>1 DEF Told
      <3>2. CASE \E r \in 2 .. 5 :
                   /\ r <= StateRank(vpn[v]) /\ AtLeast(nmWire, v, r)
                   /\ \/ r = 2 /\ connections[v].state = "activated" /\ notices[v] = <<"connected">>
                      \/ r = 3 /\ connections[v].state = "failed" /\ connections[v].failed
                      \/ r = 4 /\ connections[v].state = "disconnected"
                      \/ r = 5 /\ connections[v].state = "activated"
        <4>1. \A r \in 2 .. 5 : /\ r <= StateRank(vpn[v]) => r <= StateRank(vpn'[v])
                                /\ AtLeast(nmWire, v, r) => AtLeast(nmWire', v, r)
          BY <2>2, <2>3
        <4> QED
          BY <3>2, <4>1 DEF Told
      <3> QED
        BY <3>1, <3>2 DEF Told
    <2>6. Listed(v)' => nmWire' = nmWire /\ Listed(v)
      BY DEF Listed
    <2> QED
      BY <2>1, <2>3, <2>4, <2>5, <2>6 DEF VpnInv
  <1> QED
    BY <1>2, <1>3 DEF NoticeInv

\* An entry that is gone, of a VPN that is.
LEMMA GoneEntry ==
  ASSUME NEW v \in Vpns, NoticeType, VpnInv(v), ~Listed(v), notices[v] # <<>>,
         connections'[v] = Unlisted, vpn' = vpn
  PROVE  Told(v)'
  BY NothingYet DEF Told, Listed, NoticeType

\* Entries come and go: nothing is said.
LEMMA EntryStep ==
  ASSUME NoticeType, NoticeInv, NEW v \in Vpns,
         OnActiveConnectionAdded(v) \/ OnActiveConnectionRemoved(v)
  PROVE  NoticeInv'
  <1>1. UNCHANGED <<vpn, nmWire, notices>>
    BY DEF OnActiveConnectionAdded, OnActiveConnectionRemoved
  <1>2. \A w \in Vpns : w # v => connections'[w] = connections[w]
    BY DEF OnActiveConnectionAdded, OnActiveConnectionRemoved, NoticeType
  <1>3. StrayOnly'
    BY <1>1 DEF NoticeInv, StrayOnly
  <1>4. ASSUME NEW w \in Vpns
        PROVE  notices[w] # <<>> => Told(w)'
    <2>1. CASE w # v
      BY <1>1, <1>2, <2>1 DEF NoticeInv, VpnInv, Told
    <2>2. CASE w = v /\ OnActiveConnectionAdded(v)
      BY <2>2, NothingYet DEF NoticeInv, OnActiveConnectionAdded
    <2>3. CASE w = v /\ OnActiveConnectionRemoved(v)
      <3>1. ~Listed(v) /\ connections'[v] = Unlisted
        BY <2>3 DEF OnActiveConnectionRemoved, NoticeType
      <3> QED
        BY <1>1, <2>3, <3>1, GoneEntry DEF NoticeInv
    <2> QED
      BY <2>1, <2>2, <2>3
  <1> QED
    BY <1>1, <1>3, <1>4 DEF NoticeInv, VpnInv, Listed

\* The steps of VPNs and of the system that are no signal to the handler.
LEMMA NoticeStepInv ==
  ASSUME NoticeType, NoticeInv, NoticeStep
  PROVE  NoticeInv'
  <1>1. ASSUME NEW v \in Vpns, NEW from, NEW to \in VpnStates, Proceeds(v, from, to),
               StateRank(vpn[v]) <= StateRank(to), vpn[v] # "gone"
        PROVE  NoticeInv'
    <2> DEFINE m == [vpn |-> v, state |-> to, user |-> FALSE]
    <2>1. /\ m \in NmSignal /\ m # Registered /\ m.vpn = v /\ ~m.user /\ Rank(m) = StateRank(to)
          /\ vpn' = [vpn EXCEPT ![v] = to] /\ nmWire' = Append(nmWire, m)
          /\ UNCHANGED <<connections, notices>>
      BY <1>1, MessageTypes DEF Proceeds, Emit, Registered, VpnStates, Rank
    <2> HIDE DEF m
    <2> QED
      BY <1>1, <2>1, EmitStep
  <1>2. ASSUME NEW v \in Vpns, Activate(v) \/ VpnGoesOn(v) \/ Repeat(v)
        PROVE  NoticeInv'
    <2>1. CASE Activate(v)
      <3>1. vpn[v] = "none" /\ Proceeds(v, {"none"}, "prepare") /\ "prepare" \in VpnStates
        BY <2>1 DEF Activate, Proceeds, VpnStates
      <3>2. StateRank(vpn[v]) <= StateRank("prepare")
        BY <3>1 DEF StateRank
      <3> QED
        BY <1>1, <3>1, <3>2
    <2>2. CASE VpnGoesOn(v)
      <3>1. {"activated", "failed", "disconnected"} \subseteq VpnStates
        BY DEF VpnStates
      <3>2. CASE Proceeds(v, {"prepare"}, "activated")
        <4>1. StateRank(vpn[v]) <= StateRank("activated") /\ vpn[v] # "gone"
          BY <3>2 DEF Proceeds, StateRank
        <4> QED
          BY <1>1, <3>1, <3>2, <4>1
      <3>3. CASE Proceeds(v, {"prepare", "activated"}, "failed")
        <4>1. StateRank(vpn[v]) <= StateRank("failed") /\ vpn[v] # "gone"
          BY <3>3 DEF Proceeds, StateRank
        <4> QED
          BY <1>1, <3>1, <3>3, <4>1
      <3>4. CASE Proceeds(v, {"prepare", "activated", "failed"}, "disconnected")
        <4>1. StateRank(vpn[v]) <= StateRank("disconnected") /\ vpn[v] # "gone"
          BY <3>4 DEF Proceeds, StateRank
        <4> QED
          BY <1>1, <3>1, <3>4, <4>1
      <3> QED
        BY <2>2, <3>2, <3>3, <3>4 DEF VpnGoesOn
    <2>3. CASE Repeat(v)
      <3>1. vpn[v] \in VpnStates /\ vpn[v] # "gone" /\ Proceeds(v, {vpn[v]}, vpn[v])
        BY <2>3 DEF Repeat, Listed, NoticeType
      <3>2. StateRank(vpn[v]) <= StateRank(vpn[v])
        BY Ranks
      <3> QED
        BY <1>1, <3>1, <3>2
    <2> QED
      BY <1>2, <2>1, <2>2, <2>3
  <1>3. ASSUME NEW v \in Vpns, Stray(v)
        PROVE  NoticeInv'
    <2> DEFINE m == [vpn |-> v, state |-> "activated", user |-> TRUE]
    <2>1. /\ m \in NmSignal /\ m # Registered /\ m.vpn = v /\ m.state = "activated" /\ Rank(m) = 5
          /\ vpn' = [vpn EXCEPT ![v] = "gone"] /\ nmWire' = Append(nmWire, m)
          /\ vpn[v] # "gone" /\ UNCHANGED <<connections, notices>>
      BY <1>3, MessageTypes DEF Stray, Emit, Registered, VpnStates, Rank
    <2>2. StateRank("gone") = 5 /\ StateRank(vpn[v]) <= 5
      BY Ranks DEF StateRank
    <2> HIDE DEF m
    <2> QED
      BY <2>1, <2>2, EmitStep
  <1>4. ASSUME NEW v \in Vpns, Vanish(v)
        PROVE  NoticeInv'
    <2>1. /\ vpn' \in [Vpns -> VpnStates \cup {"none", "gone"}]
          /\ \A w \in Vpns : vpn'[w] = vpn[w] \/ vpn'[w] = "gone"
          /\ UNCHANGED <<nmWire, connections, notices>>
      BY <1>4 DEF Vanish, NoticeType
    <2> QED
      BY <2>1, EndStep
  <1>5. CASE NmRestarts
    <2>1. /\ vpn' \in [Vpns -> VpnStates \cup {"none", "gone"}]
          /\ \A w \in Vpns : vpn'[w] = vpn[w] \/ vpn'[w] = "gone"
          /\ nmWire' = Append(nmWire, Registered) /\ \A w \in Vpns : ~Listed(w)'
          /\ UNCHANGED <<connections, notices>>
      BY <1>5 DEF NmRestarts, NoticeType, Listed
    <2> QED
      BY <2>1, EndStep
  <1>6. CASE Sleep \/ Wake \/ WakeTimerFires
    <2>1. UNCHANGED <<vpn, nmWire, connections, notices>>
      BY <1>6 DEF Sleep, Wake, WakeTimerFires, vpnVars
    <2> QED
      BY <2>1 DEF NoticeInv, StrayOnly, VpnInv, Told, Listed
  <1> QED
    BY <1>2, <1>3, <1>4, <1>5, <1>6, EntryStep DEF NoticeStep

\* A first notice, or one after "connected", is in order.
LEMMA Notices ==
  ASSUME NEW x, x # "connected"
  PROVE  /\ InOrder(<<>>) /\ InOrder(<<"connected">>)
         /\ InOrder(Append(<<>>, x)) /\ InOrder(Append(<<"connected">>, x))
  <1>1. InOrder(<<>>) /\ InOrder(<<"connected">>) /\ InOrder(Append(<<>>, x))
    BY DEF InOrder
  <1>2. InOrder(Append(<<"connected">>, x))
    <2> DEFINE q == <<"connected">>
    <2>1. q \in Seq({"connected", x}) /\ Len(q) = 1 /\ q[1] = "connected"
      OBVIOUS
    <2>2. /\ Len(Append(q, x)) = 2
          /\ Append(q, x)[1] = "connected" /\ Append(q, x)[2] = x
      BY <2>1, Queues
    <2> HIDE DEF q
    <2>3. InOrder(Append(q, x))
      BY <2>2 DEF InOrder
    <2> QED
      BY <2>3 DEF q
  <1> QED
    BY <1>1, <1>2

\* What a signal does to the notices of its VPN.
LEMMA HandleTold ==
  ASSUME NoticeType, NEW v \in Vpns, VpnInv(v), NEW m \in NmSignal, m # Registered, m.vpn = v,
         m.user => m.state = "activated",
         Rank(m) <= StateRank(vpn[v]), \A r : AtLeast(nmWire, v, r) => r <= Rank(m),
         AtLeast(nmWire', v, Rank(m)), \A r : AtLeast(nmWire, v, r) => AtLeast(nmWire', v, r),
         vpn' = vpn, HandleVpnStateChanged(v, m.state, m.user)
  PROVE  InOrder(notices[v])' /\ (notices'[v] # <<>> => Told(v)')
  <1> DEFINE e == connections[v]
  <1>1. /\ m.state \in VpnStates /\ m.user \in BOOLEAN
        /\ Rank(m) = IF m.user THEN 5 ELSE StateRank(m.state)
    BY Ranks DEF Rank
  <1>2. notices[v] # <<>> /\ e # Unlisted
        => \E r \in 2 .. 5 :
              /\ r <= Rank(m)
              /\ \/ r = 2 /\ e.state = "activated" /\ notices[v] = <<"connected">>
                 \/ r = 3 /\ e.state = "failed" /\ e.failed
                 \/ r = 4 /\ e.state = "disconnected"
                 \/ r = 5 /\ e.state = "activated"
    BY DEF VpnInv, Told
  <1>3. CASE e = Unlisted \/ e.state = m.state
    <2>1. UNCHANGED <<connections, notices>>
      BY <1>3 DEF HandleVpnStateChanged
    <2>2. Told(v) => Told(v)'
      BY <2>1 DEF Told
    <2> QED
      BY <2>1, <2>2 DEF VpnInv, InOrder
  <1>4. ASSUME e # Unlisted, e.state # m.state, NEW failed, SetEntry(v, m.state, failed)
        PROVE  connections'[v].state = m.state /\ connections'[v].failed = failed
    BY <1>4 DEF SetEntry, NoticeType
  <1>5. CASE e # Unlisted /\ e.state # m.state /\ m.state = "prepare"
    <2>1. notices' = notices /\ Rank(m) = 1
      BY <1>1, <1>5 DEF HandleVpnStateChanged, StateRank
    <2>2. notices[v] = <<>>
      BY <1>2, <1>5, <2>1
    <2> QED
      BY <2>1, <2>2 DEF VpnInv, InOrder
  <1>6. CASE e # Unlisted /\ e.state # m.state /\ m.state = "activated" /\ m.user
    <2>1. notices' = notices /\ SetEntry(v, m.state, e.failed) /\ Rank(m) = 5
      BY <1>1, <1>6 DEF HandleVpnStateChanged
    <2>2. Told(v)'
      BY <1>4, <1>6, <2>1 DEF Told
    <2> QED
      BY <2>1, <2>2 DEF VpnInv, InOrder
  <1>7. CASE e # Unlisted /\ e.state # m.state /\ m.state = "activated" /\ ~m.user
    <2>1. Notify(v, "connected") /\ SetEntry(v, m.state, e.failed) /\ Rank(m) = 2
      BY <1>1, <1>7 DEF HandleVpnStateChanged, StateRank
    <2>2. notices[v] = <<>>
      BY <1>2, <1>7, <2>1
    <2>3. notices'[v] = <<>> \/ notices'[v] = <<"connected">>
      BY <2>1, <2>2 DEF Notify, NoticeType
    <2>4. notices'[v] = <<"connected">> => Told(v)'
      BY <1>4, <1>7, <2>1 DEF Told
    <2>5. InOrder(notices[v])'
      BY <2>3 DEF InOrder
    <2> QED
      BY <2>3, <2>4, <2>5
  <1>8. ASSUME notices[v] = <<>> \/ notices[v] = <<"connected">>,
               NEW notice \in {"failed", "disconnected"}, Notify(v, notice)
        PROVE  InOrder(notices[v])'
    <2>1. notices'[v] = notices[v] \/ notices'[v] = Append(notices[v], notice)
      BY <1>8 DEF Notify, NoticeType
    <2>2. InOrder(notices'[v])
      BY <1>8, <2>1, Notices
    <2> QED
      BY <2>2 DEF InOrder
  <1>9. CASE e # Unlisted /\ e.state # m.state /\ m.state = "disconnected"
    <2>1. /\ SetEntry(v, m.state, FALSE) /\ Rank(m) = 4
          /\ IF e.failed THEN notices' = notices ELSE Notify(v, "disconnected")
      <3>1. Rank(m) = 4
        BY <1>1, <1>9 DEF StateRank
      <3> QED
        BY <1>9, <3>1 DEF HandleVpnStateChanged
    <2>2. Told(v)'
      <3>1. connections'[v].state = "disconnected"
        BY <1>4, <1>9, <2>1
      <3> QED
        BY <2>1, <3>1 DEF Told
    <2>3. InOrder(notices[v])'
      <3>1. CASE e.failed
        BY <2>1, <3>1 DEF VpnInv, InOrder
      <3>2. CASE ~e.failed
        <4>1. notices[v] = <<>> \/ notices[v] = <<"connected">>
          BY <1>2, <1>9, <2>1, <3>2
        <4> QED
          BY <1>8, <2>1, <3>2, <4>1
      <3> QED
        BY <3>1, <3>2
    <2> QED
      BY <2>2, <2>3
  <1>10. CASE e # Unlisted /\ e.state # m.state /\ m.state = "failed"
    <2>1. SetEntry(v, m.state, TRUE) /\ Rank(m) = 3 /\ Notify(v, "failed")
      <3>1. Rank(m) = 3
        BY <1>1, <1>10 DEF StateRank
      <3> QED
        BY <1>10, <3>1 DEF HandleVpnStateChanged
    <2>2. Told(v)'
      <3>1. connections'[v].state = "failed" /\ connections'[v].failed
        BY <1>4, <1>10, <2>1
      <3> QED
        BY <2>1, <3>1 DEF Told
    <2>3. notices[v] = <<>> \/ notices[v] = <<"connected">>
      BY <1>2, <1>10, <2>1
    <2> QED
      BY <1>8, <2>1, <2>2, <2>3
  <1> QED
    BY <1>1, <1>3, <1>5, <1>6, <1>7, <1>9, <1>10 DEF VpnStates

\* The handler reads a signal: one of a VPN, or that NetworkManager has come up, after
\* which nothing is said of a VPN that was there before.
LEMMA HandleNmSignalInv ==
  ASSUME NoticeType, NoticeInv, HandleNmSignal
  PROVE  NoticeInv'
  <1> DEFINE m == Head(nmWire)
  <1>1. /\ nmWire \in Seq(NmSignal) /\ nmWire # <<>> /\ nmWire' = Tail(nmWire) /\ m \in NmSignal
        /\ m = nmWire[1] /\ 1 \in 1 .. Len(nmWire) /\ vpn' = vpn
    BY Queues DEF NoticeType, HandleNmSignal
  <1>2. StrayOnly' /\ (m # Registered /\ m.user => m.state = "activated")
    BY <1>1, Queues DEF NoticeInv, StrayOnly
  <1>3. ASSUME NEW w \in Vpns
        PROVE  /\ VpnInv(w)
               /\ Ordered(nmWire', w)
               /\ \A r : AtMost(nmWire, w, r) => AtMost(nmWire', w, r)
               /\ \A r : AtLeast(nmWire, w, r) => AtLeast(nmWire', w, r)
               /\ Late(nmWire, w) => Late(nmWire', w)
               /\ Starts(nmWire) = {} => Starts(nmWire') = {}
               /\ m = Registered => Starts(nmWire) # {}
               /\ m # Registered /\ m.vpn = w
                  => /\ AtLeast(nmWire', w, Rank(m))
                     /\ \A r : AtMost(nmWire, w, r) => Rank(m) <= r
                     /\ \A r : AtLeast(nmWire, w, r) => r <= Rank(m)
                     /\ Late(nmWire, w) => Starts(nmWire') = {}
    BY <1>1, SignalRead DEF NoticeInv, VpnInv
  <1>4. CASE m = Registered
    <2>1. /\ notices' = notices
          /\ \A w \in Vpns : ~Listed(w) => connections'[w] = Unlisted
      <3>1. InitTables
        BY <1>4 DEF HandleNmSignal
      <3> QED
        BY <3>1 DEF InitTables
    <2>2. ASSUME NEW w \in Vpns, notices[w] # <<>>
          PROVE  Told(w)'
      <3>1. ~Listed(w) /\ VpnInv(w)
        BY <1>3, <1>4, <2>2 DEF VpnInv
      <3> QED
        BY <1>1, <2>1, <2>2, <3>1, GoneEntry
    <2>3. ASSUME NEW w \in Vpns
          PROVE  VpnInv(w)'
      <3>1. /\ Ordered(nmWire', w) /\ AtMost(nmWire', w, StateRank(vpn[w]))
            /\ InOrder(notices[w])
        BY <1>3 DEF VpnInv
      <3>2. Listed(w) => Late(nmWire', w) /\ notices[w] = <<>>
        BY <1>3, <1>4 DEF VpnInv
      <3> QED
        BY <1>1, <2>1, <2>2, <3>1, <3>2 DEF VpnInv, Listed
    <2> QED
      BY <1>2, <2>3 DEF NoticeInv
  <1>5. CASE m # Registered
    <2>1. m.vpn \in Vpns /\ HandleVpnStateChanged(m.vpn, m.state, m.user)
      BY <1>1, <1>5, Ranks DEF HandleNmSignal
    <2>2. ASSUME NEW w \in Vpns, w # m.vpn
          PROVE  notices'[w] = notices[w] /\ connections'[w] = connections[w]
      BY <2>1, <2>2 DEF HandleVpnStateChanged, SetEntry, Notify, NoticeType
    <2>3. ASSUME NEW w \in Vpns
          PROVE  InOrder(notices[w])' /\ (notices'[w] # <<>> => Told(w)')
      <3>1. CASE w = m.vpn
        <4>1. Rank(m) <= StateRank(vpn[w])
          BY <1>3, <1>5, <3>1 DEF VpnInv
        <4> QED
          BY <1>1, <1>2, <1>3, <1>5, <2>1, <3>1, <4>1, HandleTold
      <3>2. CASE w # m.vpn
        <4>1. Told(w) => Told(w)'
          BY <1>1, <1>3, <2>2, <3>2 DEF Told
        <4> QED
          BY <1>3, <2>2, <3>2, <4>1 DEF VpnInv, InOrder
      <3> QED
        BY <3>1, <3>2
    <2>4. ASSUME NEW w \in Vpns, Listed(w)
          PROVE  Late(nmWire', w) /\ (Starts(nmWire') # {} => notices'[w] = <<>>)
      <3>1. CASE w = m.vpn
        BY <1>3, <1>5, <2>4, <3>1 DEF VpnInv
      <3>2. CASE w # m.vpn
        BY <1>3, <2>2, <2>4, <3>2 DEF VpnInv
      <3> QED
        BY <3>1, <3>2
    <2>5. ASSUME NEW w \in Vpns
          PROVE  Ordered(nmWire', w) /\ AtMost(nmWire', w, StateRank(vpn'[w]))
      BY <1>1, <1>3 DEF VpnInv
    <2> QED
      BY <1>1, <1>2, <2>3, <2>4, <2>5 DEF NoticeInv, VpnInv, Listed
  <1> QED
    BY <1>4, <1>5

LEMMA NoticeNext == TypeInv /\ NoticeInv /\ [Next]_vars => NoticeInv'
  <1> SUFFICES ASSUME TypeInv, NoticeInv, [Next]_vars PROVE NoticeInv'
    OBVIOUS
  <1>1. CASE UNCHANGED noticeVars
    BY <1>1 DEF NoticeInv, StrayOnly, VpnInv, Told, Listed, noticeVars, vpnVars
  <1>2. CASE NoticeStep
    BY <1>2, NoticeStepInv DEF TypeInv
  <1>3. CASE HandleNmSignal
    BY <1>3, HandleNmSignalInv DEF TypeInv
  <1> QED
    BY <1>1, <1>2, <1>3 DEF Next, vars

LEMMA NoticeInitInv == Init => NoticeInv
  <1> SUFFICES ASSUME Init PROVE NoticeInv
    OBVIOUS
  <1>1. nmWire = <<Registered>>
    BY DEF Init
  <1>2. \A v : SignalsOf(nmWire, v) = {}
    BY <1>1 DEF SignalsOf
  <1>3. \A v \in Vpns : vpn[v] = "none" /\ notices[v] = <<>>
    BY DEF Init, NoticeInit
  <1>4. StrayOnly
    BY <1>1 DEF StrayOnly
  <1>5. ASSUME NEW v \in Vpns
        PROVE  VpnInv(v)
    BY <1>2, <1>3 DEF VpnInv, Ordered, AtMost, InOrder, Late, Listed
  <1> QED
    BY <1>4, <1>5 DEF NoticeInv

\* Of one activation the user hears that it has connected, or not, and then at most
\* once how it ended, for any number of VPNs, signals that are repeated or stray,
\* restarts of NetworkManager and sleeps, and whatever the fields that are not
\* initialised hold.
THEOREM NoticesMakeSense == Spec => []NoticesInOrder
  <1>1. NoticeInv => NoticesInOrder
    BY DEF NoticeInv, VpnInv, InOrder, NoticesInOrder
  <1> QED
    BY InitTypes, NextTypes, NoticeInitInv, NoticeNext, <1>1, PTL DEF Spec

=============================================================================
