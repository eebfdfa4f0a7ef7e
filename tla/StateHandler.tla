----------------------------- MODULE StateHandler -----------------------------
(***************************************************************************)
(* What the session service tells the user of the network                  *)
(* (session/networkstatehandler.cpp): its table of VPN connections and the *)
(* notifications on them, its copy of what devices are enabled, and, from  *)
(* module Osd, the messages on WLAN and airplane mode.                     *)
(*                                                                         *)
(* NetworkManager's signals of VPN states, and that it is there, come in   *)
(* order; the lists of connections and devices are those of                *)
(* NetworkManagerQt and are followed at any time.  The device service      *)
(* answers from one thread and signals from another.                       *)
(***************************************************************************)
EXTENDS Osd, Sequences

CONSTANTS Vpns,         \* activations of VPNs: each has a path of its own
          Devices,      \* devices
          MaxInputs     \* bound on what users, VPN servers and restarts do

ASSUME StateHandlerAssumption == MaxInputs \in Nat

VpnStates == {"prepare", "activated", "failed", "disconnected"}
Unlisted == [state |-> "none", failed |-> FALSE]
Registered == [vpn |-> "none", state |-> "registered", user |-> FALSE]
NmSignal == [vpn : Vpns, state : VpnStates, user : BOOLEAN] \cup {Registered}
Settings == {"on", "off"}
News == [device : Devices, setting : Settings]

VARIABLES
    vpn,            \* VPN states at NetworkManager
    nmWire,         \* its signals that are not handled
    connections,    \* m_activeConnections: vpnState and vpnFailed
    notices,        \* history: notifications on each activation
    notify,         \* m_notifyEnabled
    wakeTimers,     \* timers of enableNotify
    present,        \* devices of NetworkManager
    devices,        \* m_devices: enabled
    queries,        \* calls of IsDeviceEnabled that are not answered
    setting,        \* what is enabled, at the device service, by the names of interfaces
    serving,        \* the service runs
    served,         \* devices it knows by a name
    relay,          \* its signals on their way to the thread that sends them
    wire,           \* its signals and answers on their way
    inputs          \* inputs so far

vpnVars == <<vpn, connections, notices>>
serviceVars == <<setting, serving, served, relay>>
noticeVars == <<vpnVars, nmWire, notify, wakeTimers>>
deviceVars == <<present, devices, queries, serviceVars, wire>>
vars == <<osdVars, noticeVars, deviceVars, inputs>>

TypeOK ==
    /\ OsdTypeOK
    /\ vpn \in [Vpns -> VpnStates \cup {"none", "gone"}]
    /\ nmWire \in Seq(NmSignal)
    /\ connections \in [Vpns -> [state : VpnStates \cup {"none", "other"}, failed : BOOLEAN]]
    /\ notices \in [Vpns -> Seq({"connected", "disconnected", "failed"})]
    /\ notify \in BOOLEAN /\ wakeTimers \in 0 .. MaxInputs
    /\ present \subseteq Devices
    /\ devices \in [Devices -> Settings \cup {"unknown"}]
    /\ queries \subseteq Devices
    /\ setting \in [Devices -> Settings]
    /\ serving \in BOOLEAN /\ served \subseteq Devices
    /\ ~serving => served = {} /\ relay = <<>>
    /\ relay \in Seq(News) /\ wire \in Seq(News)
    /\ inputs \in 0 .. MaxInputs

NoticeInit ==
    /\ vpn = [v \in Vpns |-> "none"]
    /\ connections = [v \in Vpns |-> Unlisted]
    /\ notices = [v \in Vpns |-> <<>>]
    /\ notify = TRUE /\ wakeTimers = 0

DeviceInit ==
    /\ present = {} /\ queries = {}
    /\ devices = [d \in Devices |-> "unknown"]
    /\ setting \in [Devices -> Settings]
    /\ serving = FALSE /\ served = {}
    /\ relay = <<>> /\ wire = <<>>

Init ==
    /\ OsdInit /\ NoticeInit /\ DeviceInit
    /\ nmWire = <<Registered>>          \* the answer to GetNameOwner
    /\ inputs = 0

Input == inputs < MaxInputs /\ inputs' = inputs + 1

-----------------------------------------------------------------------------
(* VPN connections at NetworkManager. *)

Emit(v, state, user) == nmWire' = Append(nmWire, [vpn |-> v, state |-> state, user |-> user])

Listed(v) == vpn[v] \notin {"none", "gone"}

\* A state and its signal, which may come twice.
Proceeds(v, from, to) ==
    /\ vpn[v] \in from
    /\ vpn' = [vpn EXCEPT ![v] = to]
    /\ Emit(v, to, FALSE)
    /\ UNCHANGED <<connections, notices, notify, wakeTimers>>

VpnGoesOn(v) ==
    /\ \/ Proceeds(v, {"prepare"}, "activated")
       \/ Proceeds(v, {"prepare", "activated"}, "failed")
       \/ Proceeds(v, {"prepare", "activated", "failed"}, "disconnected")
    /\ UNCHANGED inputs

Activate(v) == Input /\ Proceeds(v, {"none"}, "prepare")

Repeat(v) ==
    /\ Input /\ Listed(v)
    /\ Proceeds(v, {vpn[v]}, vpn[v])

\* The signal that "is emitted unexpectedly when vpn is disconnected" (line 510).
Stray(v) ==
    /\ vpn[v] = "disconnected" /\ vpn' = [vpn EXCEPT ![v] = "gone"]
    /\ Emit(v, "activated", TRUE)
    /\ UNCHANGED <<connections, notices, notify, wakeTimers, inputs>>

Vanish(v) ==
    /\ vpn[v] \in {"failed", "disconnected"} /\ vpn' = [vpn EXCEPT ![v] = "gone"]
    /\ UNCHANGED <<nmWire, connections, notices, notify, wakeTimers, inputs>>

-----------------------------------------------------------------------------
(* VPN connections in the table. *)

\* A new entry: vpnState and vpnFailed are not initialised.
NewEntry == [state : VpnStates \cup {"other"}, failed : BOOLEAN]

\* onActiveConnectionAdded
OnActiveConnectionAdded(v) ==
    /\ Listed(v) /\ connections[v] = Unlisted
    /\ \E e \in NewEntry : connections' = [connections EXCEPT ![v] = e]
    /\ UNCHANGED <<vpn, nmWire, notices, notify, wakeTimers, inputs>>

\* onActiveConnectionRemoved
OnActiveConnectionRemoved(v) ==
    /\ ~Listed(v) /\ connections[v] # Unlisted
    /\ connections' = [connections EXCEPT ![v] = Unlisted]
    /\ UNCHANGED <<vpn, nmWire, notices, notify, wakeTimers, inputs>>

\* notify
Notify(v, notice) ==
    notices' = IF notify THEN [notices EXCEPT ![v] = Append(@, notice)] ELSE notices

SetEntry(v, state, failed) ==
    connections' = [connections EXCEPT ![v] = [state |-> state, failed |-> failed]]

HandleVpnStateChanged_TellsAlways(v, state, user) ==    \* failed is forgotten
    LET e == connections[v] IN
    IF e = Unlisted \/ e.state = state \/ state = "prepare" \/ user
    THEN UNCHANGED <<connections, notices>>
    ELSE /\ SetEntry(v, state, FALSE)
         /\ Notify(v, IF state = "activated" THEN "connected" ELSE state)

\* handleVpnStateChanged
HandleVpnStateChanged(v, state, user) ==
    LET e == connections[v] IN
    \/ /\ e = Unlisted \/ e.state = state
       /\ UNCHANGED <<connections, notices>>
    \/ /\ e # Unlisted /\ e.state # state
       /\ \/ /\ state = "prepare" \/ (state = "activated" /\ user)
             /\ SetEntry(v, state, e.failed) /\ UNCHANGED notices
          \/ /\ state = "activated" /\ ~user
             /\ SetEntry(v, state, e.failed) /\ Notify(v, "connected")
          \/ /\ state = "disconnected"
             /\ SetEntry(v, state, FALSE)
             /\ IF e.failed THEN UNCHANGED notices ELSE Notify(v, "disconnected")
          \/ /\ state = "failed"
             /\ SetEntry(v, state, TRUE) /\ Notify(v, "failed")

\* init, called when NetworkManager has come up: both tables are read anew.
InitTables ==
    /\ \E e \in [Vpns -> NewEntry] :
          connections' = [v \in Vpns |-> IF Listed(v) THEN e[v] ELSE Unlisted]
    /\ devices' = [d \in Devices |-> IF d \in present THEN "on" ELSE "unknown"]
    /\ queries' = queries \cup present
    /\ UNCHANGED notices

HandleNmSignal ==
    /\ nmWire # <<>> /\ nmWire' = Tail(nmWire)
    /\ LET m == Head(nmWire) IN
       \/ m = Registered /\ InitTables
       \/ /\ m # Registered /\ HandleVpnStateChanged(m.vpn, m.state, m.user)
          /\ UNCHANGED <<devices, queries>>
    /\ UNCHANGED <<vpn, notify, wakeTimers, present, serviceVars, wire, inputs>>

-----------------------------------------------------------------------------
(* Sleep. *)

\* onHandleForSleep: a timer that runs is not stopped.
Sleep ==
    /\ Input
    /\ notify' = FALSE
    /\ UNCHANGED <<vpnVars, nmWire, wakeTimers>>

Wake ==
    /\ Input
    /\ wakeTimers' = wakeTimers + 1
    /\ UNCHANGED <<vpnVars, nmWire, notify>>

WakeTimerFires ==
    /\ wakeTimers > 0 /\ wakeTimers' = wakeTimers - 1
    /\ notify' = TRUE
    /\ UNCHANGED <<vpnVars, nmWire, inputs>>

-----------------------------------------------------------------------------
(* Devices. *)

Plug(d) ==
    /\ d \notin present /\ present' = present \cup {d}
    /\ UNCHANGED <<devices, queries, serviceVars, wire, inputs>>

Unplug(d) ==
    /\ Input
    /\ d \in present /\ present' = present \ {d}
    /\ UNCHANGED <<devices, queries, serviceVars, wire>>

OnDeviceAdded_NoQuery(d) ==         \* the signals are taken to suffice
    /\ d \in present /\ devices[d] = "unknown"
    /\ devices' = [devices EXCEPT ![d] = "on"]
    /\ UNCHANGED <<present, queries, serviceVars, wire, inputs>>

\* onDeviceAdded, which asks with queryDeviceEnabled
OnDeviceAdded(d) ==
    /\ d \in present /\ devices[d] = "unknown"
    /\ devices' = [devices EXCEPT ![d] = "on"]
    /\ queries' = queries \cup {d}
    /\ UNCHANGED <<present, serviceVars, wire, inputs>>

\* onDeviceRemoved
OnDeviceRemoved(d) ==
    /\ d \notin present /\ devices[d] # "unknown"
    /\ devices' = [devices EXCEPT ![d] = "unknown"]
    /\ UNCHANGED <<present, queries, serviceVars, wire, inputs>>

\* onDeviceEnabled, for a signal or an answer: an unknown device is ignored.
OnDeviceEnabled ==
    /\ wire # <<>> /\ wire' = Tail(wire)
    /\ LET m == Head(wire) IN
       devices' = IF devices[m.device] = "unknown" THEN devices
                  ELSE [devices EXCEPT ![m.device] = m.setting]
    /\ UNCHANGED <<present, queries, serviceVars, inputs>>

\* IsDeviceEnabled: an error unless the service runs and has the device.  One it has
\* but does not serve is that of a service that has just started, or has no name, and
\* is on.
AnswerQuery(d) ==
    /\ d \in queries /\ queries' = queries \ {d}
    /\ \/ d \notin served /\ UNCHANGED wire
       \/ d \in served /\ wire' = Append(wire, [device |-> d, setting |-> setting[d]])
       \/ /\ serving /\ d \in present \ served
          /\ \E now \in {"on", setting[d]} : wire' = Append(wire, [device |-> d, setting |-> now])
    /\ UNCHANGED <<present, devices, serviceVars, inputs>>

DeviceEnabled(d, now) == relay' = Append(relay, [device |-> d, setting |-> now])

\* The service starts, or finds a new device: doEnableDevice tells of its setting.
ServiceSees(d) ==
    /\ serving /\ d \in present \ served
    /\ served' = served \cup {d}
    /\ DeviceEnabled(d, setting[d])
    /\ UNCHANGED <<present, devices, queries, setting, serving, wire, inputs>>

ServiceLoses(d) ==
    /\ d \in served \ present
    /\ served' = served \ {d}
    /\ UNCHANGED <<present, devices, queries, setting, serving, relay, wire, inputs>>

\* The interface of d loses its name, and the setting is removed: no signal tells.  What
\* it has then is the setting of the name it gets next.
ServiceLosesName(d) ==
    /\ Input
    /\ d \in served /\ served' = served \ {d}
    /\ \E now \in Settings : setting' = [setting EXCEPT ![d] = now]
    /\ UNCHANGED <<present, devices, queries, serving, relay, wire>>

ServiceSends ==
    /\ relay # <<>> /\ relay' = Tail(relay)
    /\ wire' = Append(wire, Head(relay))
    /\ UNCHANGED <<present, devices, queries, setting, serving, served, inputs>>

EnableDevice(d) ==
    /\ Input
    /\ d \in served
    /\ \E now \in Settings : setting' = [setting EXCEPT ![d] = now] /\ DeviceEnabled(d, now)
    /\ UNCHANGED <<present, devices, queries, serving, served, wire>>

ServiceStarts ==
    /\ ~serving /\ serving' = TRUE
    /\ UNCHANGED <<present, devices, queries, setting, served, relay, wire, inputs>>

ServiceStops ==
    /\ Input
    /\ serving /\ serving' = FALSE
    /\ served' = {}
    /\ relay' = <<>>
    /\ UNCHANGED <<present, devices, queries, setting, wire>>

\* NetworkManager restarts; its connections are gone.
NmRestarts ==
    /\ Input
    /\ vpn' = [v \in Vpns |-> IF Listed(v) THEN "gone" ELSE vpn[v]]
    /\ nmWire' = Append(nmWire, Registered)
    /\ UNCHANGED <<connections, notices, notify, wakeTimers>>

-----------------------------------------------------------------------------
NoticeStep ==
    \/ \E v \in Vpns :
          \/ Activate(v) \/ VpnGoesOn(v) \/ Repeat(v) \/ Stray(v) \/ Vanish(v)
          \/ OnActiveConnectionAdded(v) \/ OnActiveConnectionRemoved(v)
    \/ Sleep \/ Wake \/ WakeTimerFires \/ NmRestarts

DeviceStep ==
    \/ \E d \in Devices :
          \/ Plug(d) \/ Unplug(d) \/ OnDeviceAdded(d) \/ OnDeviceRemoved(d)
          \/ AnswerQuery(d) \/ ServiceSees(d) \/ ServiceLoses(d)
          \/ ServiceLosesName(d) \/ EnableDevice(d)
    \/ OnDeviceEnabled \/ ServiceSends \/ ServiceStarts \/ ServiceStops

Next ==
    \/ OsdStep /\ UNCHANGED <<noticeVars, deviceVars, inputs>>
    \/ Input /\ (SwitchWlan \/ SwitchAirplane) /\ UNCHANGED <<noticeVars, deviceVars>>
    \/ NoticeStep /\ UNCHANGED <<osdVars, deviceVars>>
    \/ DeviceStep /\ UNCHANGED <<osdVars, noticeVars>>
    \/ HandleNmSignal /\ UNCHANGED osdVars

Spec == Init /\ [][Next]_vars

-----------------------------------------------------------------------------
(* Properties. *)

\* What the user hears of one activation makes sense: it has connected or not, and
\* then failed or was disconnected, once; a failure is not followed by a
\* disconnection, and nothing is said twice, with signals that are repeated or stray,
\* fields that were never initialised, and notifications that are off for a while.
NoticesInOrder ==
    \A v \in Vpns :
       \A i, j \in 1 .. Len(notices[v]) :
          i < j => notices[v][i] = "connected" /\ notices[v][j] # "connected"

\* At rest the handler and the device service agree on what is enabled, however
\* answers and signals overtake each other and whichever of the handler, the service
\* and NetworkManager sees a device first or starts anew: a query that came too
\* early is made good by the signal that follows.
EnabledFollows ==
    (/\ serving /\ served = present /\ nmWire = <<>> /\ queries = {}
     /\ relay = <<>> /\ wire = <<>>)
    => \A d \in present : devices[d] \in {"unknown", setting[d]}

=============================================================================
