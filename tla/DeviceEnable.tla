----------------------------- MODULE DeviceEnable -----------------------------
(***************************************************************************)
(* Which devices the user has switched off, kept by the system service     *)
(* (networkthread.cpp, networkenabledconfig.cpp), with the cache of        *)
(* NetworkManager's devices it reads (nmaccess.cpp), and NetworkManager as *)
(* the service uses it.                                                    *)
(*                                                                         *)
(* The service and NetworkManager run on their own: signals and calls      *)
(* wait in queues, one of each kind for each device.  NetworkManager may   *)
(* start a connection for another client or by itself at any moment, and   *)
(* whether it may connect a device by itself (Device.Autoconnect) is       *)
(* therefore left out.  VPN connections and the choice of the profile that *)
(* is activated are left out too.                                          *)
(***************************************************************************)
EXTENDS Naturals, Sequences

CONSTANTS Devices,      \* devices of the machine
          Wifi,         \* those among them that are wireless, one at most
          Names,        \* names of interfaces
          NoName,       \* the empty name
          Misses,       \* empty lists of access points that are tolerated
          MaxInputs     \* bound on calls of the user, changes of devices and restarts

ASSUME DeviceEnableAssumption ==
    /\ Wifi \subseteq Devices
    /\ \A v, w \in Wifi : v = w
    /\ NoName \notin Names
    /\ Misses \in Nat /\ MaxInputs \in Nat

Keys == Names \cup {NoName}
None == 0                                  \* no active connection
Absent == [name |-> NoName, state |-> "absent", active |-> None]
Snapshot(name, state, active) == [name |-> name, state |-> state, active |-> active]
Device == [name : Keys, state : {"disconnected", "preparing", "activated"}, active : Nat]
View == Device \cup {Absent}               \* what is known of a device, DeviceSnapshot
Unknown == [name |-> NoName, state |-> "unknown"]
Known == [name : Keys, state : {"disconnected", "preparing", "activated"}] \cup {Unknown}
Call == [op : {"activate", "disconnect", "deactivate", "radioOn", "radioOff"}, id : Nat]

VARIABLES
    \* NetworkManager
    nmUp,        \* it runs
    nm,          \* its devices
    radio,       \* wireless is enabled
    started,     \* activations so far, their paths
    calls,       \* calls of the service it has not served, by device
    signals,     \* its signals the service has not handled, by device
    \* system service
    running,     \* "down", "starting" (before the first init) or "up"
    registered,  \* a call of init is due
    cache,       \* NetworkManagerProxy::m_devices
    radioSeen,   \* what isWirelessEnabled answers
    known,       \* m_devices and m_deviceStates
    disabled,    \* names with enabled = false in memory
    file,        \* those in config.json
    unsaved,     \* history: names whose setting could not be saved
    missed,      \* m_count
    asking,      \* questions about airplane mode without an answer
    \* what the user wants
    choice,      \* the last choice for each name that is not lost
    \* bound
    inputs       \* what the user, other clients, devices and restarts did so far

nmVars == <<nmUp, nm, radio, started, calls, signals>>
serviceVars == <<running, registered, cache, radioSeen, known, disabled, file, unsaved, missed,
                 asking>>
vars == <<nmVars, serviceVars, choice, inputs>>

Init ==
    /\ nmUp = TRUE
    /\ nm \in [Devices -> {Snapshot(n, "disconnected", None) : n \in Names}]
    /\ \A d, e \in Devices : nm[d].name = nm[e].name => d = e
    /\ radio = TRUE                      \* a switch makes it FALSE
    /\ started = 0
    /\ calls = [d \in Devices |-> <<>>]
    /\ signals = [d \in Devices |-> <<>>]
    /\ running = "down"
    /\ registered = FALSE
    /\ cache = [d \in Devices |-> Absent]
    /\ radioSeen = FALSE
    /\ known = [d \in Devices |-> Unknown]
    /\ disabled = {}
    /\ file = {} /\ unsaved = {}
    /\ missed = 0
    /\ asking = 0
    /\ choice = [n \in Keys |-> TRUE]
    /\ inputs = 0

-----------------------------------------------------------------------------
(* NetworkManager. *)

\* d changes, and each change is announced to a service that runs.
Announce(d, views) ==
    /\ nm' = [nm EXCEPT ![d] = views[Len(views)]]
    /\ signals' = IF running = "down" THEN signals ELSE [signals EXCEPT ![d] = @ \o views]

Disconnected(d) == Snapshot(nm[d].name, "disconnected", None)

CanActivate(d) == nm[d] # Absent /\ (d \in Wifi => radio)

\* A connection is brought up on d: what was active goes first, and the state
\* is announced before the path of the new activation.
Activation(d) ==
    LET begin == <<Snapshot(nm[d].name, "preparing", None),
                   Snapshot(nm[d].name, "preparing", started + 1)>>
    IN IF nm[d].state = "disconnected" THEN begin ELSE <<Disconnected(d)>> \o begin

BringDown(d) ==
    IF nm[d].state \in {"preparing", "activated"}
    THEN Announce(d, <<Disconnected(d)>>)
    ELSE UNCHANGED <<nm, signals>>

\* Radio is set, which takes down the wireless device that is the caller's.
SetRadio(d, on) ==
    /\ radio' = on
    /\ IF on THEN UNCHANGED <<nm, signals>> ELSE BringDown(d)

\* The next call of the service is served.  An activation is refused when no
\* connection is available for the device.
Serve(d) ==
    /\ nmUp
    /\ calls[d] # <<>>
    /\ calls' = [calls EXCEPT ![d] = Tail(@)]
    /\ LET c == Head(calls[d]) IN
       \/ /\ c.op = "activate" /\ CanActivate(d)
          /\ Announce(d, Activation(d))
          /\ started' = started + 1
          /\ UNCHANGED radio
       \/ /\ c.op = "activate"
          /\ UNCHANGED <<nm, signals, started, radio>>
       \/ /\ \/ c.op = "disconnect"
             \/ c.op = "deactivate" /\ c.id = nm[d].active
          /\ BringDown(d)
          /\ UNCHANGED <<started, radio>>
       \/ /\ c.op = "deactivate" /\ c.id # nm[d].active
          /\ UNCHANGED <<nm, signals, started, radio>>
       \/ /\ c.op \in {"radioOn", "radioOff"}
          /\ SetRadio(d, c.op = "radioOn")
          /\ UNCHANGED started
    /\ UNCHANGED <<nmUp, serviceVars, choice, inputs>>

\* An activation succeeds or fails.
Finish(d) ==
    /\ nm[d].state = "preparing"
    /\ \/ Announce(d, <<Snapshot(nm[d].name, "activated", nm[d].active)>>)
       \/ Announce(d, <<Disconnected(d)>>)
    /\ UNCHANGED <<nmUp, radio, started, calls, serviceVars, choice, inputs>>

\* Another client, or NetworkManager by itself, connects d.
ActivateElsewhere(d) ==
    /\ inputs < MaxInputs
    /\ inputs' = inputs + 1
    /\ nm[d].state = "disconnected" /\ CanActivate(d)
    /\ Announce(d, Activation(d))
    /\ started' = started + 1
    /\ UNCHANGED <<nmUp, radio, calls, serviceVars, choice>>

\* Wireless is switched elsewhere.
SwitchRadioElsewhere(d) ==
    /\ inputs < MaxInputs
    /\ inputs' = inputs + 1
    /\ nmUp /\ d \in Wifi
    /\ SetRadio(d, ~radio)
    /\ UNCHANGED <<nmUp, started, calls, serviceVars, choice>>

FreeNames == Names \ {nm[d].name : d \in Devices}

Unplug(d) ==
    /\ inputs < MaxInputs
    /\ inputs' = inputs + 1
    /\ nm[d] # Absent
    /\ Announce(d, <<Absent>>)
    /\ UNCHANGED <<nmUp, radio, started, calls, serviceVars, choice>>

\* What was asked of a device that is gone has failed by then.
Plug(d) ==
    /\ nmUp /\ nm[d] = Absent
    /\ calls[d] = <<>>
    /\ \E n \in FreeNames :
          Announce(d, <<Snapshot(n, "disconnected", None)>>)
    /\ UNCHANGED <<nmUp, radio, started, calls, serviceVars, choice, inputs>>

Rename(d) ==
    /\ inputs < MaxInputs
    /\ inputs' = inputs + 1
    /\ nm[d] # Absent
    /\ \E n \in FreeNames \cup {NoName} :
          n # nm[d].name /\ Announce(d, <<Snapshot(n, nm[d].state, nm[d].active)>>)
    /\ UNCHANGED <<nmUp, radio, started, calls, serviceVars, choice>>

\* NetworkManager stops: its devices are gone, and so are the calls to it.
NmStop ==
    /\ inputs < MaxInputs
    /\ inputs' = inputs + 1
    /\ nmUp
    /\ nmUp' = FALSE
    /\ nm' = [d \in Devices |-> Absent]
    /\ signals' = IF running = "down" THEN signals
                  ELSE [d \in Devices |-> Append(signals[d], Absent)]
    /\ calls' = [d \in Devices |-> <<>>]
    /\ UNCHANGED <<radio, started, serviceVars, choice>>

\* It starts again; its devices appear one by one.
NmStart ==
    /\ ~nmUp
    /\ nmUp' = TRUE
    /\ registered' = (running # "down")
    /\ UNCHANGED <<nm, radio, started, calls, signals, running, cache, radioSeen, known,
                   disabled, file, unsaved, missed, asking, choice, inputs>>

-----------------------------------------------------------------------------
(* The system service: setting and applying the choice. *)

\* setDeviceEnabled and saveConfig, for the devices of D under the names they
\* have in the cache.
Record(snap, D, enabled) ==
    LET on == {snap[d].name : d \in {e \in D : enabled[e]}}
        off == {snap[d].name : d \in {e \in D : ~enabled[e]}}
    IN (disabled \cup off) \ on

\* saveConfig: all settings are written, and nobody looks whether that has failed.  The
\* bound on inputs is the one on failures: only a restart, which is one, reads the file.
SaveConfig ==
    \/ file' = disabled' /\ unsaved' = {}
    \/ /\ inputs' < MaxInputs
       /\ UNCHANGED file /\ unsaved' = {n \in Keys : n \in file <=> n \notin disabled'}

\* What doEnableDevice asks of NetworkManager for d; aps says whether the
\* list of access points has any.
Request(d, enabled, aps) ==
    IF enabled THEN <<[op |-> "activate", id |-> None]>>
    ELSE IF d \in Wifi /\ ~aps /\ missed + 1 > Misses
         THEN <<[op |-> "radioOff", id |-> None]>>
              \o (IF radioSeen THEN <<[op |-> "radioOn", id |-> None]>> ELSE <<>>)
         ELSE <<[op |-> "disconnect", id |-> None]>>

Counted_NoReset(off, aps) == IF off = {} \/ aps THEN missed ELSE missed + 1

\* Empty lists of access points are counted until there are too many; off
\* holds the wireless devices that are switched off.
Counted(off, aps) ==
    IF off = {} THEN missed
    ELSE IF aps \/ missed + 1 > Misses THEN 0 ELSE missed + 1

\* doEnableDevice for every device of D, whose snapshots are in snap; first
\* holds the calls made before.
DoEnable(snap, D, enabled, aps, first) ==
    LET off == {d \in D \cap Wifi : ~enabled[d]}
        on == {d \in D \cap Wifi : enabled[d]}
    IN /\ disabled' = Record(snap, D, enabled)
       /\ SaveConfig
       /\ calls' = [d \in Devices |->
                      calls[d] \o first[d]
                      \o (IF d \in D /\ nmUp THEN Request(d, enabled[d], aps) ELSE <<>>)]
       /\ missed' = Counted(off, aps)
       /\ asking' = IF on = {} \/ radioSeen THEN asking ELSE asking + 1

NoCalls == [d \in Devices |-> <<>>]

\* EnableDevice, for a device of the cache; for any other it is an error.
EnableDevice(d, on, aps) ==
    /\ inputs < MaxInputs
    /\ inputs' = inputs + 1
    /\ running # "down"
    /\ cache[d] # Absent
    /\ DoEnable(cache, {d}, [e \in Devices |-> on], aps, NoCalls)
    /\ choice' = [choice EXCEPT ![cache[d].name] = on]
    /\ UNCHANGED <<nmUp, nm, radio, started, signals, running, registered, cache, radioSeen,
                   known>>

\* ToggleWirelessEnabled: the radio first, then every wireless device.
ToggleWirelessEnabled(aps) ==
    LET on == ~radioSeen
        D == {d \in Wifi : cache[d] # Absent}
    IN /\ inputs < MaxInputs
       /\ inputs' = inputs + 1
       /\ running # "down" /\ nmUp /\ Wifi # {}
       /\ DoEnable(cache, D, [e \in Devices |-> on], aps,
                   [d \in Devices |-> IF d \in Wifi
                                      THEN <<[op |-> IF on THEN "radioOn" ELSE "radioOff",
                                              id |-> None]>>
                                      ELSE <<>>])
       /\ choice' = [n \in Keys |-> IF \E d \in D : cache[d].name = n THEN on ELSE choice[n]]
       /\ UNCHANGED <<nmUp, nm, radio, started, signals, running, registered, cache, radioSeen,
                      known>>

\* The answer about airplane mode: wireless is enabled unless it is on.
AirplaneAnswers(d) ==
    /\ asking > 0 /\ running # "down" /\ d \in Wifi
    /\ asking' = asking - 1
    /\ \/ UNCHANGED calls
       \/ nmUp /\ calls' = [calls EXCEPT ![d] = Append(@, [op |-> "radioOn", id |-> None])]
    /\ UNCHANGED <<nmUp, nm, radio, started, signals, running, registered, cache, radioSeen,
                   known, disabled, file, unsaved, missed, choice, inputs>>

-----------------------------------------------------------------------------
(* The system service: what it hears and how it starts. *)

OnDeviceStateChanged_First(old, v) ==     \* only when an activation begins
    IF /\ old = "disconnected" /\ v.state = "preparing"
       /\ v.name \in disabled /\ v.active # None
    THEN <<[op |-> "deactivate", id |-> v.active]>>
    ELSE <<>>

\* onDeviceStateChanged: the calls for a device that was in state old.
OnDeviceStateChanged(old, v) ==
    IF /\ old # v.state
       /\ v.name \in disabled
       /\ v.state # "disconnected" /\ v.active # None
    THEN <<[op |-> "deactivate", id |-> v.active]>>
    ELSE <<>>

\* onDevicesChanged, for the one device that differs: v is its new snapshot.
OnDeviceChanged(d, v, aps) ==
    LET k == known[d]
        snap == [cache EXCEPT ![d] = v]
        same == <<disabled, file, unsaved, missed, asking, calls, choice>>
    IN \/ /\ v.name = NoName /\ (v = Absent \/ k = Unknown)
          /\ known' = [known EXCEPT ![d] = Unknown]
          /\ UNCHANGED same
       \/ /\ v # Absent /\ v.name = NoName /\ k # Unknown   \* removeDeviceEnabled
          /\ known' = [known EXCEPT ![d] = Unknown]
          /\ disabled' = disabled \ {k.name}
          /\ SaveConfig
          /\ choice' = [choice EXCEPT ![k.name] = TRUE]
          /\ UNCHANGED <<missed, asking, calls>>
       \/ /\ v.name # NoName /\ k.name # v.name             \* new, or renamed
          /\ known' = [known EXCEPT ![d] = [name |-> v.name, state |-> v.state]]
          /\ DoEnable(snap, {d}, [e \in Devices |-> snap[e].name \notin disabled], aps, NoCalls)
          /\ UNCHANGED choice
       \/ /\ v.name # NoName /\ k.name = v.name             \* its state, if anything
          /\ known' = [known EXCEPT ![d] = [name |-> v.name, state |-> v.state]]
          /\ calls' = IF nmUp THEN [calls EXCEPT ![d] = @ \o OnDeviceStateChanged(k.state, v)]
                      ELSE calls
          /\ UNCHANGED <<disabled, missed, asking, choice>>
          /\ IF /\ k.state # v.state /\ v.state = "activated" /\ v.active # None
                /\ v.name \notin disabled
             THEN SaveConfig                              \* with the profile that is active
             ELSE UNCHANGED <<file, unsaved>>

\* A signal about d: the cache is refreshed, and when that changes it the
\* thread is told, if it has been initialised.  The signals of all devices come
\* in the order in which they were sent, so that no name is ever in the cache
\* of two devices.
HandleSignal(d, aps) ==
    /\ running # "down"
    /\ signals[d] # <<>>
    /\ \A e \in Devices \ {d} : Head(signals[d]).name \in Names
                                => cache[e].name # Head(signals[d]).name
    /\ signals' = [signals EXCEPT ![d] = Tail(@)]
    /\ cache' = [cache EXCEPT ![d] = Head(signals[d])]
    /\ UNCHANGED <<nmUp, nm, radio, started, running, registered, radioSeen, inputs>>
    /\ IF running = "up" /\ Head(signals[d]) # cache[d]
       THEN OnDeviceChanged(d, Head(signals[d]), aps)
       ELSE UNCHANGED <<known, disabled, file, unsaved, missed, asking, calls, choice>>

SeeRadio ==
    /\ running # "down"
    /\ radioSeen # radio
    /\ radioSeen' = radio
    /\ UNCHANGED <<nmVars, running, registered, cache, known, disabled, file, unsaved, missed,
                   asking, choice, inputs>>

\* init, when NetworkManager has an owner or gets one: the tables are cleared
\* and every device is handled as new.  What the old NetworkManager sent has
\* been handled by then.
InitService(aps) ==
    LET D == {d \in Devices : cache[d].name # NoName} IN
    /\ registered
    /\ \A d \in Devices : \A i \in DOMAIN signals[d] : signals[d][i] # Absent
    /\ registered' = FALSE
    /\ running' = "up"
    /\ known' = [d \in Devices |-> IF d \in D THEN [name |-> cache[d].name, state |-> cache[d].state]
                                   ELSE Unknown]
    /\ UNCHANGED <<nmUp, nm, radio, started, signals, cache, radioSeen, choice, inputs>>
    /\ DoEnable(cache, D, [d \in Devices |-> cache[d].name \notin disabled], aps, NoCalls)

\* The service stops, and what it kept in memory is gone: a choice that could not be
\* saved is as it was.
Stop ==
    /\ inputs < MaxInputs
    /\ inputs' = inputs + 1
    /\ running # "down"
    /\ running' = "down"
    /\ registered' = FALSE
    /\ cache' = [d \in Devices |-> Absent]
    /\ radioSeen' = FALSE
    /\ known' = [d \in Devices |-> Unknown]
    /\ disabled' = {}
    /\ choice' = [n \in Keys |-> IF n \in unsaved THEN n \notin file ELSE choice[n]]
    /\ unsaved' = {}
    /\ missed' = 0
    /\ asking' = 0
    /\ signals' = [d \in Devices |-> <<>>]
    /\ UNCHANGED <<nmUp, nm, radio, started, calls, file>>

Start_NotInitialised ==                   \* init waits for a new owner only
    /\ running = "down"
    /\ running' = "starting"
    /\ registered' = FALSE
    /\ cache' = nm
    /\ radioSeen' = radio
    /\ disabled' = file
    /\ UNCHANGED <<nmVars, known, file, unsaved, missed, asking, choice, inputs>>

\* It starts: the configuration is loaded and the cache filled.
Start ==
    /\ running = "down"
    /\ running' = "starting"
    /\ registered' = nmUp
    /\ cache' = nm
    /\ radioSeen' = radio
    /\ disabled' = file
    /\ UNCHANGED <<nmVars, known, file, unsaved, missed, asking, choice, inputs>>

-----------------------------------------------------------------------------
(* Whether the list of access points has any matters to a wireless device only. *)
AccessPoints == IF Wifi = {} THEN {TRUE} ELSE BOOLEAN

Next ==
    \/ \E d \in Devices :
          \/ Serve(d) \/ Finish(d) \/ Plug(d)
          \/ ActivateElsewhere(d) \/ SwitchRadioElsewhere(d) \/ Unplug(d) \/ Rename(d)
          \/ \E on \in BOOLEAN, aps \in AccessPoints : EnableDevice(d, on, aps)
          \/ \E aps \in AccessPoints : HandleSignal(d, aps)
          \/ AirplaneAnswers(d)
    \/ NmStop \/ NmStart
    \/ \E aps \in AccessPoints : ToggleWirelessEnabled(aps) \/ InitService(aps)
    \/ SeeRadio \/ Stop \/ Start

Spec == Init /\ [][Next]_vars

\* The service, NetworkManager and the bus go on; nobody else has to.
FairSpec ==
    /\ Spec
    /\ \A d \in Devices :
          /\ WF_vars(Serve(d)) /\ WF_vars(Finish(d))
          /\ WF_vars(\E aps \in AccessPoints : HandleSignal(d, aps))
    /\ WF_vars(\E aps \in AccessPoints : InitService(aps))
    /\ WF_vars(NmStart) /\ WF_vars(Start) /\ WF_vars(SeeRadio)

-----------------------------------------------------------------------------
(* Properties. *)

TypeOK ==
    /\ nmUp \in BOOLEAN /\ radio \in BOOLEAN /\ radioSeen \in BOOLEAN /\ registered \in BOOLEAN
    /\ nm \in [Devices -> View] /\ cache \in [Devices -> View]
    /\ started \in Nat
    /\ calls \in [Devices -> Seq(Call)]
    /\ signals \in [Devices -> Seq(View)]
    /\ running \in {"down", "starting", "up"}
    /\ known \in [Devices -> Known]
    /\ disabled \subseteq Keys /\ file \subseteq Keys /\ unsaved \subseteq Keys
    /\ missed \in 0 .. Misses /\ asking \in Nat
    /\ choice \in [Keys -> BOOLEAN]
    /\ inputs \in 0 .. MaxInputs

\* Nothing is under way between the service and NetworkManager about d.
Rested(d) ==
    /\ nmUp /\ running = "up" /\ ~registered
    /\ nm[d].name # NoName /\ nm[d].state # "preparing"
    /\ signals[d] = <<>> /\ calls[d] = <<>>

\* A device whose name the user has switched off is not connected once all has
\* come to rest, whoever connected it, in whatever order, and over restarts of
\* the service and of NetworkManager (networkthread.cpp, onDeviceStateChanged,
\* disableDevice and init).
DisabledIsOff ==
    \A d \in Devices :
       Rested(d) /\ ~choice[nm[d].name] => nm[d].state = "disconnected"

\* A device that is switched off for good is some day disconnected for good.
SwitchedOffStaysOff ==
    \A d \in Devices :
       <>[](nm[d].name # NoName /\ ~choice[nm[d].name]) => <>[](nm[d].state = "disconnected")

\* "Interface renamed: migrate the configuration and apply it again"
\* (networkthread.cpp, onDevicesChanged): after a rename the new name has the
\* choice that the old one had.
RenameMigrates ==
    [][\A d \in Devices :
         known[d].name \in Names /\ known'[d].name \in Names \ {known[d].name}
         => (known'[d].name \in disabled' <=> known[d].name \in disabled)]_vars

=============================================================================
