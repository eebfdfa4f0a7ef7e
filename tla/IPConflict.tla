------------------------------ MODULE IPConflict ------------------------------
(***************************************************************************)
(* Addresses that are in use twice: the store of conflicts of the system   *)
(* service (ipconflicthandler.cpp, systemipconfilct.cpp), the daemon that  *)
(* reports to it, and the warning the panels show for a device (the        *)
(* library in src/src).                                                    *)
(*                                                                         *)
(* The daemon, NetworkManager, the service and the panel run on their own. *)
(* A device is named by its hardware address; its D-Bus path changes each  *)
(* time it is plugged in.  The panel asks the service about a device that  *)
(* is new to it with a blocking call: signals that were sent before the    *)
(* reply are read after it.                                                *)
(***************************************************************************)
EXTENDS Naturals, Sequences

CONSTANTS Devices,      \* devices, by hardware address
          Ips,          \* addresses they may get
          Remotes,      \* hosts they may be in conflict with
          Reconnects,   \* reconnectIfIpConflicted
          MaxInputs     \* bound on conflicts, unplugs, changes of address and stops

ASSUME IPConflictAssumption == Reconnects \in BOOLEAN /\ MaxInputs \in Nat

Conflict == Ips \X Remotes
Path == Nat
Absent == [path |-> 0, ips |-> {}]
View == [path : Path, ips : SUBSET Ips]
Report == [op : {"conflict", "resolve"}, device : Devices, conflict : Conflict]
Registered == [path |-> 0, warn |-> FALSE]                \* the service has its name
Message == [path : Path, warn : BOOLEAN]

VARIABLES
    nm,          \* devices of NetworkManager
    paths,       \* paths it has used
    automatic,   \* devices whose profile CanReconnect allows
    reconnect,   \* devices that are to be connected anew
    reported,    \* conflicts the daemon has reported and not resolved
    wire,        \* its reports the service has not handled
    up,          \* the service runs
    cache,       \* devices as the service knows them: snapshots and m_lastIpv4
    store,       \* m_conflictData
    toPanel,     \* signals the panel has not handled
    panel,       \* paths of the panel's devices
    warning,     \* m_ipConflicted of the panel's devices
    inputs       \* inputs so far

nmVars == <<nm, paths, automatic, reconnect>>
serviceVars == <<wire, up, cache, store>>
panelVars == <<panel, warning>>
vars == <<nmVars, reported, serviceVars, toPanel, panelVars, inputs>>

Init ==
    /\ nm = [d \in Devices |-> Absent]
    /\ paths = 0
    /\ automatic \in SUBSET Devices
    /\ reconnect = {}
    /\ reported = [d \in Devices |-> {}]
    /\ wire = <<>>
    /\ up = TRUE
    /\ cache = [d \in Devices |-> Absent]
    /\ store = [d \in Devices |-> {}]
    /\ toPanel = <<>>
    /\ panel = [d \in Devices |-> 0]
    /\ warning = [d \in Devices |-> FALSE]
    /\ inputs = 0

-----------------------------------------------------------------------------
(* NetworkManager and the daemon. *)

Input == inputs < MaxInputs /\ inputs' = inputs + 1

Plug(d) ==
    /\ nm[d] = Absent
    /\ \E ips \in SUBSET Ips :
          nm' = [nm EXCEPT ![d] = [path |-> paths + 1, ips |-> ips]]
    /\ paths' = paths + 1
    /\ UNCHANGED <<automatic, reconnect, reported, serviceVars, toPanel, panelVars, inputs>>

Unplug(d) ==
    /\ Input
    /\ nm[d] # Absent
    /\ nm' = [nm EXCEPT ![d] = Absent]
    /\ reconnect' = reconnect \ {d}
    /\ UNCHANGED <<paths, automatic, reported, serviceVars, toPanel, panelVars>>

ChangeAddresses(d) ==
    /\ Input
    /\ nm[d] # Absent
    /\ \E ips \in SUBSET Ips : nm' = [nm EXCEPT ![d].ips = ips]
    /\ UNCHANGED <<paths, automatic, reconnect, reported, serviceVars, toPanel, panelVars>>

\* deactivateConnection and activateConnection: the addresses are asked for again.
Reconnect(d) ==
    /\ d \in reconnect
    /\ reconnect' = reconnect \ {d}
    /\ \E ips \in SUBSET Ips : nm' = [nm EXCEPT ![d].ips = ips]
    /\ UNCHANGED <<paths, automatic, reported, serviceVars, toPanel, panelVars, inputs>>

\* A signal is lost while the service is down.
Send(op, d, c) ==
    wire' = IF up THEN Append(wire, [op |-> op, device |-> d, conflict |-> c]) ELSE wire

\* A conflict, of an address the device has, may be reported again.
ReportConflict(d, c) ==
    /\ Input
    /\ c[1] \in nm[d].ips
    /\ reported' = [reported EXCEPT ![d] = @ \cup {c}]
    /\ Send("conflict", d, c)
    /\ UNCHANGED <<nmVars, up, cache, store, toPanel, panelVars>>

ReportResolve(d, c) ==
    /\ c \in reported[d]
    /\ reported' = [reported EXCEPT ![d] = @ \ {c}]
    /\ Send("resolve", d, c)
    /\ UNCHANGED <<nmVars, up, cache, store, toPanel, panelVars, inputs>>

-----------------------------------------------------------------------------
(* The store. *)

\* ipConflictChanged, which is about the device whatever the address.
Announce(d, warn) == Append(toPanel, [path |-> cache[d].path, warn |-> warn])

\* canReconnect: addresses come by DHCP, and the secret is not the user's own.
CanReconnect(d) == d \in automatic /\ nm[d] # Absent

OnIPConflicted_Unchecked(d, c) ==           \* reconnect before the device is looked up
    /\ store' = IF cache[d] = Absent THEN store ELSE [store EXCEPT ![d] = @ \cup {c}]
    /\ toPanel' = IF cache[d] = Absent \/ c \in store[d] THEN toPanel ELSE Announce(d, TRUE)
    /\ reconnect' = IF Reconnects THEN reconnect \cup {d} ELSE reconnect

\* onIPConflicted: an unknown device and a known conflict are ignored; only
\* the first conflict of a device makes it reconnect.
OnIPConflicted(d, c) ==
    \/ /\ cache[d] = Absent \/ c \in store[d]
       /\ UNCHANGED <<store, toPanel, reconnect>>
    \/ /\ cache[d] # Absent /\ c \notin store[d]
       /\ store' = [store EXCEPT ![d] = @ \cup {c}]
       /\ toPanel' = Announce(d, TRUE)
       /\ reconnect' = IF Reconnects /\ store[d] = {} /\ CanReconnect(d)
                       THEN reconnect \cup {d} ELSE reconnect

OnIPConflictResolve_OnlyLast(d, c) ==       \* one of several stays
    IF cache[d] # Absent /\ store[d] = {c}
    THEN store' = [store EXCEPT ![d] = {}] /\ toPanel' = Announce(d, FALSE)
    ELSE UNCHANGED <<store, toPanel>>

\* onIPConflictReslove: the last conflict that goes is announced, and so is
\* one that was not there.
OnIPConflictResolve(d, c) ==
    \/ /\ cache[d] = Absent
       /\ UNCHANGED <<store, toPanel>>
    \/ /\ cache[d] # Absent
       /\ store' = [store EXCEPT ![d] = @ \ {c}]
       /\ toPanel' = IF store[d] \subseteq {c} THEN Announce(d, FALSE) ELSE toPanel

HandleReport ==
    /\ wire # <<>>
    /\ wire' = Tail(wire)
    /\ LET r == Head(wire) IN
       \/ /\ r.op = "conflict"
          /\ OnIPConflicted(r.device, r.conflict)
       \/ /\ r.op = "resolve"
          /\ OnIPConflictResolve(r.device, r.conflict)
          /\ UNCHANGED reconnect
    /\ UNCHANGED <<nm, paths, automatic, reported, up, cache, panelVars, inputs>>

\* updateIpv4: conflicts of addresses the device no longer has.
Dropped(d) == {c \in store[d] : c[1] \notin nm[d].ips}

\* devicesChanged, initDevice and ipv4Changed, which leaves a new device alone.
\* One signal stands for those of all addresses: they are the same to the panel.
Refresh(d) ==
    /\ up
    /\ cache[d] # nm[d]
    /\ cache' = [cache EXCEPT ![d] = nm[d]]
    /\ IF nm[d].path = cache[d].path /\ Dropped(d) # {}
       THEN store' = [store EXCEPT ![d] = @ \ Dropped(d)] /\ toPanel' = Announce(d, FALSE)
       ELSE UNCHANGED <<store, toPanel>>
    /\ UNCHANGED <<nmVars, reported, wire, up, panelVars, inputs>>

\* The service stops; what it has sent arrives.
Stop ==
    /\ Input
    /\ up /\ up' = FALSE
    /\ store' = [d \in Devices |-> {}]
    /\ cache' = [d \in Devices |-> Absent]
    /\ wire' = <<>>
    /\ UNCHANGED <<nmVars, reported, toPanel, panelVars>>

Start ==
    /\ ~up /\ up' = TRUE
    /\ toPanel' = Append(toPanel, Registered)
    /\ UNCHANGED <<nmVars, reported, wire, cache, store, panelVars, inputs>>

-----------------------------------------------------------------------------
(* The panel. *)

\* IpConflicted, for the device of a path.
IpConflicted(d, path) == path # 0 /\ cache[d].path = path /\ store[d] # {}

\* onDeviceAdded and deviceRemoved: a new device is asked about.
PanelSees(d) ==
    /\ panel[d] # nm[d].path
    /\ panel' = [panel EXCEPT ![d] = nm[d].path]
    /\ warning' = [warning EXCEPT ![d] = IpConflicted(d, nm[d].path)]
    /\ UNCHANGED <<nmVars, reported, serviceVars, toPanel, inputs>>

PanelHears_NoRegistered ==                  \* not asked again after a restart
    /\ toPanel # <<>>
    /\ toPanel' = Tail(toPanel)
    /\ LET m == Head(toPanel) IN
       warning' = [d \in Devices |->
                     IF m # Registered /\ panel[d] = m.path THEN m.warn ELSE warning[d]]
    /\ UNCHANGED <<nmVars, reported, serviceVars, panel, inputs>>

\* checkIpConflicted when the service is registered, else onIpConflictChanged.
PanelHears ==
    /\ toPanel # <<>>
    /\ toPanel' = Tail(toPanel)
    /\ LET m == Head(toPanel) IN
       \/ /\ m = Registered
          /\ warning' = [d \in Devices |-> IpConflicted(d, panel[d])]
       \/ /\ m # Registered
          /\ warning' = [d \in Devices |-> IF panel[d] = m.path THEN m.warn ELSE warning[d]]
    /\ UNCHANGED <<nmVars, reported, serviceVars, panel, inputs>>

-----------------------------------------------------------------------------
Next ==
    \/ \E d \in Devices :
          \/ Plug(d) \/ Unplug(d) \/ ChangeAddresses(d) \/ Reconnect(d)
          \/ \E c \in Conflict : ReportConflict(d, c) \/ ReportResolve(d, c)
          \/ Refresh(d) \/ PanelSees(d)
    \/ HandleReport \/ Stop \/ Start \/ PanelHears

Spec == Init /\ [][Next]_vars

\* The service, the panel and the bus go on, and a service that stopped is
\* started again; the daemon and NetworkManager need not act.
FairSpec ==
    /\ Spec
    /\ \A d \in Devices : WF_vars(Refresh(d)) /\ WF_vars(PanelSees(d))
    /\ WF_vars(HandleReport) /\ WF_vars(Start) /\ WF_vars(PanelHears)

-----------------------------------------------------------------------------
(* Properties. *)

TypeOK ==
    /\ nm \in [Devices -> View] /\ paths \in Nat
    /\ automatic \subseteq Devices
    /\ reconnect \subseteq {d \in Devices : Reconnects /\ nm[d] # Absent}
    /\ reported \in [Devices -> SUBSET Conflict]
    /\ wire \in Seq(Report)
    /\ up \in BOOLEAN
    /\ cache \in [Devices -> View]
    /\ store \in [Devices -> SUBSET Conflict]
    /\ toPanel \in Seq(Message)
    /\ panel \in [Devices -> Path] /\ warning \in [Devices -> BOOLEAN]
    /\ inputs \in 0 .. MaxInputs

\* The panel does not go on to warn of a device without a conflict in the store:
\* once it has read all signals, and it and the service know the device by the
\* same path, a warning has a conflict behind it.  Conflicts are announced one by
\* one and withdrawn all at once (doConflictReslove, updateIpv4), a store is
\* lost in a restart and devices come back under another path.
WarningIsReal ==
    \A d \in Devices :
       (/\ up /\ toPanel = <<>>
        /\ panel[d] # 0 /\ panel[d] = cache[d].path
        /\ warning[d])
       => store[d] # {}

\* Once the daemon has resolved all conflicts of a device that was never
\* unplugged, the warning goes for good, in whatever order conflicts were
\* reported, dropped and resolved, and whatever a restart of the service lost.
WarningGoes ==
    \A d \in Devices :
       (/\ [](nm[d].path <= 1)
        /\ <>[](reported[d] = {}))
       => <>[](~warning[d])

=============================================================================
