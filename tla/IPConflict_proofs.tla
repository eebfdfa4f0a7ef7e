-------------------------- MODULE IPConflict_proofs --------------------------
(***************************************************************************)
(* Proofs about IPConflict: its types, and that a warning the panel shows, *)
(* once it has read all signals, has a conflict behind it, for any number  *)
(* of devices, addresses, hosts, conflicts, unplugs and restarts.          *)
(***************************************************************************)
EXTENDS IPConflict, TLAPS

-----------------------------------------------------------------------------
(* Types. *)

\* A device, and the service's copy of it, has a path exactly as long as it is there.
Placed ==
    \A d \in Devices : /\ nm[d].path = 0 => nm[d] = Absent
                       /\ cache[d].path = 0 => cache[d] = Absent

\* What a queue has after a message was sent, and after one was read.
LEMMA Queues ==
  ASSUME NEW S, NEW q \in Seq(S)
  PROVE  /\ \A m \in S : /\ Append(q, m) \in Seq(S) /\ Len(Append(q, m)) = Len(q) + 1
                         /\ Append(q, m)[Len(q) + 1] = m
                         /\ \A i \in 1 .. Len(q) : Append(q, m)[i] = q[i]
         /\ Len(q) \in Nat
         /\ q # <<>> => /\ Head(q) \in S /\ Tail(q) \in Seq(S)
                        /\ Head(q) = q[1] /\ Len(q) >= 1 /\ Len(Tail(q)) = Len(q) - 1
                        /\ \A i \in 1 .. Len(q) - 1 : Tail(q)[i] = q[i + 1]
  OBVIOUS

\* What a queue of messages is after one was sent.
LEMMA Sent ==
  ASSUME NEW S, NEW q \in Seq(S), NEW m \in S
  PROVE  Append(q, m) \in Seq(S)
  OBVIOUS

\* One device of NetworkManager is replaced.
LEMMA NmType ==
  ASSUME NEW f \in [Devices -> View], NEW d \in Devices, NEW view \in View
  PROVE  /\ [f EXCEPT ![d] = view] \in [Devices -> View]
         /\ [f EXCEPT ![d] = view][d] = view
         /\ \A e \in Devices : e # d => [f EXCEPT ![d] = view][e] = f[e]
  OBVIOUS

\* A signal to the panel is a message about a path.
LEMMA AnnounceType ==
  ASSUME TypeOK, NEW d \in Devices, NEW warn \in BOOLEAN
  PROVE  /\ [path |-> cache[d].path, warn |-> warn] \in Message
         /\ Announce(d, warn) \in Seq(Message)
  <1>1. [path |-> cache[d].path, warn |-> warn] \in Message
    BY DEF TypeOK, View, Message
  <1> QED
    BY <1>1, Queues DEF Announce, TypeOK

LEMMA InitTypes == Init => TypeOK
  <1> SUFFICES ASSUME Init PROVE TypeOK
    OBVIOUS
  <1>1. wire \in Seq(Report) /\ toPanel \in Seq(Message)
    BY DEF Init
  <1>2. Absent \in View /\ inputs \in 0 .. MaxInputs
    BY IPConflictAssumption DEF Init, Absent, View, Path
  <1> QED
    BY <1>1, <1>2 DEF Init, TypeOK, Path

\* The devices that are to be connected anew are there.
Reconnecting(devices, views) == devices \subseteq {d \in Devices : Reconnects /\ views[d] # Absent}

LEMMA PlugType ==
  ASSUME TypeOK, Placed, NEW d \in Devices, Plug(d) \/ Unplug(d) \/ ChangeAddresses(d) \/ Reconnect(d)
  PROVE  TypeOK'
  <1>1. /\ nm' \in [Devices -> View] /\ paths' \in Nat
        /\ \A e \in Devices : e # d => nm'[e] = nm[e]
    <2>1. CASE Plug(d)
      <3>1. PICK ips \in SUBSET Ips : nm' = [nm EXCEPT ![d] = [path |-> paths + 1, ips |-> ips]]
        BY <2>1 DEF Plug
      <3>2. [path |-> paths + 1, ips |-> ips] \in View /\ paths' \in Nat
        BY <2>1 DEF Plug, TypeOK, View, Path
      <3> QED
        BY <3>1, <3>2, NmType DEF TypeOK
    <2>2. CASE Unplug(d)
      <3>1. Absent \in View
        BY DEF Absent, View, Path
      <3> QED
        BY <2>2, <3>1, NmType DEF Unplug, TypeOK
    <2>3. CASE ChangeAddresses(d) \/ Reconnect(d)
      <3>1. PICK ips \in SUBSET Ips : nm' = [nm EXCEPT ![d].ips = ips]
        BY <2>3 DEF ChangeAddresses, Reconnect
      <3>2. paths' = paths
        BY <2>3 DEF ChangeAddresses, Reconnect
      <3> QED
        BY <3>1, <3>2 DEF TypeOK, View
    <2> QED
      BY <2>1, <2>2, <2>3
  <1>2. Reconnecting(reconnect', nm')
    <2>1. CASE Plug(d)
      BY <1>1, <2>1 DEF Plug, TypeOK, Reconnecting
    <2>2. CASE Unplug(d) \/ Reconnect(d)
      <3>1. reconnect' = reconnect \ {d}
        BY <2>2 DEF Unplug, Reconnect
      <3> QED
        BY <1>1, <3>1 DEF TypeOK, Reconnecting
    <2>3. CASE ChangeAddresses(d)
      <3>1. PICK ips \in SUBSET Ips : nm' = [nm EXCEPT ![d].ips = ips]
        BY <2>3 DEF ChangeAddresses
      <3>2. nm[d] \in View /\ nm'[d] = [nm[d] EXCEPT !.ips = ips] /\ reconnect' = reconnect
        BY <2>3, <3>1 DEF ChangeAddresses, TypeOK
      <3>3. nm[d].path # 0 /\ nm'[d].path = nm[d].path
        BY <2>3, <3>2 DEF ChangeAddresses, Placed, View
      <3>4. nm'[d] # Absent
        BY <3>3 DEF Absent
      <3> QED
        BY <1>1, <3>2, <3>4 DEF TypeOK, Reconnecting
    <2> QED
      BY <2>1, <2>2, <2>3
  <1>3. inputs' \in 0 .. MaxInputs
    BY IPConflictAssumption DEF Plug, Unplug, ChangeAddresses, Reconnect, Input, TypeOK
  <1>4. UNCHANGED <<automatic, reported, serviceVars, toPanel, panelVars>>
    BY DEF Plug, Unplug, ChangeAddresses, Reconnect
  <1> QED
    BY <1>1, <1>2, <1>3, <1>4 DEF TypeOK, Reconnecting, serviceVars, panelVars

LEMMA ReportType ==
  ASSUME TypeOK, NEW d \in Devices, NEW c \in Conflict, ReportConflict(d, c) \/ ReportResolve(d, c)
  PROVE  TypeOK'
  <1>1. /\ [op |-> "conflict", device |-> d, conflict |-> c] \in Report
        /\ [op |-> "resolve", device |-> d, conflict |-> c] \in Report
    BY DEF Report
  <1>2. wire' \in Seq(Report)
    <2>1. wire' \in {wire, Append(wire, [op |-> "conflict", device |-> d, conflict |-> c]),
                     Append(wire, [op |-> "resolve", device |-> d, conflict |-> c])}
      BY DEF ReportConflict, ReportResolve, Send
    <2>2. wire \in Seq(Report)
      BY DEF TypeOK
    <2>3. \A m \in Report : Append(wire, m) \in Seq(Report)
      BY <2>2, Sent
    <2> QED
      BY <1>1, <2>1, <2>2, <2>3
  <1>3. reported' \in [Devices -> SUBSET Conflict]
    <2>1. reported' \in {[reported EXCEPT ![d] = reported[d] \cup {c}],
                        [reported EXCEPT ![d] = reported[d] \ {c}]}
      BY DEF ReportConflict, ReportResolve
    <2>2. reported \in [Devices -> SUBSET Conflict]
      BY DEF TypeOK
    <2> QED
      BY <2>1, <2>2
  <1>4. inputs' \in 0 .. MaxInputs
    BY IPConflictAssumption DEF ReportConflict, ReportResolve, Input, TypeOK
  <1>5. UNCHANGED <<nmVars, up, cache, store, toPanel, panelVars>>
    BY DEF ReportConflict, ReportResolve
  <1> QED
    BY <1>2, <1>3, <1>4, <1>5 DEF TypeOK, nmVars, panelVars

LEMMA HandleType ==
  ASSUME TypeOK, HandleReport
  PROVE  TypeOK'
  <1>1. Head(wire) \in Report /\ wire' \in Seq(Report)
    BY Queues DEF HandleReport, TypeOK
  <1> DEFINE d == Head(wire).device  c == Head(wire).conflict
  <1>2. d \in Devices /\ c \in Conflict
    BY <1>1 DEF Report
  <1> HIDE DEF d, c
  <1>3. /\ OnIPConflicted(d, c) \/ (OnIPConflictResolve(d, c) /\ UNCHANGED reconnect)
        /\ UNCHANGED <<nm, paths, automatic, reported, up, cache, panelVars, inputs>>
    BY DEF HandleReport, d, c
  <1>4. /\ store' \in [Devices -> SUBSET Conflict]
        /\ toPanel' \in Seq(Message)
        /\ reconnect' \subseteq {e \in Devices : Reconnects /\ nm[e] # Absent}
    <2>1. CASE OnIPConflicted(d, c)
      <3>1. toPanel' \in {toPanel, Announce(d, TRUE)}
        BY <2>1 DEF OnIPConflicted
      <3>2. store' \in [Devices -> SUBSET Conflict]
        <4>1. store' \in {store, [store EXCEPT ![d] = @ \cup {c}]}
          BY <2>1 DEF OnIPConflicted
        <4> QED
          BY <1>2, <4>1 DEF TypeOK
      <3>3. reconnect' = reconnect \/ (reconnect' = reconnect \cup {d} /\ Reconnects /\ CanReconnect(d))
        BY <2>1 DEF OnIPConflicted
      <3> QED
        BY <1>2, <3>1, <3>2, <3>3, AnnounceType DEF CanReconnect, TypeOK
    <2>2. CASE OnIPConflictResolve(d, c) /\ UNCHANGED reconnect
      <3>1. toPanel' \in {toPanel, Announce(d, FALSE)}
        BY <2>2 DEF OnIPConflictResolve
      <3>2. store' \in [Devices -> SUBSET Conflict]
        <4>1. store' \in {store, [store EXCEPT ![d] = store[d] \ {c}]}
          BY <2>2 DEF OnIPConflictResolve
        <4>2. store \in [Devices -> SUBSET Conflict]
          BY DEF TypeOK
        <4> QED
          BY <1>2, <4>1, <4>2
      <3> QED
        BY <1>2, <2>2, <3>1, <3>2, AnnounceType DEF TypeOK
    <2> QED
      BY <1>3, <2>1, <2>2
  <1> QED
    BY <1>1, <1>3, <1>4 DEF TypeOK, panelVars

LEMMA RefreshType ==
  ASSUME TypeOK, NEW d \in Devices, Refresh(d)
  PROVE  TypeOK'
  <1>1. cache' \in [Devices -> View]
    BY DEF Refresh, TypeOK
  <1>2. store' \in [Devices -> SUBSET Conflict] /\ toPanel' \in {toPanel, Announce(d, FALSE)}
    <2>1. /\ store' \in {store, [store EXCEPT ![d] = store[d] \ Dropped(d)]}
          /\ toPanel' \in {toPanel, Announce(d, FALSE)}
      BY DEF Refresh
    <2>2. store \in [Devices -> SUBSET Conflict]
      BY DEF TypeOK
    <2> QED
      BY <2>1, <2>2
  <1>3. UNCHANGED <<nmVars, reported, wire, up, panelVars, inputs>>
    BY DEF Refresh
  <1> QED
    BY <1>1, <1>2, <1>3, AnnounceType DEF TypeOK, nmVars, panelVars

LEMMA RestartType ==
  ASSUME TypeOK, Stop \/ Start
  PROVE  TypeOK'
  <1>1. Absent \in View /\ Registered \in Message
    BY DEF Absent, View, Registered, Message, Path
  <1>2. toPanel' \in Seq(Message)
    BY <1>1, Sent DEF Stop, Start, TypeOK
  <1>3. wire' \in Seq(Report)
    <2>1. <<>> \in Seq(Report) /\ wire' \in {wire, <<>>}
      BY DEF Stop, Start
    <2> QED
      BY <2>1 DEF TypeOK
  <1>4. cache' \in [Devices -> View] /\ store' \in [Devices -> SUBSET Conflict] /\ up' \in BOOLEAN
    BY <1>1 DEF Stop, Start, TypeOK
  <1>5. inputs' \in 0 .. MaxInputs /\ UNCHANGED <<nmVars, reported, panelVars>>
    BY IPConflictAssumption DEF Stop, Start, Input, TypeOK
  <1> QED
    BY <1>2, <1>3, <1>4, <1>5 DEF TypeOK, nmVars, panelVars

LEMMA PanelType ==
  ASSUME TypeOK, PanelHears \/ \E d \in Devices : PanelSees(d)
  PROVE  TypeOK'
  <1>1. CASE PanelHears
    <2>1. Head(toPanel) \in Message /\ toPanel' \in Seq(Message)
      BY <1>1, Queues DEF PanelHears, TypeOK
    <2>2. warning' \in [Devices -> BOOLEAN]
      BY <1>1, <2>1 DEF PanelHears, IpConflicted, Message, TypeOK
    <2>3. UNCHANGED <<nmVars, reported, serviceVars, panel, inputs>>
      BY <1>1 DEF PanelHears
    <2> QED
      BY <2>1, <2>2, <2>3 DEF TypeOK, nmVars, serviceVars
  <1>2. ASSUME NEW d \in Devices, PanelSees(d) PROVE TypeOK'
    <2>1. nm[d].path \in Path
      BY DEF TypeOK, View
    <2>2. IpConflicted(d, nm[d].path) \in BOOLEAN
      BY DEF IpConflicted
    <2>3. panel' \in [Devices -> Path] /\ warning' \in [Devices -> BOOLEAN]
      BY <1>2, <2>1, <2>2 DEF PanelSees, TypeOK
    <2>4. UNCHANGED <<nmVars, reported, serviceVars, toPanel, inputs>>
      BY <1>2 DEF PanelSees
    <2> QED
      BY <2>3, <2>4 DEF TypeOK, nmVars, serviceVars
  <1> QED
    BY <1>1, <1>2

\* What a step does to the devices and to the copy: to those of one device at most.
LEMMA PlacedStep ==
  ASSUME TypeOK, Placed, [Next]_vars
  PROVE  Placed'
  <1> SUFFICES ASSUME NEW e \in Devices
               PROVE  /\ nm'[e].path = 0 => nm'[e] = Absent
                      /\ cache'[e].path = 0 => cache'[e] = Absent
    BY DEF Placed
  <1>1. nm \in [Devices -> View] /\ cache \in [Devices -> View] /\ paths \in Nat
    BY DEF TypeOK
  <1>2. ASSUME NEW d \in Devices, Plug(d) \/ Unplug(d) \/ ChangeAddresses(d) \/ Reconnect(d)
        PROVE  nm'[e].path = 0 => nm'[e] = Absent
    <2>1. CASE Plug(d)
      BY <1>1, <2>1 DEF Plug, Placed
    <2>2. CASE Unplug(d)
      BY <1>1, <2>2 DEF Unplug, Placed
    <2>3. CASE ChangeAddresses(d)
      <3>1. PICK ips \in SUBSET Ips : nm' = [nm EXCEPT ![d].ips = ips]
        BY <2>3 DEF ChangeAddresses
      <3> QED
        BY <1>1, <2>3, <3>1 DEF ChangeAddresses, Placed, View
    <2>4. CASE Reconnect(d)
      <3>1. PICK ips \in SUBSET Ips : nm' = [nm EXCEPT ![d].ips = ips]
        BY <2>4 DEF Reconnect
      <3>2. nm[d] # Absent
        BY <2>4 DEF Reconnect, TypeOK
      <3> QED
        BY <1>1, <3>1, <3>2 DEF Placed, View
    <2> QED
      BY <1>2, <2>1, <2>2, <2>3, <2>4
  <1>3. \/ UNCHANGED nm
        \/ \E d \in Devices : Plug(d) \/ Unplug(d) \/ ChangeAddresses(d) \/ Reconnect(d)
    BY DEF Next, vars, nmVars, ReportConflict, ReportResolve, Refresh, PanelSees, HandleReport, Stop,
           Start, PanelHears
  <1>4. nm'[e].path = 0 => nm'[e] = Absent
    BY <1>2, <1>3 DEF Placed
  <1>5. UNCHANGED cache \/ Stop \/ \E d \in Devices : Refresh(d)
    BY DEF Next, vars, nmVars, serviceVars, ReportConflict, ReportResolve, Plug, Unplug,
           ChangeAddresses, Reconnect, PanelSees, HandleReport, Start, PanelHears
  <1>6. cache'[e].path = 0 => cache'[e] = Absent
    <2>1. CASE Stop
      BY <2>1 DEF Stop
    <2>2. ASSUME NEW d \in Devices, Refresh(d) PROVE cache'[e].path = 0 => cache'[e] = Absent
      BY <1>1, <2>2 DEF Refresh, Placed
    <2> QED
      BY <1>5, <2>1, <2>2 DEF Placed
  <1> QED
    BY <1>4, <1>6

LEMMA TypeStep ==
  ASSUME TypeOK, Placed, [Next]_vars
  PROVE  TypeOK'
  <1>1. CASE UNCHANGED vars
    BY <1>1 DEF TypeOK, vars, nmVars, serviceVars, panelVars
  <1>2. CASE Next
    BY <1>2, PlugType, ReportType, HandleType, RefreshType, RestartType, PanelType DEF Next
  <1> QED
    BY <1>1, <1>2

LEMMA InitPlaced == Init => Placed
  BY DEF Init, Placed

\* Every table and queue keeps its type, and a device that is to be connected anew is
\* there.
THEOREM TypeCorrect == Spec => []TypeOK
  <1>1. TypeOK /\ Placed /\ [Next]_vars => (TypeOK /\ Placed)'
    BY TypeStep, PlacedStep
  <1> QED
    BY <1>1, InitTypes, InitPlaced, PTL DEF Spec

-----------------------------------------------------------------------------
(* Warnings. *)

Settling(p) == {Registered, [path |-> p, warn |-> FALSE]}
Warning(p) == [path |-> p, warn |-> TRUE]

\* The panel will not warn of a device under the path p: a signal on its way takes the
\* warning back and none follows that gives one, or it does not warn and none is on its
\* way.
Settled(d, p) ==
    \/ \E i \in 1 .. Len(toPanel) :
          /\ toPanel[i] \in Settling(p)
          /\ \A j \in 1 .. Len(toPanel) : j > i => toPanel[j] # Warning(p)
    \/ /\ panel[d] = p => ~warning[d]
       /\ \A j \in 1 .. Len(toPanel) : toPanel[j] # Warning(p)

\* No path is used before NetworkManager has given it to a device.
Fresh ==
    /\ \A d \in Devices : nm[d].path <= paths /\ cache[d].path <= paths /\ panel[d] <= paths
    /\ \A i \in 1 .. Len(toPanel) : toPanel[i].path <= paths

\* No two devices have had the same path.
Owned ==
    \A d, e \in Devices : d # e =>
       /\ nm[d].path # 0 => nm[d].path # nm[e].path /\ nm[d].path # cache[e].path
       /\ cache[d].path # 0 => cache[d].path # cache[e].path

\* A device the service does not know is settled, and so is one without conflicts.
NewSettled ==
    up => \A d \in Devices :
             nm[d].path # 0 /\ nm[d].path # cache[d].path => Settled(d, nm[d].path)

KnownSettled ==
    up => \A d \in Devices :
             cache[d].path # 0 /\ store[d] = {} => Settled(d, cache[d].path)

IInv == TypeOK /\ Placed /\ Fresh /\ Owned /\ NewSettled /\ KnownSettled

Kept == Fresh /\ Owned /\ NewSettled /\ KnownSettled

LEMMA SettledBySending ==
  ASSUME TypeOK, NEW d, NEW p, NEW m \in Message, m \in Settling(p), toPanel' = Append(toPanel, m)
  PROVE  Settled(d, p)'
  <1> DEFINE q == toPanel'  n == Len(toPanel) + 1
  <1>1. toPanel \in Seq(Message)
    BY DEF TypeOK
  <1>2. Len(q) = n /\ n \in Nat /\ n >= 1 /\ q[n] = m
    BY <1>1
  <1>3. n \in 1 .. Len(q) /\ \A j \in 1 .. Len(q) : ~(j > n)
    BY <1>2
  <1>4. q[n] \in Settling(p)
    BY <1>2
  <1>5. \E i \in 1 .. Len(q) : /\ q[i] \in Settling(p)
                               /\ \A j \in 1 .. Len(q) : j > i => q[j] # Warning(p)
    BY <1>3, <1>4
  <1> QED
    BY <1>5 DEF Settled, Settling, Warning

LEMMA SettledKept ==
  ASSUME TypeOK, NEW d \in Devices, NEW p, NEW m \in Message, m # Warning(p), Settled(d, p),
         toPanel' = toPanel \/ toPanel' = Append(toPanel, m), UNCHANGED panelVars
  PROVE  Settled(d, p)'
  <1>1. CASE toPanel' = toPanel
    BY <1>1 DEF Settled, Settling, Warning, panelVars
  <1>2. CASE toPanel' = Append(toPanel, m)
    <2> DEFINE q == toPanel'  n == Len(toPanel)
    <2>1. toPanel \in Seq(Message)
      BY DEF TypeOK
    <2>2. /\ Len(q) = n + 1 /\ n \in Nat /\ q[n + 1] = m
          /\ \A i \in 1 .. n : q[i] = toPanel[i]
      BY <1>2, <2>1
    <2>3. CASE \E i \in 1 .. n : /\ toPanel[i] \in Settling(p)
                                 /\ \A j \in 1 .. n : j > i => toPanel[j] # Warning(p)
      <3>1. PICK i \in 1 .. n : /\ toPanel[i] \in Settling(p)
                                /\ \A j \in 1 .. n : j > i => toPanel[j] # Warning(p)
        BY <2>3
      <3>2. i \in 1 .. Len(q) /\ q[i] \in Settling(p)
        BY <2>2, <3>1
      <3>3. \A j \in 1 .. Len(q) : j > i => q[j] # Warning(p)
        <4> SUFFICES ASSUME NEW j \in 1 .. Len(q), j > i PROVE q[j] # Warning(p)
          OBVIOUS
        <4>1. CASE j = n + 1
          BY <2>2, <4>1
        <4>2. CASE j \in 1 .. n
          BY <2>2, <3>1, <4>2
        <4> QED
          BY <2>2, <4>1, <4>2
      <3> QED
        BY <3>2, <3>3 DEF Settled, Settling, Warning
    <2>4. CASE /\ panel[d] = p => ~warning[d]
               /\ \A j \in 1 .. n : toPanel[j] # Warning(p)
      <3>1. \A j \in 1 .. Len(q) : q[j] # Warning(p)
        <4> SUFFICES ASSUME NEW j \in 1 .. Len(q) PROVE q[j] # Warning(p)
          OBVIOUS
        <4>1. CASE j = n + 1
          BY <2>2, <4>1
        <4>2. CASE j \in 1 .. n
          BY <2>2, <2>4, <4>2
        <4> QED
          BY <2>2, <4>1, <4>2
      <3> QED
        BY <2>4, <3>1 DEF Settled, Warning, panelVars
    <2> QED
      BY <2>3, <2>4 DEF Settled
  <1> QED
    BY <1>1, <1>2

\* The panel asks about a device without conflicts, or reads a signal.
LEMMA SettledSeen ==
  ASSUME TypeOK, NEW d \in Devices, NEW e \in Devices, NEW p, Settled(d, p), PanelSees(e),
         p = cache[d].path => store[d] = {}
  PROVE  Settled(d, p)'
  <1>1. UNCHANGED toPanel
    BY DEF PanelSees
  <1>2. (panel[d] = p => ~warning[d]) => (panel'[d] = p => ~warning'[d])
    BY DEF PanelSees, IpConflicted, TypeOK
  <1> QED
    BY <1>1, <1>2 DEF Settled, Settling, Warning

LEMMA SettledRead ==
  ASSUME TypeOK, NEW d \in Devices, NEW p \in Nat \ {0}, Settled(d, p), PanelHears,
         p = cache[d].path => store[d] = {}
  PROVE  Settled(d, p)'
  <1> DEFINE q == toPanel  r == toPanel'  n == Len(toPanel)
  <1>1. /\ q \in Seq(Message) /\ q # <<>> /\ r = Tail(q)
        /\ panel \in [Devices -> Nat] /\ warning \in [Devices -> BOOLEAN]
    BY DEF PanelHears, TypeOK, Path
  <1>2. /\ Head(q) = q[1] /\ n \in Nat /\ n >= 1 /\ Len(r) = n - 1
        /\ \A j \in 1 .. n - 1 : r[j] = q[j + 1]
        /\ q[1] \in Message
    BY <1>1
  <1>3. UNCHANGED panel
    BY DEF PanelHears
  <1>4. q[1] \in Settling(p) => (panel[d] = p => ~warning'[d])
    <2> SUFFICES ASSUME panel[d] = p, q[1] \in Settling(p) PROVE ~warning'[d]
      OBVIOUS
    <2>1. CASE q[1] = Registered
      <3>1. warning' = [e \in Devices |-> IpConflicted(e, panel[e])]
        BY <1>2, <2>1 DEF PanelHears
      <3> QED
        BY <3>1 DEF IpConflicted
    <2>2. CASE q[1] # Registered
      <3>1. q[1] = [path |-> p, warn |-> FALSE]
        BY <2>2 DEF Settling
      <3>2. warning' = [e \in Devices |-> IF panel[e] = q[1].path THEN q[1].warn ELSE warning[e]]
        BY <1>2, <2>2 DEF PanelHears
      <3> QED
        BY <3>1, <3>2
    <2> QED
      BY <2>1, <2>2
  <1>5. q[1] # Warning(p) /\ (panel[d] = p => ~warning[d]) => (panel[d] = p => ~warning'[d])
    <2> SUFFICES ASSUME q[1] # Warning(p), ~warning[d], panel[d] = p PROVE ~warning'[d]
      BY <1>4 DEF Settling
    <2>1. CASE q[1] = Registered
      BY <1>4, <2>1 DEF Settling
    <2>2. CASE q[1] # Registered
      <3>1. warning'[d] = IF panel[d] = q[1].path THEN q[1].warn ELSE warning[d]
        BY <1>1, <1>2, <2>2 DEF PanelHears
      <3>2. q[1].path = p => ~q[1].warn
        BY <1>2 DEF Message, Warning
      <3> QED
        BY <3>1, <3>2
    <2> QED
      BY <2>1, <2>2
  <1>6. CASE \E i \in 1 .. n : /\ q[i] \in Settling(p)
                               /\ \A j \in 1 .. n : j > i => q[j] # Warning(p)
    <2>1. PICK i \in 1 .. n : /\ q[i] \in Settling(p)
                              /\ \A j \in 1 .. n : j > i => q[j] # Warning(p)
      BY <1>6
    <2>2. \A j \in 1 .. Len(r) : j + 1 > i => r[j] # Warning(p)
      BY <1>2, <2>1
    <2>3. CASE i = 1
      <3>1. \A j \in 1 .. Len(r) : r[j] # Warning(p)
        BY <1>2, <2>2, <2>3
      <3>2. panel[d] = p => ~warning'[d]
        BY <1>4, <2>1, <2>3
      <3> QED
        BY <1>3, <3>1, <3>2 DEF Settled, Warning
    <2>4. CASE i > 1
      <3>1. i - 1 \in 1 .. Len(r) /\ r[i - 1] \in Settling(p)
        BY <1>2, <2>1, <2>4
      <3>2. \A j \in 1 .. Len(r) : j > i - 1 => r[j] # Warning(p)
        BY <1>2, <2>2, <2>4
      <3> QED
        BY <3>1, <3>2 DEF Settled, Settling, Warning
    <2> QED
      BY <2>3, <2>4
  <1>7. CASE /\ panel[d] = p => ~warning[d]
             /\ \A j \in 1 .. n : q[j] # Warning(p)
    <2>1. \A j \in 1 .. Len(r) : r[j] # Warning(p)
      BY <1>2, <1>7
    <2>2. panel[d] = p => ~warning'[d]
      BY <1>2, <1>5, <1>7
    <2> QED
      BY <1>3, <2>1, <2>2 DEF Settled, Warning
  <1> QED
    BY <1>6, <1>7 DEF Settled

\* A path no device has had yet.
LEMMA SettledNew ==
  ASSUME TypeOK, Fresh, NEW d \in Devices, NEW p, p = paths + 1, UNCHANGED <<toPanel, panelVars>>
  PROVE  Settled(d, p)'
  <1>1. paths \in Nat /\ toPanel \in Seq(Message) /\ panel \in [Devices -> Nat]
    BY DEF TypeOK, Path
  <1>2. panel[d] # p /\ \A j \in 1 .. Len(toPanel) : toPanel[j] # Warning(p)
    BY <1>1 DEF Fresh, Warning, Message, Path
  <1> QED
    BY <1>2 DEF Settled, Settling, Warning, panelVars

\* Nothing is sent, the devices keep their paths, and no store becomes empty.
LEMMA KeptQuiet ==
  ASSUME IInv, UNCHANGED <<paths, toPanel, panelVars, up>>,
         \A e \in Devices : /\ nm'[e].path = nm[e].path /\ cache'[e].path = cache[e].path
                            /\ store'[e] = {} => store[e] = {}
  PROVE  Kept'
  <1>1. \A e \in Devices : \A p \in Path : Settled(e, p) => Settled(e, p)'
    BY DEF Settled, Settling, Warning, panelVars
  <1>2. \A e \in Devices : nm[e].path \in Path /\ cache[e].path \in Path
    BY DEF IInv, TypeOK, View
  <1>3. Fresh'
    BY DEF IInv, Fresh, panelVars
  <1>4. Owned'
    BY DEF IInv, Owned
  <1>5. NewSettled'
    BY <1>1, <1>2 DEF IInv, NewSettled
  <1>6. KnownSettled'
    BY <1>1, <1>2 DEF IInv, KnownSettled
  <1> QED
    BY <1>3, <1>4, <1>5, <1>6 DEF Kept

\* NetworkManager gives a device a path of its own, or takes it away.
LEMMA KeptByPath ==
  ASSUME IInv, NEW d \in Devices, NEW view \in View, nm' = [nm EXCEPT ![d] = view],
         \/ view.path = 0 /\ paths' = paths
         \/ view.path = paths + 1 /\ paths' = paths + 1,
         UNCHANGED <<toPanel, panelVars, up, cache, store>>
  PROVE  Kept'
  <1>1. /\ nm \in [Devices -> View] /\ cache \in [Devices -> View] /\ paths \in Nat
        /\ panel \in [Devices -> Nat] /\ toPanel \in Seq(Message)
    BY DEF IInv, TypeOK, Path
  <1>2. \A e \in Devices : \A p \in Path : p = paths + 1 => Settled(e, p)'
    BY SettledNew DEF IInv
  <1>3. \A e \in Devices : \A p \in Path : Settled(e, p) => Settled(e, p)'
    BY DEF Settled, Settling, Warning, panelVars
  <1>4. /\ nm'[d] = view
        /\ \A e \in Devices : e # d => nm'[e] = nm[e]
    BY <1>1
  <1>5. \A e \in Devices : /\ nm[e].path \in Nat /\ cache[e].path \in Nat
                           /\ nm[e].path <= paths /\ cache[e].path <= paths /\ panel[e] <= paths
    BY <1>1 DEF IInv, Fresh, View, Path
  <1>6. \A i \in 1 .. Len(toPanel) : toPanel[i].path \in Nat
    <2>1. \A i \in 1 .. Len(toPanel) : toPanel[i] \in Message
      BY <1>1
    <2> QED
      BY <2>1 DEF Message, Path
  <1>7. Fresh'
    <2>1. \A e \in Devices : nm'[e].path <= paths' /\ cache'[e].path <= paths' /\ panel'[e] <= paths'
      BY <1>1, <1>4, <1>5 DEF panelVars
    <2>2. \A i \in 1 .. Len(toPanel) : toPanel[i].path <= paths'
      BY <1>1, <1>6 DEF IInv, Fresh
    <2> QED
      BY <2>1, <2>2 DEF Fresh
  <1>8. Owned'
    BY <1>1, <1>4, <1>5 DEF IInv, Owned
  <1>9. NewSettled'
    <2> SUFFICES ASSUME up, NEW e \in Devices, nm'[e].path # 0, nm'[e].path # cache[e].path
                 PROVE  Settled(e, nm[e].path)'
      BY DEF NewSettled
    <2>1. CASE e = d
      BY <1>1, <1>2, <1>4, <2>1 DEF Path
    <2>2. CASE e # d
      BY <1>3, <1>4, <1>5, <2>2 DEF IInv, NewSettled, Path
    <2> QED
      BY <2>1, <2>2
  <1>10. KnownSettled'
    BY <1>3, <1>5 DEF IInv, KnownSettled, Path
  <1> QED
    BY <1>7, <1>8, <1>9, <1>10 DEF Kept

\* The service sends a signal about a device: a warning when it has a conflict.
LEMMA KeptBySending ==
  ASSUME IInv, NEW d \in Devices, NEW warn \in BOOLEAN, toPanel' = Announce(d, warn),
         UNCHANGED <<paths, panelVars, up>>, warn => store'[d] # {},
         \A e \in Devices : /\ nm'[e].path = nm[e].path /\ cache'[e].path = cache[e].path
                            /\ e # d => store'[e] = store[e]
  PROVE  Kept'
  <1> DEFINE m == [path |-> cache[d].path, warn |-> warn]
  <1>1. m \in Message /\ toPanel' = Append(toPanel, m)
    BY AnnounceType DEF IInv, Announce
  <1>2. /\ \A e \in Devices : nm[e].path \in Nat /\ cache[e].path \in Nat
        /\ toPanel \in Seq(Message)
    BY DEF IInv, TypeOK, View, Path
  <1>3. Fresh'
    <2>1. m.path <= paths
      BY DEF IInv, Fresh
    <2>2. \A i \in 1 .. Len(toPanel') : toPanel'[i].path <= paths
      <3> SUFFICES ASSUME NEW i \in 1 .. Len(toPanel') PROVE toPanel'[i].path <= paths
        OBVIOUS
      <3>1. toPanel'[i] = IF i = Len(toPanel) + 1 THEN m ELSE toPanel[i]
        BY <1>1, <1>2
      <3>2. i # Len(toPanel) + 1 => i \in 1 .. Len(toPanel)
        BY <1>1, <1>2
      <3> QED
        BY <2>1, <3>1, <3>2 DEF IInv, Fresh
    <2> QED
      BY <2>2 DEF IInv, Fresh, panelVars
  <1>4. Owned'
    BY DEF IInv, Owned
  <1>5. NewSettled'
    <2> SUFFICES ASSUME up, NEW e \in Devices, nm[e].path # 0, nm[e].path # cache[e].path
                 PROVE  Settled(e, nm[e].path)'
      BY <1>2 DEF NewSettled, Settled, Settling, Warning
    <2> DEFINE p == nm[e].path
    <2>1. Settled(e, p) /\ p # cache[d].path
      BY DEF IInv, NewSettled, Owned
    <2>2. m # Warning(p)
      BY <2>1 DEF Warning
    <2> QED
      BY <1>1, <2>1, <2>2, SettledKept DEF IInv
  <1>6. KnownSettled'
    <2> SUFFICES ASSUME up, NEW e \in Devices, cache[e].path # 0, store'[e] = {}
                 PROVE  Settled(e, cache[e].path)'
      BY <1>2 DEF KnownSettled
    <2>1. CASE e = d
      BY <1>1, <2>1, SettledBySending DEF IInv, Settling
    <2>2. CASE e # d
      <3> DEFINE p == cache[e].path
      <3>1. Settled(e, p) /\ p # cache[d].path
        BY <2>2 DEF IInv, KnownSettled, Owned
      <3>2. m # Warning(p)
        BY <3>1 DEF Warning
      <3> QED
        BY <1>1, <3>1, <3>2, SettledKept DEF IInv
    <2> QED
      BY <2>1, <2>2
  <1> QED
    BY <1>3, <1>4, <1>5, <1>6 DEF Kept

LEMMA KeptByDevices ==
  ASSUME IInv, NEW d \in Devices,
         Plug(d) \/ Unplug(d) \/ ChangeAddresses(d) \/ Reconnect(d)
  PROVE  Kept'
  <1>1. nm \in [Devices -> View] /\ paths \in Nat
    BY DEF IInv, TypeOK
  <1>2. CASE Plug(d)
    <2>1. PICK ips \in SUBSET Ips : nm' = [nm EXCEPT ![d] = [path |-> paths + 1, ips |-> ips]]
      BY <1>2 DEF Plug
    <2>2. [path |-> paths + 1, ips |-> ips] \in View
      BY <1>1 DEF View, Path
    <2> QED
      BY <1>2, <2>1, <2>2, KeptByPath DEF Plug, serviceVars
  <1>3. CASE Unplug(d)
    <2>1. Absent \in View /\ Absent.path = 0
      BY DEF Absent, View, Path
    <2> QED
      BY <1>3, <2>1, KeptByPath DEF Unplug, serviceVars
  <1>4. CASE ChangeAddresses(d) \/ Reconnect(d)
    <2>1. PICK ips \in SUBSET Ips : nm' = [nm EXCEPT ![d].ips = ips]
      BY <1>4 DEF ChangeAddresses, Reconnect
    <2>2. \A e \in Devices : nm'[e].path = nm[e].path
      BY <1>1, <2>1 DEF View
    <2> QED
      BY <1>4, <2>2, KeptQuiet DEF ChangeAddresses, Reconnect, serviceVars
  <1> QED
    BY <1>2, <1>3, <1>4

\* A report is ignored, or the store changes and tells.
LEMMA KeptByReport ==
  ASSUME IInv, HandleReport
  PROVE  Kept'
  <1>1. /\ store \in [Devices -> SUBSET Conflict] /\ wire \in Seq(Report) /\ wire # <<>>
        /\ UNCHANGED <<nm, paths, up, cache, panelVars>>
    BY DEF IInv, TypeOK, HandleReport
  <1>2. PICK d \in Devices, c \in Conflict :
           OnIPConflicted(d, c) \/ OnIPConflictResolve(d, c)
    <2>1. Head(wire) \in Report
      BY <1>1, Queues
    <2>2. Head(wire).device \in Devices /\ Head(wire).conflict \in Conflict
      BY <2>1 DEF Report
    <2> QED
      BY <2>2 DEF HandleReport
  <1>3. CASE UNCHANGED <<store, toPanel>>
    BY <1>1, <1>3, KeptQuiet
  <1>4. CASE store' = [store EXCEPT ![d] = @ \cup {c}] /\ toPanel' = Announce(d, TRUE)
    <2>1. store'[d] # {} /\ \A e \in Devices : e # d => store'[e] = store[e]
      BY <1>1, <1>4
    <2> QED
      BY <1>1, <1>4, <2>1, KeptBySending
  <1>5. CASE store' = [store EXCEPT ![d] = @ \ {c}]
    <2>1. store'[d] = store[d] \ {c} /\ \A e \in Devices : e # d => store'[e] = store[e]
      BY <1>1, <1>5
    <2>2. CASE toPanel' = Announce(d, FALSE)
      BY <1>1, <2>1, <2>2, KeptBySending
    <2>3. CASE UNCHANGED toPanel /\ ~(store[d] \subseteq {c})
      BY <1>1, <2>1, <2>3, KeptQuiet
    <2> QED
      BY <1>1, <1>2, <1>3, <1>5, <2>2, <2>3 DEF OnIPConflicted, OnIPConflictResolve
  <1> QED
    BY <1>2, <1>3, <1>4, <1>5 DEF OnIPConflicted, OnIPConflictResolve

\* A device whose path the service did not know is settled already.
LEMMA KeptByRefresh ==
  ASSUME IInv, NEW d \in Devices, Refresh(d)
  PROVE  Kept'
  <1>1. /\ nm \in [Devices -> View] /\ cache \in [Devices -> View]
        /\ store \in [Devices -> SUBSET Conflict]
        /\ UNCHANGED <<nm, paths, up, panelVars>> /\ up
        /\ cache' = [cache EXCEPT ![d] = nm[d]]
    BY DEF IInv, TypeOK, Refresh, nmVars
  <1>2. cache'[d] = nm[d] /\ \A e \in Devices : e # d => cache'[e] = cache[e]
    BY <1>1
  <1>3. CASE nm[d].path = cache[d].path
    <2>1. \A e \in Devices : cache'[e].path = cache[e].path
      BY <1>2, <1>3
    <2>2. CASE Dropped(d) # {}
      <3>1. /\ \A e \in Devices : e # d => store'[e] = store[e]
            /\ toPanel' = Announce(d, FALSE)
        BY <1>1, <1>3, <2>2 DEF Refresh
      <3> QED
        BY <1>1, <2>1, <3>1, KeptBySending
    <2>3. CASE Dropped(d) = {}
      BY <1>1, <1>3, <2>1, <2>3, KeptQuiet DEF Refresh
    <2> QED
      BY <2>2, <2>3
  <1>4. CASE nm[d].path # cache[d].path
    <2>1. UNCHANGED <<store, toPanel>>
      BY <1>4 DEF Refresh
    <2>2. \A e \in Devices : \A p \in Path : Settled(e, p) => Settled(e, p)'
      BY <1>1, <2>1 DEF Settled, Settling, Warning, panelVars
    <2>3. \A e \in Devices : nm[e].path \in Path /\ cache[e].path \in Path
      BY <1>1 DEF View
    <2>4. Fresh'
      BY <1>1, <1>2, <2>1 DEF IInv, Fresh, panelVars
    <2>5. Owned'
      BY <1>1, <1>2 DEF IInv, Owned
    <2>6. NewSettled'
      BY <1>1, <1>2, <2>2, <2>3 DEF IInv, NewSettled
    <2>7. KnownSettled'
      <3> SUFFICES ASSUME NEW e \in Devices, cache'[e].path # 0, store[e] = {}
                   PROVE  \E p \in Path : p = cache'[e].path /\ Settled(e, p)
        BY <2>1, <2>2 DEF KnownSettled
      <3>1. CASE e = d
        BY <1>1, <1>2, <1>4, <2>3, <3>1 DEF IInv, NewSettled
      <3>2. CASE e # d
        BY <1>1, <1>2, <2>3, <3>2 DEF IInv, KnownSettled
      <3> QED
        BY <3>1, <3>2
    <2> QED
      BY <2>4, <2>5, <2>6, <2>7 DEF Kept
  <1> QED
    BY <1>3, <1>4

\* A service that stopped knows no device; one that starts makes the panel ask again.
LEMMA KeptByRestart ==
  ASSUME IInv, Stop \/ Start
  PROVE  Kept'
  <1>1. /\ nm \in [Devices -> View] /\ cache \in [Devices -> View] /\ paths \in Nat
        /\ toPanel \in Seq(Message)
    BY DEF IInv, TypeOK
  <1>2. CASE Stop
    <2>1. ~up' /\ UNCHANGED <<nm, paths, toPanel, panelVars>>
      BY <1>2 DEF Stop, nmVars
    <2>2. \A e \in Devices : cache'[e].path = 0
      BY <1>2 DEF Stop, Absent
    <2>3. Fresh'
      BY <1>1, <2>1, <2>2 DEF IInv, Fresh, panelVars
    <2>4. Owned'
      BY <2>1, <2>2 DEF IInv, Owned
    <2> QED
      BY <2>1, <2>3, <2>4 DEF Kept, NewSettled, KnownSettled
  <1>3. CASE Start
    <2>1. /\ toPanel' = Append(toPanel, Registered)
          /\ UNCHANGED <<nm, paths, cache, store, panelVars>>
      BY <1>3 DEF Start, nmVars
    <2>2. Registered \in Message /\ \A p : Registered \in Settling(p)
      BY DEF Registered, Message, Path, Settling
    <2>3. \A e, p : Settled(e, p)'
      BY <2>1, <2>2, SettledBySending DEF IInv
    <2>4. \A i \in 1 .. Len(toPanel') : toPanel'[i].path <= paths
      <3> SUFFICES ASSUME NEW i \in 1 .. Len(toPanel') PROVE toPanel'[i].path <= paths
        OBVIOUS
      <3>1. toPanel'[i] = IF i = Len(toPanel) + 1 THEN Registered ELSE toPanel[i]
        BY <1>1, <2>1, <2>2
      <3>2. i # Len(toPanel) + 1 => i \in 1 .. Len(toPanel)
        BY <1>1, <2>1, <2>2
      <3> QED
        BY <1>1, <3>1, <3>2 DEF IInv, Fresh, Registered
    <2>5. Fresh'
      BY <2>1, <2>4 DEF IInv, Fresh, panelVars
    <2>6. Owned'
      BY <2>1 DEF IInv, Owned
    <2>7. NewSettled' /\ KnownSettled'
      BY <2>3 DEF NewSettled, KnownSettled
    <2> QED
      BY <2>5, <2>6, <2>7 DEF Kept
  <1> QED
    BY <1>2, <1>3

LEMMA KeptByPanel ==
  ASSUME IInv, PanelHears \/ \E d \in Devices : PanelSees(d)
  PROVE  Kept'
  <1>1. /\ UNCHANGED <<nm, paths, up, cache, store>>
        /\ \A e \in Devices : nm[e].path \in Nat /\ cache[e].path \in Nat
        /\ toPanel \in Seq(Message) /\ panel \in [Devices -> Nat]
    BY DEF IInv, TypeOK, View, Path, PanelHears, PanelSees, nmVars, serviceVars
  <1>2. \A e \in Devices : \A p \in Nat \ {0} :
           Settled(e, p) /\ (p = cache[e].path => store[e] = {}) => Settled(e, p)'
    BY SettledRead, SettledSeen DEF IInv
  <1>3. Fresh'
    <2>1. CASE PanelHears
      <3>1. Len(toPanel') = Len(toPanel) - 1 /\ Len(toPanel) \in Nat
            /\ \A i \in 1 .. Len(toPanel) - 1 : toPanel'[i] = toPanel[i + 1]
        BY <1>1, <2>1, Queues DEF PanelHears
      <3>2. \A i \in 1 .. Len(toPanel') : toPanel'[i].path <= paths
        BY <3>1 DEF IInv, Fresh
      <3> QED
        BY <1>1, <2>1, <3>2 DEF IInv, Fresh, PanelHears
    <2>2. ASSUME NEW d \in Devices, PanelSees(d) PROVE Fresh'
      BY <1>1, <2>2 DEF IInv, Fresh, PanelSees
    <2> QED
      BY <2>1, <2>2
  <1>4. Owned'
    BY <1>1 DEF IInv, Owned
  <1>5. NewSettled'
    BY <1>1, <1>2 DEF IInv, NewSettled
  <1>6. KnownSettled'
    BY <1>1, <1>2 DEF IInv, KnownSettled
  <1> QED
    BY <1>3, <1>4, <1>5, <1>6 DEF Kept

LEMMA KeptStep ==
  ASSUME IInv, [Next]_vars
  PROVE  Kept'
  <1>1. CASE UNCHANGED vars
    BY <1>1, KeptQuiet DEF vars, nmVars, serviceVars
  <1>2. ASSUME NEW d \in Devices, NEW c \in Conflict, ReportConflict(d, c) \/ ReportResolve(d, c)
        PROVE  Kept'
    BY <1>2, KeptQuiet DEF ReportConflict, ReportResolve, nmVars
  <1>3. CASE Next
    BY <1>2, <1>3, KeptByDevices, KeptByReport, KeptByRefresh, KeptByRestart, KeptByPanel DEF Next
  <1> QED
    BY <1>1, <1>3

LEMMA InitKept == Init => Kept
  <1> SUFFICES ASSUME Init PROVE Kept
    OBVIOUS
  <1>1. Fresh /\ Owned
    BY DEF Init, Fresh, Owned, Absent
  <1>2. NewSettled /\ KnownSettled
    BY DEF Init, NewSettled, KnownSettled, Absent
  <1> QED
    BY <1>1, <1>2 DEF Kept

\* A panel that has read all signals warns of a device it knows by the service's path
\* only where the store has a conflict: for any number of devices, conflicts, unplugs
\* and restarts of the service.  Until then a signal is on its way that withdraws the
\* warning, with none after it that gives it back.
THEOREM WarningHasConflict == Spec => []WarningIsReal
  <1>1. Init => IInv
    BY InitTypes, InitPlaced, InitKept DEF IInv, Kept
  <1>2. IInv /\ [Next]_vars => IInv'
    BY TypeStep, PlacedStep, KeptStep DEF IInv, Kept
  <1>3. IInv => WarningIsReal
    <2> SUFFICES ASSUME IInv, NEW d \in Devices, up, toPanel = <<>>,
                        panel[d] # 0, panel[d] = cache[d].path, warning[d]
                 PROVE  store[d] # {}
      BY DEF WarningIsReal
    <2>1. Settled(d, panel[d]) => ~warning[d]
      BY DEF Settled
    <2> QED
      BY <2>1 DEF IInv, KnownSettled
  <1> QED
    BY <1>1, <1>2, <1>3, PTL DEF Spec

=============================================================================
