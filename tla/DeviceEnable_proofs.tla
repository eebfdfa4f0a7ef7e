------------------------- MODULE DeviceEnable_proofs -------------------------
(***************************************************************************)
(* Proofs about DeviceEnable: its types, and that a device whose name the  *)
(* user has switched off is not connected at rest, for any number of       *)
(* devices, names, calls, changes and restarts.                            *)
(***************************************************************************)
EXTENDS DeviceEnable, WellFoundedInduction, TLAPS

-----------------------------------------------------------------------------
(* Sequences *)

\* What is taken from a queue, and what is left.
LEMMA HeadTail ==
  ASSUME NEW S, NEW q \in Seq(S), q # <<>>
  PROVE  /\ Head(q) \in S /\ Tail(q) \in Seq(S)
         /\ Len(q) \in Nat /\ Len(q) >= 1 /\ Len(Tail(q)) = Len(q) - 1
         /\ Head(q) = q[1]
         /\ \A i \in 1 .. Len(q) - 1 : Tail(q)[i] = q[i + 1]
  OBVIOUS

\* The elements of two queues, one after the other.
LEMMA Concat ==
  ASSUME NEW S, NEW q \in Seq(S), NEW r \in Seq(S)
  PROVE  /\ q \o r \in Seq(S)
         /\ Len(q) \in Nat /\ Len(r) \in Nat /\ Len(q \o r) = Len(q) + Len(r)
         /\ \A i \in 1 .. Len(q) : (q \o r)[i] = q[i]
         /\ \A i \in 1 .. Len(r) : (q \o r)[Len(q) + i] = r[i]
  OBVIOUS

\* A queue with one element more.
LEMMA AppendOne ==
  ASSUME NEW S, NEW q \in Seq(S), NEW m \in S
  PROVE  /\ Append(q, m) \in Seq(S) /\ Append(q, m) = q \o <<m>>
  OBVIOUS

-----------------------------------------------------------------------------
(* Types *)

\* What NetworkManager announces is a queue of snapshots.
LEMMA AnnounceType ==
  ASSUME nm \in [Devices -> View], signals \in [Devices -> Seq(View)],
         NEW d \in Devices, NEW views \in Seq(View), views # <<>>,
         Announce(d, views)
  PROVE  nm' \in [Devices -> View] /\ signals' \in [Devices -> Seq(View)]
  <1>1. views[Len(views)] \in View
    OBVIOUS
  <1>2. signals[d] \o views \in Seq(View)
    BY Concat
  <1> QED
    BY <1>1, <1>2 DEF Announce

\* A snapshot and its fields.
LEMMA SnapshotType ==
  ASSUME NEW n \in Keys, NEW st \in {"disconnected", "preparing", "activated"}, NEW a \in Nat
  PROVE  /\ Snapshot(n, st, a) \in View /\ Snapshot(n, st, a) # Absent
         /\ Snapshot(n, st, a).name = n /\ Snapshot(n, st, a).state = st
         /\ Snapshot(n, st, a).active = a
  BY DEF Snapshot, View, Device, Absent

\* The name of every snapshot is a key.
LEMMA ViewFields ==
  ASSUME NEW v \in View
  PROVE  v.name \in Keys /\ v.active \in Nat /\ (v # Absent => v \in Device)
  BY DEF View, Device, Absent, Keys, None

LEMMA DisconnectedType ==
  ASSUME nm \in [Devices -> View], NEW d \in Devices, nm[d] # Absent
  PROVE  /\ Disconnected(d) \in View /\ Disconnected(d).active = None
         /\ Disconnected(d).name = nm[d].name /\ Disconnected(d).state = "disconnected"
  BY SnapshotType, ViewFields DEF Disconnected, None

LEMMA BringDownType ==
  ASSUME nm \in [Devices -> View], signals \in [Devices -> Seq(View)],
         NEW d \in Devices, BringDown(d)
  PROVE  nm' \in [Devices -> View] /\ signals' \in [Devices -> Seq(View)]
  <1>1. CASE nm[d].state \in {"preparing", "activated"}
    <2>1. nm[d] # Absent
      BY <1>1 DEF Absent
    <2>2. <<Disconnected(d)>> \in Seq(View) /\ <<Disconnected(d)>> # <<>>
      BY <2>1, DisconnectedType
    <2> QED
      BY <1>1, <2>2, AnnounceType DEF BringDown
  <1>2. CASE nm[d].state \notin {"preparing", "activated"}
    BY <1>2 DEF BringDown
  <1> QED
    BY <1>1, <1>2

\* The views of an activation: the last has the path, none is activated.
LEMMA ActivationViews ==
  ASSUME nm \in [Devices -> View], started \in Nat, NEW d \in Devices, nm[d] # Absent
  PROVE  /\ Activation(d) \in Seq(View) /\ Activation(d) # <<>>
         /\ \A i \in 1 .. Len(Activation(d)) :
               /\ Activation(d)[i].state \in {"disconnected", "preparing"}
               /\ Activation(d)[i].active \in {None, started + 1}
               /\ Activation(d)[i].name = nm[d].name
         /\ Activation(d)[Len(Activation(d))]
              = Snapshot(nm[d].name, "preparing", started + 1)
  <1> DEFINE p == Snapshot(nm[d].name, "preparing", None)
             q == Snapshot(nm[d].name, "preparing", started + 1)
             f == Disconnected(d)
  <1>2. /\ p \in View /\ p.state = "preparing" /\ p.active = None /\ p.name = nm[d].name
        /\ q \in View /\ q.state = "preparing" /\ q.active = started + 1 /\ q.name = nm[d].name
    BY SnapshotType, ViewFields DEF None
  <1>3. f \in View /\ f.active = None /\ f.name = nm[d].name /\ f.state = "disconnected"
    BY DisconnectedType
  <1> HIDE DEF p, q, f
  <1>4. CASE nm[d].state = "disconnected"
    <2>1. Activation(d) = <<p, q>>
      BY <1>2, <1>4 DEF Activation, p, q
    <2> QED
      BY <1>2, <2>1 DEF q
  <1>5. CASE nm[d].state # "disconnected"
    <2>1. Activation(d) = <<f>> \o <<p, q>>
      BY <1>5 DEF Activation, p, q, f
    <2>2. /\ <<f>> \in Seq(View) /\ Len(<<f>>) = 1 /\ <<f>>[1] = f
          /\ <<p, q>> \in Seq(View) /\ Len(<<p, q>>) = 2
          /\ <<p, q>>[1] = p /\ <<p, q>>[2] = q
      BY <1>2, <1>3
    <2>3. /\ Activation(d) \in Seq(View) /\ Len(Activation(d)) = 3
          /\ Activation(d)[1] = f /\ Activation(d)[2] = p /\ Activation(d)[3] = q
      BY <2>1, <2>2, Concat
    <2>4. Activation(d) # <<>> /\ Activation(d)[Len(Activation(d))] = q
      BY <2>3
    <2>5. ASSUME NEW i \in 1 .. 3
          PROVE  /\ Activation(d)[i].state \in {"disconnected", "preparing"}
                 /\ Activation(d)[i].active \in {None, started + 1}
                 /\ Activation(d)[i].name = nm[d].name
      <3>1. i = 1 \/ i = 2 \/ i = 3
        OBVIOUS
      <3> QED
        BY <1>2, <1>3, <2>3, <3>1
    <2> QED
      BY <2>3, <2>4, <2>5 DEF q
  <1> QED
    BY <1>4, <1>5

\* What doEnableDevice asks for is a queue of calls.
LEMMA RequestType ==
  ASSUME NEW d \in Devices, NEW enabled \in BOOLEAN, NEW aps \in BOOLEAN
  PROVE  Request(d, enabled, aps) \in Seq(Call)
  <1>1. /\ [op |-> "activate", id |-> None] \in Call
        /\ [op |-> "disconnect", id |-> None] \in Call
        /\ [op |-> "radioOff", id |-> None] \in Call
        /\ [op |-> "radioOn", id |-> None] \in Call
    BY DEF Call, None
  <1>2. /\ <<[op |-> "activate", id |-> None]>> \in Seq(Call)
        /\ <<[op |-> "disconnect", id |-> None]>> \in Seq(Call)
        /\ <<[op |-> "radioOff", id |-> None]>> \in Seq(Call)
        /\ <<[op |-> "radioOn", id |-> None]>> \in Seq(Call)
        /\ <<>> \in Seq(Call)
    BY <1>1
  <1>3. /\ <<[op |-> "radioOff", id |-> None]>> \o <<>> \in Seq(Call)
        /\ <<[op |-> "radioOff", id |-> None]>> \o <<[op |-> "radioOn", id |-> None]>> \in Seq(Call)
    BY <1>2, Concat
  <1> QED
    BY <1>2, <1>3 DEF Request

\* saveConfig writes what is in memory, or nothing, and then knows what is missing.
LEMMA SaveConfigType ==
  ASSUME file \subseteq Keys, disabled' \subseteq Keys, SaveConfig
  PROVE  /\ file' \subseteq Keys /\ unsaved' \subseteq Keys
         /\ \A n \in Keys : n \in unsaved' <=> ~(n \in file' <=> n \in disabled')
  BY DEF SaveConfig

\* doEnableDevice keeps the types.
LEMMA DoEnableType ==
  ASSUME TypeOK, DeviceEnableAssumption,
         NEW snap \in [Devices -> View], NEW D \in SUBSET Devices,
         NEW enabled \in [Devices -> BOOLEAN], NEW aps \in BOOLEAN,
         NEW first \in [Devices -> Seq(Call)],
         DoEnable(snap, D, enabled, aps, first)
  PROVE  /\ disabled' \subseteq Keys /\ file' \subseteq Keys /\ unsaved' \subseteq Keys
         /\ calls' \in [Devices -> Seq(Call)]
         /\ missed' \in 0 .. Misses /\ asking' \in Nat
  <1>1. Record(snap, D, enabled) \subseteq Keys
    BY ViewFields DEF Record, TypeOK
  <1>2. ASSUME NEW d \in Devices
        PROVE  calls[d] \o first[d]
                 \o (IF d \in D /\ nmUp THEN Request(d, enabled[d], aps) ELSE <<>>) \in Seq(Call)
    <2>1. (IF d \in D /\ nmUp THEN Request(d, enabled[d], aps) ELSE <<>>) \in Seq(Call)
      BY RequestType
    <2>2. calls[d] \in Seq(Call) /\ first[d] \in Seq(Call)
      BY DEF TypeOK
    <2>3. calls[d] \o first[d] \in Seq(Call)
      BY <2>2, Concat
    <2> QED
      BY <2>1, <2>3, Concat
  <1>3. calls' \in [Devices -> Seq(Call)]
    BY <1>2 DEF DoEnable
  <1>4. missed' \in 0 .. Misses
    BY DEF DoEnable, Counted, TypeOK, DeviceEnableAssumption
  <1>5. asking' \in Nat
    BY DEF DoEnable, TypeOK
  <1>6. disabled' \subseteq Keys /\ SaveConfig
    BY <1>1 DEF DoEnable
  <1>7. file' \subseteq Keys /\ unsaved' \subseteq Keys
    BY <1>6, SaveConfigType DEF TypeOK
  <1> QED
    BY <1>3, <1>4, <1>5, <1>6, <1>7

\* onDevicesChanged keeps the types.
LEMMA OnDeviceChangedType ==
  ASSUME TypeOK, DeviceEnableAssumption, NEW d \in Devices, NEW v \in View, NEW aps \in BOOLEAN,
         OnDeviceChanged(d, v, aps)
  PROVE  /\ known' \in [Devices -> Known]
         /\ disabled' \subseteq Keys /\ file' \subseteq Keys /\ unsaved' \subseteq Keys
         /\ calls' \in [Devices -> Seq(Call)]
         /\ missed' \in 0 .. Misses /\ asking' \in Nat
         /\ choice' \in [Keys -> BOOLEAN]
  <1> DEFINE k == known[d]
             snap == [cache EXCEPT ![d] = v]
             enabled == [e \in Devices |-> snap[e].name \notin disabled]
  <1>1. k \in Known /\ k.name \in Keys
    BY DEF TypeOK, Known, Unknown, Keys
  <1>2. /\ Unknown \in Known
        /\ v.name # NoName => [name |-> v.name, state |-> v.state] \in Known
    BY ViewFields DEF Known, Device, Absent
  <1>3. CASE v.name = NoName /\ (v = Absent \/ k = Unknown) /\ known' = [known EXCEPT ![d] = Unknown]
             /\ UNCHANGED <<disabled, file, unsaved, missed, asking, calls, choice>>
    BY <1>2, <1>3 DEF TypeOK
  <1>4. CASE /\ v # Absent /\ v.name = NoName /\ k # Unknown
             /\ known' = [known EXCEPT ![d] = Unknown]
             /\ disabled' = disabled \ {k.name}
             /\ SaveConfig
             /\ choice' = [choice EXCEPT ![k.name] = TRUE]
             /\ UNCHANGED <<missed, asking, calls>>
    <2>1. disabled' \subseteq Keys
      BY <1>4 DEF TypeOK
    <2>2. file' \subseteq Keys /\ unsaved' \subseteq Keys
      BY <1>4, <2>1, SaveConfigType DEF TypeOK
    <2> QED
      BY <1>1, <1>2, <1>4, <2>1, <2>2 DEF TypeOK
  <1>5. CASE /\ v.name # NoName /\ k.name # v.name
             /\ known' = [known EXCEPT ![d] = [name |-> v.name, state |-> v.state]]
             /\ DoEnable(snap, {d}, enabled, aps, NoCalls)
             /\ UNCHANGED choice
    <2>1. /\ snap \in [Devices -> View] /\ enabled \in [Devices -> BOOLEAN]
          /\ NoCalls \in [Devices -> Seq(Call)] /\ {d} \in SUBSET Devices
      BY DEF TypeOK, NoCalls
    <2>2. /\ disabled' \subseteq Keys /\ file' \subseteq Keys /\ unsaved' \subseteq Keys
          /\ calls' \in [Devices -> Seq(Call)]
          /\ missed' \in 0 .. Misses /\ asking' \in Nat
      <3> HIDE DEF snap, enabled
      <3> QED
        BY <1>5, <2>1, DoEnableType
    <2> QED
      BY <1>2, <1>5, <2>2 DEF TypeOK
  <1>6. CASE /\ v.name # NoName /\ k.name = v.name
             /\ known' = [known EXCEPT ![d] = [name |-> v.name, state |-> v.state]]
             /\ calls' = IF nmUp THEN [calls EXCEPT ![d] = @ \o OnDeviceStateChanged(k.state, v)]
                         ELSE calls
             /\ UNCHANGED <<disabled, missed, asking, choice>>
             /\ SaveConfig \/ UNCHANGED <<file, unsaved>>
    <2>1. OnDeviceStateChanged(k.state, v) \in Seq(Call)
      <3> DEFINE c == [op |-> "deactivate", id |-> v.active]
      <3>1. c \in Call
        BY ViewFields DEF Call
      <3>2. <<c>> \in Seq(Call) /\ <<>> \in Seq(Call)
        BY <3>1
      <3> QED
        BY <3>2 DEF OnDeviceStateChanged
    <2>2. calls[d] \o OnDeviceStateChanged(k.state, v) \in Seq(Call)
      BY <2>1, Concat DEF TypeOK
    <2>3. disabled' \subseteq Keys
      BY <1>6 DEF TypeOK
    <2>4. file' \subseteq Keys /\ unsaved' \subseteq Keys
      BY <1>6, <2>3, SaveConfigType DEF TypeOK
    <2> QED
      BY <1>2, <1>6, <2>2, <2>3, <2>4 DEF TypeOK
  <1> QED
    BY <1>3, <1>4, <1>5, <1>6 DEF OnDeviceChanged

\* The initial states have the types.
LEMMA InitType ==
  ASSUME DeviceEnableAssumption, Init
  PROVE  TypeOK
  <1>2. nm \in [Devices -> View]
    <2>1. \A n \in Names : Snapshot(n, "disconnected", None) \in View
      BY SnapshotType DEF Keys, None
    <2>2. {Snapshot(n, "disconnected", None) : n \in Names} \subseteq View
      BY <2>1
    <2>3. nm \in [Devices -> {Snapshot(n, "disconnected", None) : n \in Names}]
      BY DEF Init
    <2> QED
      BY <2>2, <2>3
  <1>3. /\ cache \in [Devices -> View] /\ known \in [Devices -> Known]
        /\ choice \in [Keys -> BOOLEAN]
    BY DEF Init, View, Known
  <1>4. calls \in [Devices -> Seq(Call)] /\ signals \in [Devices -> Seq(View)]
    BY DEF Init
  <1>5. missed \in 0 .. Misses /\ inputs \in 0 .. MaxInputs /\ asking \in Nat /\ started \in Nat
    BY DEF Init, DeviceEnableAssumption
  <1> QED
    BY <1>2, <1>3, <1>4, <1>5 DEF Init, TypeOK

\* What NetworkManager does keeps the types.
LEMMA ServeType ==
  ASSUME TypeOK, NEW d \in Devices, Serve(d)
  PROVE  TypeOK'
  <1> DEFINE c == Head(calls[d])
  <1>1. calls' \in [Devices -> Seq(Call)]
    <2>1. Tail(calls[d]) \in Seq(Call)
      BY HeadTail DEF TypeOK, Serve
    <2> QED
      BY <2>1 DEF TypeOK, Serve
  <1>2. /\ nm' \in [Devices -> View] /\ signals' \in [Devices -> Seq(View)]
        /\ started' \in Nat /\ radio' \in BOOLEAN
    <2>1. nm \in [Devices -> View] /\ signals \in [Devices -> Seq(View)]
          /\ started \in Nat /\ radio \in BOOLEAN
      BY DEF TypeOK
    <2>2. CASE c.op = "activate" /\ CanActivate(d) /\ Announce(d, Activation(d))
               /\ started' = started + 1 /\ UNCHANGED radio
      <3>1. nm[d] # Absent
        BY <2>2 DEF CanActivate
      <3> QED
        BY <2>1, <2>2, <3>1, ActivationViews, AnnounceType
    <2>3. CASE UNCHANGED <<nm, signals, started, radio>>
      BY <2>1, <2>3
    <2>4. CASE BringDown(d) /\ UNCHANGED <<started, radio>>
      BY <2>1, <2>4, BringDownType
    <2>5. CASE SetRadio(d, c.op = "radioOn") /\ UNCHANGED started
      BY <2>1, <2>5, BringDownType DEF SetRadio
    <2> QED
      BY <2>2, <2>3, <2>4, <2>5 DEF Serve
  <1> QED
    BY <1>1, <1>2 DEF TypeOK, Serve, serviceVars

LEMMA FinishType ==
  ASSUME TypeOK, NEW d \in Devices, Finish(d)
  PROVE  TypeOK'
  <1>1. nm[d] # Absent /\ nm \in [Devices -> View] /\ signals \in [Devices -> Seq(View)]
    BY DEF Finish, Absent, TypeOK
  <1>2. /\ <<Snapshot(nm[d].name, "activated", nm[d].active)>> \in Seq(View)
        /\ <<Snapshot(nm[d].name, "activated", nm[d].active)>> # <<>>
        /\ <<Disconnected(d)>> \in Seq(View) /\ <<Disconnected(d)>> # <<>>
    BY <1>1, SnapshotType, ViewFields, DisconnectedType
  <1>3. nm' \in [Devices -> View] /\ signals' \in [Devices -> Seq(View)]
    BY <1>1, <1>2, AnnounceType DEF Finish
  <1> QED
    BY <1>3 DEF TypeOK, Finish, serviceVars

\* What happens by itself keeps the types.
LEMMA EventType ==
  ASSUME TypeOK, DeviceEnableAssumption, NEW d \in Devices,
         ActivateElsewhere(d) \/ SwitchRadioElsewhere(d) \/ Unplug(d) \/ Plug(d) \/ Rename(d)
  PROVE  TypeOK'
  <1>1. nm \in [Devices -> View] /\ signals \in [Devices -> Seq(View)]
        /\ started \in Nat /\ radio \in BOOLEAN /\ inputs \in 0 .. MaxInputs
    BY DEF TypeOK
  <1>2. inputs < MaxInputs => inputs + 1 \in 0 .. MaxInputs
    BY <1>1 DEF DeviceEnableAssumption
  <1>3. CASE ActivateElsewhere(d)
    <2>1. nm[d] # Absent
      BY <1>3 DEF ActivateElsewhere, CanActivate
    <2>2. nm' \in [Devices -> View] /\ signals' \in [Devices -> Seq(View)] /\ started' \in Nat
      BY <1>1, <1>3, <2>1, ActivationViews, AnnounceType DEF ActivateElsewhere
    <2> QED
      BY <1>2, <1>3, <2>2 DEF TypeOK, ActivateElsewhere, serviceVars
  <1>4. CASE SwitchRadioElsewhere(d)
    <2>1. nm' \in [Devices -> View] /\ signals' \in [Devices -> Seq(View)] /\ radio' \in BOOLEAN
      BY <1>1, <1>4, BringDownType DEF SwitchRadioElsewhere, SetRadio
    <2> QED
      BY <1>2, <1>4, <2>1 DEF TypeOK, SwitchRadioElsewhere, serviceVars
  <1>5. CASE Unplug(d)
    <2>1. <<Absent>> \in Seq(View) /\ <<Absent>> # <<>>
      BY DEF View
    <2>2. nm' \in [Devices -> View] /\ signals' \in [Devices -> Seq(View)]
      BY <1>1, <1>5, <2>1, AnnounceType DEF Unplug
    <2> QED
      BY <1>2, <1>5, <2>2 DEF TypeOK, Unplug, serviceVars
  <1>6. CASE Plug(d)
    <2>1. PICK n \in FreeNames : Announce(d, <<Snapshot(n, "disconnected", None)>>)
      BY <1>6 DEF Plug
    <2>2. /\ <<Snapshot(n, "disconnected", None)>> \in Seq(View)
          /\ <<Snapshot(n, "disconnected", None)>> # <<>>
      BY SnapshotType DEF FreeNames, Keys, None
    <2>3. nm' \in [Devices -> View] /\ signals' \in [Devices -> Seq(View)]
      BY <1>1, <2>1, <2>2, AnnounceType
    <2> QED
      BY <1>6, <2>3 DEF TypeOK, Plug, serviceVars
  <1>7. CASE Rename(d)
    <2>1. PICK n \in FreeNames \cup {NoName} :
             Announce(d, <<Snapshot(n, nm[d].state, nm[d].active)>>)
      BY <1>7 DEF Rename
    <2>2. nm[d].state \in {"disconnected", "preparing", "activated"} /\ nm[d].active \in Nat
      BY <1>1, <1>7 DEF Rename, View, Device
    <2>3. /\ <<Snapshot(n, nm[d].state, nm[d].active)>> \in Seq(View)
          /\ <<Snapshot(n, nm[d].state, nm[d].active)>> # <<>>
      BY <2>2, SnapshotType DEF FreeNames, Keys
    <2>4. nm' \in [Devices -> View] /\ signals' \in [Devices -> Seq(View)]
      BY <1>1, <2>1, <2>3, AnnounceType
    <2> QED
      BY <1>2, <1>7, <2>4 DEF TypeOK, Rename, serviceVars
  <1> QED
    BY <1>3, <1>4, <1>5, <1>6, <1>7

\* What the user and the service do keeps the types.
LEMMA ServiceType ==
  ASSUME TypeOK, DeviceEnableAssumption, NEW d \in Devices, NEW on \in BOOLEAN,
         NEW aps \in BOOLEAN,
         EnableDevice(d, on, aps) \/ HandleSignal(d, aps) \/ AirplaneAnswers(d)
  PROVE  TypeOK'
  <1>1. /\ cache \in [Devices -> View] /\ signals \in [Devices -> Seq(View)]
        /\ calls \in [Devices -> Seq(Call)]
        /\ inputs \in 0 .. MaxInputs /\ NoCalls \in [Devices -> Seq(Call)]
    BY DEF TypeOK, NoCalls
  <1>2. inputs < MaxInputs => inputs + 1 \in 0 .. MaxInputs
    BY <1>1 DEF DeviceEnableAssumption
  <1>3. CASE EnableDevice(d, on, aps)
    <2> DEFINE enabled == [e \in Devices |-> on]
    <2>1. enabled \in [Devices -> BOOLEAN] /\ {d} \in SUBSET Devices
      OBVIOUS
    <2>2. DoEnable(cache, {d}, enabled, aps, NoCalls)
      BY <1>3 DEF EnableDevice
    <2> HIDE DEF enabled
    <2>3. /\ disabled' \subseteq Keys /\ file' \subseteq Keys /\ unsaved' \subseteq Keys
          /\ calls' \in [Devices -> Seq(Call)]
          /\ missed' \in 0 .. Misses /\ asking' \in Nat
      BY <1>1, <2>1, <2>2, DoEnableType
    <2> QED
      BY <1>2, <1>3, <2>3 DEF TypeOK, EnableDevice
  <1>4. CASE HandleSignal(d, aps)
    <2>1. Head(signals[d]) \in View /\ Tail(signals[d]) \in Seq(View)
      BY <1>1, <1>4, HeadTail DEF HandleSignal
    <2>2. /\ known' \in [Devices -> Known]
          /\ disabled' \subseteq Keys /\ file' \subseteq Keys /\ unsaved' \subseteq Keys
          /\ calls' \in [Devices -> Seq(Call)]
          /\ missed' \in 0 .. Misses /\ asking' \in Nat
          /\ choice' \in [Keys -> BOOLEAN]
      <3>1. CASE OnDeviceChanged(d, Head(signals[d]), aps)
        BY <2>1, <3>1, OnDeviceChangedType
      <3>2. CASE UNCHANGED <<known, disabled, file, unsaved, missed, asking, calls, choice>>
        BY <3>2 DEF TypeOK
      <3> QED
        BY <1>4, <3>1, <3>2 DEF HandleSignal
    <2> QED
      BY <1>4, <2>1, <2>2 DEF TypeOK, HandleSignal
  <1>5. CASE AirplaneAnswers(d)
    <2>1. [op |-> "radioOn", id |-> None] \in Call
      BY DEF Call, None
    <2>2. Append(calls[d], [op |-> "radioOn", id |-> None]) \in Seq(Call)
      BY <1>1, <2>1, AppendOne
    <2>3. calls' \in [Devices -> Seq(Call)]
      BY <1>1, <1>5, <2>2 DEF AirplaneAnswers
    <2>4. asking' \in Nat
      BY <1>5 DEF TypeOK, AirplaneAnswers
    <2> QED
      BY <1>5, <2>3, <2>4 DEF TypeOK, AirplaneAnswers
  <1> QED
    BY <1>3, <1>4, <1>5

\* So do the two handlers that concern several devices.
LEMMA ServiceAllType ==
  ASSUME TypeOK, DeviceEnableAssumption, NEW aps \in BOOLEAN,
         ToggleWirelessEnabled(aps) \/ InitService(aps)
  PROVE  TypeOK'
  <1>1. /\ cache \in [Devices -> View] /\ signals \in [Devices -> Seq(View)]
        /\ calls \in [Devices -> Seq(Call)]
        /\ inputs \in 0 .. MaxInputs /\ NoCalls \in [Devices -> Seq(Call)]
    BY DEF TypeOK, NoCalls
  <1>2. inputs < MaxInputs => inputs + 1 \in 0 .. MaxInputs
    BY <1>1 DEF DeviceEnableAssumption
  <1>3. CASE ToggleWirelessEnabled(aps)
    <2> DEFINE turnOn == ~radioSeen
               D == {w \in Wifi : cache[w] # Absent}
               enabled == [e \in Devices |-> turnOn]
               c == [op |-> IF turnOn THEN "radioOn" ELSE "radioOff", id |-> None]
               first == [w \in Devices |-> IF w \in Wifi THEN <<c>> ELSE <<>>]
    <2>1. c \in Call
      BY DEF Call, None
    <2>2. /\ enabled \in [Devices -> BOOLEAN] /\ D \in SUBSET Devices /\ turnOn \in BOOLEAN
          /\ first \in [Devices -> Seq(Call)]
      BY <2>1 DEF TypeOK, DeviceEnableAssumption
    <2>3. DoEnable(cache, D, enabled, aps, first)
      BY <1>3 DEF ToggleWirelessEnabled
    <2> HIDE DEF enabled, D, first
    <2>4. /\ disabled' \subseteq Keys /\ file' \subseteq Keys /\ unsaved' \subseteq Keys
          /\ calls' \in [Devices -> Seq(Call)]
          /\ missed' \in 0 .. Misses /\ asking' \in Nat
      BY <1>1, <2>2, <2>3, DoEnableType
    <2>5. choice' \in [Keys -> BOOLEAN]
      BY <1>3, <2>2 DEF TypeOK, ToggleWirelessEnabled, D
    <2> QED
      BY <1>2, <1>3, <2>4, <2>5 DEF TypeOK, ToggleWirelessEnabled
  <1>4. CASE InitService(aps)
    <2> DEFINE D == {e \in Devices : cache[e].name # NoName}
               enabled == [e \in Devices |-> cache[e].name \notin disabled]
    <2>1. enabled \in [Devices -> BOOLEAN] /\ D \in SUBSET Devices
      OBVIOUS
    <2>2. DoEnable(cache, D, enabled, aps, NoCalls)
      BY <1>4 DEF InitService
    <2>3. known' \in [Devices -> Known]
      BY <1>1, <1>4, ViewFields DEF InitService, Known, Device, Absent
    <2> HIDE DEF enabled, D
    <2>4. /\ disabled' \subseteq Keys /\ file' \subseteq Keys /\ unsaved' \subseteq Keys
          /\ calls' \in [Devices -> Seq(Call)]
          /\ missed' \in 0 .. Misses /\ asking' \in Nat
      BY <1>1, <2>1, <2>2, DoEnableType
    <2> QED
      BY <1>4, <2>3, <2>4 DEF TypeOK, InitService
  <1> QED
    BY <1>3, <1>4

\* Stops and starts keep the types.
LEMMA RestartType ==
  ASSUME TypeOK, DeviceEnableAssumption, NmStop \/ NmStart \/ SeeRadio \/ Stop \/ Start
  PROVE  TypeOK'
  <1>1. inputs < MaxInputs => inputs + 1 \in 0 .. MaxInputs
    BY DEF DeviceEnableAssumption, TypeOK
  <1>2. Absent \in View /\ Unknown \in Known /\ 0 \in 0 .. Misses
    BY DEF View, Known, DeviceEnableAssumption
  <1>3. CASE NmStop
    <2>1. \A d \in Devices : Append(signals[d], Absent) \in Seq(View)
      BY <1>2, AppendOne DEF TypeOK
    <2>2. signals' \in [Devices -> Seq(View)]
      BY <1>3, <2>1 DEF TypeOK, NmStop
    <2>3. nm' \in [Devices -> View] /\ calls' \in [Devices -> Seq(Call)]
      BY <1>2, <1>3 DEF NmStop
    <2> QED
      BY <1>1, <1>3, <2>2, <2>3 DEF TypeOK, NmStop, serviceVars
  <1>4. CASE NmStart
    BY <1>4 DEF TypeOK, NmStart
  <1>5. CASE SeeRadio
    BY <1>5 DEF TypeOK, SeeRadio, nmVars
  <1>6. CASE Stop
    <2>1. /\ cache' \in [Devices -> View] /\ known' \in [Devices -> Known]
          /\ signals' \in [Devices -> Seq(View)] /\ missed' \in 0 .. Misses
          /\ unsaved' \subseteq Keys
      BY <1>2, <1>6 DEF Stop
    <2>2. choice' \in [Keys -> BOOLEAN]
      BY <1>6 DEF TypeOK, Stop
    <2> QED
      BY <1>1, <1>6, <2>1, <2>2 DEF TypeOK, Stop
  <1>7. CASE Start
    BY <1>7 DEF TypeOK, Start, nmVars
  <1> QED
    BY <1>3, <1>4, <1>5, <1>6, <1>7

LEMMA StepType ==
  ASSUME TypeOK, [Next]_vars
  PROVE  TypeOK'
  <1>1. AccessPoints \subseteq BOOLEAN
    BY DEF AccessPoints
  <1>2. ASSUME NEW d \in Devices, Serve(d) \/ Finish(d) PROVE TypeOK'
    BY <1>2, ServeType, FinishType
  <1>3. ASSUME NEW d \in Devices,
               \/ ActivateElsewhere(d) \/ SwitchRadioElsewhere(d)
               \/ Unplug(d) \/ Plug(d) \/ Rename(d)
        PROVE  TypeOK'
    BY <1>3, EventType, DeviceEnableAssumption
  <1>4. ASSUME NEW d \in Devices, NEW on \in BOOLEAN, NEW aps \in AccessPoints,
               EnableDevice(d, on, aps) \/ HandleSignal(d, aps) \/ AirplaneAnswers(d)
        PROVE  TypeOK'
    BY <1>1, <1>4, ServiceType, DeviceEnableAssumption
  <1>5. ASSUME NEW aps \in AccessPoints, ToggleWirelessEnabled(aps) \/ InitService(aps)
        PROVE  TypeOK'
    BY <1>1, <1>5, ServiceAllType, DeviceEnableAssumption
  <1>6. ASSUME NmStop \/ NmStart \/ SeeRadio \/ Stop \/ Start PROVE TypeOK'
    BY <1>6, RestartType, DeviceEnableAssumption
  <1>7. CASE UNCHANGED vars
    BY <1>7 DEF TypeOK, vars, nmVars, serviceVars
  <1> QED
    BY <1>2, <1>3, <1>4, <1>5, <1>6, <1>7 DEF Next, AccessPoints

\* Every variable of the service, NetworkManager and their queues keeps its
\* type; the count of empty lists never passes its limit (networkthread.cpp,
\* nmaccess.cpp).
THEOREM TypeCorrect == Spec => []TypeOK
  <1>1. Init => TypeOK
    BY InitType, DeviceEnableAssumption
  <1> QED
    BY <1>1, StepType, PTL DEF Spec

-----------------------------------------------------------------------------
(* What keeps a device off *)

\* The memory holds what the user has switched off, and the configuration what could be
\* saved of it, which is all that is left while the service does not run.
ChoiceIsKept ==
    LET off == {n \in Keys : ~choice[n]} IN
    IF running = "down" THEN file = off /\ unsaved = {}
    ELSE disabled = off /\ \A n \in Keys : n \in unsaved <=> ~(n \in file <=> n \in disabled)

\* No name belongs to two devices, of NetworkManager or of the cache.
Apart(views) ==
    \A d, e \in Devices : views[d].name \in Names /\ views[d].name = views[e].name => d = e

\* The cache is NetworkManager's state once the signals on their way have come.
CacheCatchesUp ==
    running # "down" =>
       \A d \in Devices : IF signals[d] = <<>> THEN cache[d] = nm[d]
                          ELSE signals[d][Len(signals[d])] = nm[d]

\* A service that does not run hears nothing.
WhileDown == running = "down" => ~registered /\ \A d \in Devices : signals[d] = <<>>

\* What the thread knows of a device is what the cache has, of those with a name.
KnownOf(v) == IF v.name = NoName THEN Unknown ELSE [name |-> v.name, state |-> v.state]
KnowsCache == running = "up" => \A d \in Devices : known[d] = KnownOf(cache[d])

\* What is up has a path.
HasPath == \A d \in Devices : nm[d].state \in {"preparing", "activated"} => nm[d].active # None

\* A call that takes down the activation id, whatever comes before it.
Stops(c, id) == c.op \in {"disconnect", "radioOff"} \/ (c.op = "deactivate" /\ c.id = id)
Stopped(q, id) == \E i \in 1 .. Len(q) : Stops(q[i], id)

\* A signal upon which such a call is made, if the name n is switched off: a device
\* gets this name, or the activation id succeeds.
Tells(old, v, n, id) ==
    /\ v.name = n
    /\ \/ old.name # n
       \/ old.state # "activated" /\ v.state = "activated" /\ v.active = id
Told(seen, q, n, id) ==
    \E i \in 1 .. Len(q) : Tells(IF i = 1 THEN seen ELSE q[i - 1], q[i], n, id)

\* A device that is up although it is switched off is taken down by a call on its way,
\* or by the answer to a signal on its way.
GoesDown(d) ==
    nm[d].state = "activated" /\ nm[d].name # NoName /\ nm[d].name \in disabled
    => \/ Stopped(calls[d], nm[d].active)
       \/ Told(cache[d], signals[d], nm[d].name, nm[d].active)
AllGoDown == nmUp /\ running = "up" /\ ~registered => \A d \in Devices : GoesDown(d)

OffInv ==
    /\ TypeOK /\ ChoiceIsKept /\ Apart(nm) /\ Apart(cache) /\ CacheCatchesUp /\ WhileDown
    /\ KnowsCache /\ HasPath /\ AllGoDown

-----------------------------------------------------------------------------
(* Calls and signals on their way *)

\* A call on its way stays when more are made, and a call that is made is on its way.
LEMMA StoppedConcat ==
  ASSUME NEW q \in Seq(Call), NEW r \in Seq(Call), NEW id,
         Stopped(q, id) \/ Stopped(r, id)
  PROVE  Stopped(q \o r, id)
  <1>1. /\ Len(q) \in Nat /\ Len(r) \in Nat /\ Len(q \o r) = Len(q) + Len(r)
        /\ \A i \in 1 .. Len(q) : (q \o r)[i] = q[i]
        /\ \A i \in 1 .. Len(r) : (q \o r)[Len(q) + i] = r[i]
    BY Concat
  <1>2. CASE Stopped(q, id)
    <2>1. PICK i \in 1 .. Len(q) : Stops(q[i], id)
      BY <1>2 DEF Stopped
    <2>2. i \in 1 .. Len(q \o r) /\ (q \o r)[i] = q[i]
      BY <1>1
    <2> QED
      BY <2>1, <2>2 DEF Stopped
  <1>3. CASE Stopped(r, id)
    <2>1. PICK i \in 1 .. Len(r) : Stops(r[i], id)
      BY <1>3 DEF Stopped
    <2>2. Len(q) + i \in 1 .. Len(q \o r) /\ (q \o r)[Len(q) + i] = r[i]
      BY <1>1
    <2> QED
      BY <2>1, <2>2 DEF Stopped
  <1> QED
    BY <1>2, <1>3

\* It stays, too, when another call is served.
LEMMA StoppedTail ==
  ASSUME NEW q \in Seq(Call), q # <<>>, NEW id, Stopped(q, id), ~Stops(Head(q), id)
  PROVE  Stopped(Tail(q), id)
  <1>1. PICK i \in 1 .. Len(q) : Stops(q[i], id)
    BY DEF Stopped
  <1>2. /\ Len(q) \in Nat /\ Len(Tail(q)) = Len(q) - 1 /\ Head(q) = q[1]
        /\ \A j \in 1 .. Len(q) - 1 : Tail(q)[j] = q[j + 1]
    BY HeadTail
  <1>3. i # 1
    BY <1>1, <1>2
  <1>4. i - 1 \in 1 .. Len(Tail(q)) /\ Tail(q)[i - 1] = q[i]
    BY <1>2, <1>3
  <1> QED
    BY <1>1, <1>4 DEF Stopped

\* A call of doEnableDevice for a device that is switched off takes it down.
LEMMA RequestStops ==
  ASSUME NEW d \in Devices, NEW aps \in BOOLEAN, NEW id
  PROVE  Stopped(Request(d, FALSE, aps), id)
  <1> DEFINE off == <<[op |-> "radioOff", id |-> None]>>
             on == <<[op |-> "radioOn", id |-> None]>>
             down == <<[op |-> "disconnect", id |-> None]>>
  <1>1. off \in Seq(Call) /\ on \in Seq(Call) /\ down \in Seq(Call) /\ <<>> \in Seq(Call)
    <2>1. /\ [op |-> "radioOff", id |-> None] \in Call
          /\ [op |-> "radioOn", id |-> None] \in Call
          /\ [op |-> "disconnect", id |-> None] \in Call
      BY DEF Call, None
    <2> QED
      BY <2>1
  <1>2. Stopped(off, id)
    <2>1. Len(off) = 1 /\ off[1].op = "radioOff"
      OBVIOUS
    <2>2. 1 \in 1 .. Len(off) /\ Stops(off[1], id)
      BY <2>1 DEF Stops
    <2> QED
      BY <2>2 DEF Stopped
  <1>3. Stopped(down, id)
    <2>1. Len(down) = 1 /\ down[1].op = "disconnect"
      OBVIOUS
    <2>2. 1 \in 1 .. Len(down) /\ Stops(down[1], id)
      BY <2>1 DEF Stops
    <2> QED
      BY <2>2 DEF Stopped
  <1>4. Request(d, FALSE, aps) \in {off \o on, off \o <<>>, down}
    BY DEF Request
  <1> HIDE DEF off, on, down
  <1> QED
    BY <1>1, <1>2, <1>3, <1>4, StoppedConcat

\* A signal on its way stays when others follow.
LEMMA ToldConcat ==
  ASSUME NEW q \in Seq(View), NEW r \in Seq(View), NEW seen, NEW n, NEW id,
         Told(seen, q, n, id)
  PROVE  Told(seen, q \o r, n, id)
  <1>1. /\ Len(q) \in Nat /\ Len(r) \in Nat /\ Len(q \o r) = Len(q) + Len(r)
        /\ \A i \in 1 .. Len(q) : (q \o r)[i] = q[i]
    BY Concat
  <1>2. PICK i \in 1 .. Len(q) : Tells(IF i = 1 THEN seen ELSE q[i - 1], q[i], n, id)
    BY DEF Told
  <1>3. i \in 1 .. Len(q \o r) /\ (q \o r)[i] = q[i] /\ (i # 1 => (q \o r)[i - 1] = q[i - 1])
    BY <1>1
  <1>4. Tells(IF i = 1 THEN seen ELSE (q \o r)[i - 1], (q \o r)[i], n, id)
    BY <1>2, <1>3
  <1> QED
    BY <1>3, <1>4 DEF Told

\* It is the first signal, or on its way still when that is read.
LEMMA ToldTail ==
  ASSUME NEW q \in Seq(View), q # <<>>, NEW seen, NEW n, NEW id, Told(seen, q, n, id)
  PROVE  Tells(seen, Head(q), n, id) \/ Told(Head(q), Tail(q), n, id)
  <1>1. /\ Len(q) \in Nat /\ Len(Tail(q)) = Len(q) - 1 /\ Head(q) = q[1]
        /\ \A j \in 1 .. Len(q) - 1 : Tail(q)[j] = q[j + 1]
    BY HeadTail
  <1>2. PICK i \in 1 .. Len(q) : Tells(IF i = 1 THEN seen ELSE q[i - 1], q[i], n, id)
    BY DEF Told
  <1>3. CASE i = 1
    BY <1>1, <1>2, <1>3
  <1>4. CASE i # 1
    <2>1. i - 1 \in 1 .. Len(Tail(q)) /\ Tail(q)[i - 1] = q[i]
      BY <1>1, <1>4
    <2>2. q[i - 1] = IF i - 1 = 1 THEN Head(q) ELSE Tail(q)[(i - 1) - 1]
      BY <1>1, <1>4
    <2>3. Tells(q[i - 1], q[i], n, id)
      BY <1>2, <1>4
    <2>4. Tells(IF i - 1 = 1 THEN Head(q) ELSE Tail(q)[(i - 1) - 1], Tail(q)[i - 1], n, id)
      BY <2>1, <2>2, <2>3
    <2> QED
      BY <2>1, <2>4 DEF Told
  <1> QED
    BY <1>3, <1>4

\* The last of the signals counts after the one before it.
LEMMA ToldLast ==
  ASSUME NEW q \in Seq(View), NEW v \in View, NEW seen, NEW n, NEW id,
         Tells(IF q = <<>> THEN seen ELSE q[Len(q)], v, n, id)
  PROVE  Told(seen, q \o <<v>>, n, id)
  <1> DEFINE r == q \o <<v>>
             i == Len(q) + 1
  <1>1. /\ Len(q) \in Nat /\ Len(r) = i /\ r[i] = v
        /\ \A j \in 1 .. Len(q) : r[j] = q[j]
    <2>1. <<v>> \in Seq(View) /\ Len(<<v>>) = 1 /\ <<v>>[1] = v
      OBVIOUS
    <2> QED
      BY <2>1, Concat
  <1>2. CASE q = <<>>
    <2>1. i = 1
      BY <1>2
    <2>2. Tells(seen, r[1], n, id) /\ 1 \in 1 .. Len(r)
      BY <1>1, <1>2, <2>1
    <2> QED
      BY <2>2 DEF Told
  <1>3. CASE q # <<>>
    <2>1. Len(q) >= 1 /\ i # 1 /\ i \in 1 .. Len(r) /\ r[i - 1] = q[Len(q)]
      BY <1>1, <1>3
    <2>2. Tells(r[i - 1], r[i], n, id)
      BY <1>1, <1>3, <2>1
    <2> HIDE DEF r, i
    <2>3. Tells(IF i = 1 THEN seen ELSE r[i - 1], r[i], n, id)
      BY <2>1, <2>2
    <2>4. Told(seen, r, n, id)
      BY <2>1, <2>3 DEF Told
    <2> QED
      BY <2>4 DEF r
  <1> QED
    BY <1>2, <1>3

\* Signals that end with another name than the one that was seen tell of it.
LEMMA NameIsTold ==
  ASSUME NEW q \in Seq(View), q # <<>>, NEW seen, NEW id, seen.name # q[Len(q)].name
  PROVE  Told(seen, q, q[Len(q)].name, id)
  <1> DEFINE n == q[Len(q)].name
             Same == {i \in 1 .. Len(q) : q[i].name = n}
             Below == {p \in Nat \X Nat : p[1] < p[2]}
  <1>1. Len(q) \in Nat /\ Len(q) \in Same /\ Same \subseteq Nat
    OBVIOUS
  <1>2. IsWellFoundedOn(Below, Nat)
    <2>1. Below = OpToRel(<, Nat)
      BY DEF OpToRel
    <2> QED
      BY <2>1, NatLessThanWellFounded
  <1> HIDE DEF Below
  <1>3. PICK i \in Same : \A j \in Same : <<j, i>> \notin Below
    BY <1>1, <1>2, WFMin
  <1>4. CASE i = 1
    <2>1. 1 \in 1 .. Len(q) /\ Tells(seen, q[1], n, id)
      BY <1>3, <1>4 DEF Tells
    <2> QED
      BY <2>1 DEF Told
  <1>5. CASE i # 1
    <2>1. i \in 1 .. Len(q) /\ q[i].name = n /\ i - 1 \in 1 .. Len(q)
      BY <1>5
    <2>2. i - 1 \notin Same
      <3>1. <<i - 1, i>> \in Below
        BY <2>1 DEF Below
      <3> QED
        BY <1>3, <3>1
    <2>3. Tells(q[i - 1], q[i], n, id)
      BY <2>1, <2>2 DEF Tells
    <2> HIDE DEF n, Same
    <2>4. Tells(IF i = 1 THEN seen ELSE q[i - 1], q[i], n, id)
      BY <1>5, <2>3
    <2>5. Told(seen, q, n, id)
      BY <2>1, <2>4 DEF Told
    <2> QED
      BY <2>5 DEF n
  <1> QED
    BY <1>4, <1>5

-----------------------------------------------------------------------------
(* What NetworkManager does *)

\* The last of the views of d, which it takes on, is one for which nothing is missing.
Fits(d, v, views) ==
    /\ v.name \in Names => v.name = nm[d].name \/ v.name \in FreeNames
    /\ v.state \in {"preparing", "activated"} => v.active # None
    /\ v.state = "activated" => views = <<v>> /\ Tells(nm[d], v, v.name, v.active)

\* A device whose new state is announced, or nothing is.
Announced(d) ==
    \/ UNCHANGED <<nm, signals>>
    \/ \E views \in Seq(View) :
          views # <<>> /\ Announce(d, views) /\ Fits(d, views[Len(views)], views)

LEMMA AnnouncedKeeps ==
  ASSUME OffInv, TypeOK', NEW d \in Devices, Announced(d),
         UNCHANGED <<nmUp, running, registered, cache, known, disabled, file, unsaved, choice>>,
         \A e \in Devices :
            /\ Stopped(calls[e], nm[e].active)
            /\ e # d \/ (nm'[d] = nm[d] /\ nm[d].state = "activated")
            => Stopped(calls'[e], nm[e].active)
  PROVE  OffInv'
  <1>1. /\ nm \in [Devices -> View] /\ signals \in [Devices -> Seq(View)]
        /\ nm' \in [Devices -> View] /\ signals' \in [Devices -> Seq(View)]
    BY DEF OffInv, TypeOK
  <1>2. CASE UNCHANGED <<nm, signals>>
    <2>1. ASSUME NEW e \in Devices, GoesDown(e)
          PROVE  GoesDown(e)'
      BY <1>2, <2>1 DEF GoesDown
    <2> QED
      BY <1>2, <2>1 DEF OffInv, ChoiceIsKept, Apart, CacheCatchesUp, WhileDown, KnowsCache,
                        HasPath, AllGoDown
  <1>3. ASSUME NEW views \in Seq(View), views # <<>>, Announce(d, views),
               Fits(d, views[Len(views)], views)
        PROVE  OffInv'
    <2> DEFINE v == views[Len(views)]
    <2>1. /\ v \in View /\ nm'[d] = v /\ \A e \in Devices \ {d} : nm'[e] = nm[e]
          /\ \A e \in Devices \ {d} : signals'[e] = signals[e]
      BY <1>1, <1>3 DEF Announce
    <2>2. running # "down" => signals'[d] = signals[d] \o views
      BY <1>1, <1>3 DEF Announce
    <2>3. running # "down" => /\ signals'[d] # <<>> /\ signals'[d][Len(signals'[d])] = v
      <3>1. /\ Len(signals[d]) \in Nat /\ Len(views) \in Nat /\ Len(views) >= 1
            /\ Len(signals[d] \o views) = Len(signals[d]) + Len(views)
            /\ (signals[d] \o views)[Len(signals[d]) + Len(views)] = views[Len(views)]
        BY <1>1, <1>3, Concat
      <3>2. signals[d] \o views # <<>>
        BY <3>1
      <3> QED
        BY <2>2, <3>1, <3>2
    <2>4. Apart(nm)'
      <3>1. ASSUME NEW e \in Devices, NEW f \in Devices, e # f,
                   nm'[e].name \in Names, nm'[e].name = nm'[f].name
            PROVE  FALSE
        <4>1. CASE e = d
          BY <1>3, <2>1, <3>1, <4>1 DEF Fits, FreeNames, OffInv, Apart
        <4>2. CASE f = d
          BY <1>3, <2>1, <3>1, <4>2 DEF Fits, FreeNames, OffInv, Apart
        <4>3. CASE e # d /\ f # d
          BY <2>1, <3>1, <4>3 DEF OffInv, Apart
        <4> QED
          BY <4>1, <4>2, <4>3
      <3> QED
        BY <3>1 DEF Apart
    <2>5. CacheCatchesUp'
      <3>1. ASSUME running # "down", NEW e \in Devices
            PROVE  IF signals'[e] = <<>> THEN cache[e] = nm'[e]
                   ELSE signals'[e][Len(signals'[e])] = nm'[e]
        <4>1. CASE e = d
          BY <2>1, <2>3, <3>1, <4>1
        <4>2. CASE e # d
          BY <2>1, <3>1, <4>2 DEF OffInv, CacheCatchesUp
        <4> QED
          BY <4>1, <4>2
      <3> QED
        BY <3>1 DEF CacheCatchesUp
    <2>6. HasPath'
      BY <1>3, <2>1 DEF HasPath, OffInv, Fits
    <2>7. AllGoDown'
      <3>1. SUFFICES ASSUME nmUp, running = "up", ~registered, NEW e \in Devices
                     PROVE  GoesDown(e)'
        BY DEF AllGoDown
      <3>2. CASE e # d
        BY <2>1, <3>1, <3>2 DEF OffInv, AllGoDown, GoesDown
      <3>3. CASE e = d /\ v.state = "activated"
        <4>1. signals'[d] = signals[d] \o <<v>> /\ Tells(nm[d], v, v.name, v.active)
          BY <1>3, <2>2, <3>1, <3>3 DEF Fits
        <4>2. (IF signals[d] = <<>> THEN cache[d] ELSE signals[d][Len(signals[d])]) = nm[d]
          BY <3>1 DEF OffInv, CacheCatchesUp
        <4>3. Told(cache[d], signals[d] \o <<v>>, v.name, v.active)
          BY <1>1, <2>1, <4>1, <4>2, ToldLast
        <4> QED
          BY <2>1, <3>3, <4>1, <4>3 DEF GoesDown
      <3>4. CASE e = d /\ v.state # "activated"
        BY <2>1, <3>4 DEF GoesDown
      <3> QED
        BY <3>2, <3>3, <3>4
    <2>8. WhileDown'
      BY <1>3 DEF OffInv, WhileDown, Announce
    <2> QED
      BY <2>4, <2>5, <2>6, <2>7, <2>8 DEF OffInv, ChoiceIsKept, Apart, KnowsCache
  <1> QED
    BY <1>2, <1>3 DEF Announced

\* A device is brought down, or an activation begins.
LEMMA BringDownFits ==
  ASSUME OffInv, NEW d \in Devices, BringDown(d)
  PROVE  Announced(d) /\ nm'[d].state # "activated"
  <1>1. nm \in [Devices -> View] /\ signals \in [Devices -> Seq(View)]
    BY DEF OffInv, TypeOK
  <1>2. CASE nm[d].state \in {"preparing", "activated"}
    <2> DEFINE v == Disconnected(d)
    <2>1. nm[d] # Absent
      BY <1>2 DEF Absent
    <2>2. v \in View /\ v.state = "disconnected" /\ v.name = nm[d].name
      BY <1>1, <2>1, DisconnectedType
    <2>3. Announce(d, <<v>>)
      BY <1>2 DEF BringDown
    <2> HIDE DEF v
    <2>4. <<v>> \in Seq(View) /\ <<v>> # <<>> /\ Len(<<v>>) = 1 /\ <<v>>[1] = v
      BY <2>2
    <2>5. Fits(d, v, <<v>>)
      BY <2>2 DEF Fits
    <2>6. nm'[d] = v
      BY <1>1, <2>3, <2>4 DEF Announce
    <2>7. Announced(d)
      BY <2>3, <2>4, <2>5 DEF Announced
    <2> QED
      BY <2>2, <2>6, <2>7
  <1>3. CASE nm[d].state \notin {"preparing", "activated"}
    BY <1>3 DEF BringDown, Announced
  <1> QED
    BY <1>2, <1>3

LEMMA ActivationFits ==
  ASSUME OffInv, NEW d \in Devices, nm[d] # Absent, Announce(d, Activation(d))
  PROVE  Announced(d) /\ nm'[d].state # "activated"
  <1> DEFINE views == Activation(d)
  <1>1. nm \in [Devices -> View] /\ signals \in [Devices -> Seq(View)] /\ started \in Nat
    BY DEF OffInv, TypeOK
  <1>2. /\ views \in Seq(View) /\ views # <<>>
        /\ views[Len(views)] = Snapshot(nm[d].name, "preparing", started + 1)
    BY <1>1, ActivationViews
  <1> HIDE DEF views
  <1>3. Fits(d, views[Len(views)], views) /\ views[Len(views)].state = "preparing"
    BY <1>1, <1>2 DEF Fits, Snapshot, None
  <1>4. nm'[d] = views[Len(views)]
    BY <1>1 DEF Announce, views
  <1>5. Announced(d)
    BY <1>2, <1>3 DEF Announced, views
  <1> QED
    BY <1>3, <1>4, <1>5

LEMMA ServeKeeps ==
  ASSUME OffInv, TypeOK', NEW d \in Devices, Serve(d)
  PROVE  OffInv'
  <1> DEFINE c == Head(calls[d])
  <1>1. /\ nm \in [Devices -> View] /\ calls \in [Devices -> Seq(Call)]
        /\ calls[d] # <<>> /\ calls' = [calls EXCEPT ![d] = Tail(calls[d])]
        /\ UNCHANGED <<nmUp, running, registered, cache, known, disabled, file, unsaved, choice>>
    BY DEF OffInv, TypeOK, Serve, serviceVars
  <1>2. Announced(d) /\ (Stops(c, nm[d].active) => nm'[d].state # "activated")
    <2>1. CASE c.op = "activate" /\ CanActivate(d) /\ Announce(d, Activation(d))
      BY <2>1, ActivationFits DEF CanActivate
    <2>2. CASE c.op = "activate" /\ UNCHANGED <<nm, signals>>
      BY <2>2 DEF Announced, Stops
    <2>3. CASE BringDown(d)
      BY <2>3, BringDownFits
    <2>4. CASE c.op = "deactivate" /\ c.id # nm[d].active /\ UNCHANGED <<nm, signals>>
      BY <2>4 DEF Announced, Stops
    <2>5. CASE c.op \in {"radioOn", "radioOff"} /\ SetRadio(d, c.op = "radioOn")
      <3>1. CASE c.op = "radioOn"
        <4>1. UNCHANGED <<nm, signals>>
          BY <2>5, <3>1 DEF SetRadio
        <4> QED
          BY <3>1, <4>1 DEF Announced, Stops
      <3>2. CASE c.op # "radioOn"
        <4>1. BringDown(d)
          BY <2>5, <3>2 DEF SetRadio
        <4> QED
          BY <4>1, BringDownFits
      <3> QED
        BY <3>1, <3>2
    <2> QED
      BY <2>1, <2>2, <2>3, <2>4, <2>5 DEF Serve
  <1>3. ASSUME NEW e \in Devices, Stopped(calls[e], nm[e].active),
               e # d \/ (nm'[d] = nm[d] /\ nm[d].state = "activated")
        PROVE  Stopped(calls'[e], nm[e].active)
    <2>1. CASE e # d
      BY <1>1, <1>3, <2>1
    <2>2. CASE e = d /\ nm'[d] = nm[d] /\ nm[d].state = "activated"
      <3>1. ~Stops(c, nm[d].active)
        BY <1>2, <2>2
      <3>2. Stopped(Tail(calls[d]), nm[d].active)
        BY <1>1, <1>3, <2>2, <3>1, StoppedTail
      <3> QED
        BY <1>1, <2>2, <3>2
    <2> QED
      BY <1>3, <2>1, <2>2
  <1> QED
    BY <1>1, <1>2, <1>3, AnnouncedKeeps

LEMMA FinishKeeps ==
  ASSUME OffInv, TypeOK', NEW d \in Devices, Finish(d)
  PROVE  OffInv'
  <1>1. /\ nm \in [Devices -> View] /\ nm[d].state = "preparing" /\ nm[d] # Absent
        /\ UNCHANGED <<nmUp, calls, running, registered, cache, known,
                       disabled, file, unsaved, choice>>
    BY DEF OffInv, TypeOK, Finish, serviceVars, Absent
  <1>2. CASE Announce(d, <<Snapshot(nm[d].name, "activated", nm[d].active)>>)
    <2> DEFINE v == Snapshot(nm[d].name, "activated", nm[d].active)
    <2>1. /\ v \in View /\ v.name = nm[d].name /\ v.state = "activated"
          /\ v.active = nm[d].active
      BY <1>1, SnapshotType, ViewFields
    <2>2. Announce(d, <<v>>)
      BY <1>2
    <2> HIDE DEF v
    <2>3. Fits(d, v, <<v>>)
      BY <1>1, <2>1 DEF Fits, Tells, OffInv, HasPath
    <2>4. <<v>> \in Seq(View) /\ <<v>> # <<>> /\ Len(<<v>>) = 1 /\ <<v>>[1] = v
      BY <2>1
    <2>5. Announced(d)
      BY <2>2, <2>3, <2>4 DEF Announced
    <2> QED
      BY <1>1, <2>5, AnnouncedKeeps
  <1>3. CASE Announce(d, <<Disconnected(d)>>)
    <2>1. BringDown(d)
      BY <1>1, <1>3 DEF BringDown
    <2> QED
      BY <1>1, <2>1, BringDownFits, AnnouncedKeeps
  <1> QED
    BY <1>2, <1>3 DEF Finish

\* What other clients and the user at the machine do.
LEMMA EventKeeps ==
  ASSUME OffInv, TypeOK', NEW d \in Devices,
         ActivateElsewhere(d) \/ SwitchRadioElsewhere(d) \/ Unplug(d) \/ Plug(d) \/ Rename(d)
  PROVE  OffInv'
  <1>1. /\ nm \in [Devices -> View]
        /\ UNCHANGED <<nmUp, calls, running, registered, cache, known,
                       disabled, file, unsaved, choice>>
    BY DEF OffInv, TypeOK, ActivateElsewhere, SwitchRadioElsewhere, Unplug, Plug, Rename,
           serviceVars
  <1>2. Announced(d)
    <2>1. CASE ActivateElsewhere(d)
      BY <2>1, ActivationFits DEF ActivateElsewhere, CanActivate
    <2>2. CASE SwitchRadioElsewhere(d)
      <3>1. BringDown(d) \/ UNCHANGED <<nm, signals>>
        BY <2>2 DEF SwitchRadioElsewhere, SetRadio
      <3> QED
        BY <3>1, BringDownFits DEF Announced
    <2>3. CASE Unplug(d)
      <3>1. Absent \in View
        BY DEF View
      <3>2. /\ <<Absent>> \in Seq(View) /\ <<Absent>> # <<>> /\ Len(<<Absent>>) = 1
            /\ <<Absent>>[1] = Absent
        BY <3>1
      <3>3. Fits(d, Absent, <<Absent>>)
        BY DeviceEnableAssumption DEF Fits, Absent
      <3> QED
        BY <2>3, <3>2, <3>3 DEF Unplug, Announced
    <2>4. CASE Plug(d)
      <3>1. PICK n \in FreeNames : Announce(d, <<Snapshot(n, "disconnected", None)>>)
        BY <2>4 DEF Plug
      <3> DEFINE v == Snapshot(n, "disconnected", None)
      <3>2. v \in View /\ v.name = n /\ v.state = "disconnected"
        BY SnapshotType DEF FreeNames, Keys, None
      <3>3. Announce(d, <<v>>)
        BY <3>1
      <3> HIDE DEF v
      <3>4. <<v>> \in Seq(View) /\ <<v>> # <<>> /\ Len(<<v>>) = 1 /\ <<v>>[1] = v
        BY <3>2
      <3>5. Fits(d, v, <<v>>)
        BY <3>2 DEF Fits
      <3> QED
        BY <3>3, <3>4, <3>5 DEF Announced
    <2>5. CASE Rename(d)
      <3>1. PICK n \in FreeNames \cup {NoName} :
               n # nm[d].name /\ Announce(d, <<Snapshot(n, nm[d].state, nm[d].active)>>)
        BY <2>5 DEF Rename
      <3> DEFINE v == Snapshot(n, nm[d].state, nm[d].active)
      <3>2. nm[d].state \in {"disconnected", "preparing", "activated"} /\ nm[d].active \in Nat
        BY <1>1, <2>5 DEF Rename, View, Device
      <3>3. /\ v \in View /\ v.name = n /\ v.state = nm[d].state /\ v.active = nm[d].active
        BY <3>2, SnapshotType DEF FreeNames, Keys
      <3>4. Announce(d, <<v>>)
        BY <3>1
      <3> HIDE DEF v
      <3>5. <<v>> \in Seq(View) /\ <<v>> # <<>> /\ Len(<<v>>) = 1 /\ <<v>>[1] = v
        BY <3>3
      <3>6. Fits(d, v, <<v>>)
        BY <3>1, <3>3, DeviceEnableAssumption DEF Fits, Tells, OffInv, HasPath
      <3> QED
        BY <3>4, <3>5, <3>6 DEF Announced
    <2> QED
      BY <2>1, <2>2, <2>3, <2>4, <2>5
  <1> QED
    BY <1>1, <1>2, AnnouncedKeeps

LEMMA NmRestartKeeps ==
  ASSUME OffInv, TypeOK', NmStop \/ NmStart
  PROVE  OffInv'
  <1>1. CASE NmStart
    <2>1. running = "down" \/ registered' = TRUE
      BY <1>1 DEF OffInv, TypeOK, NmStart
    <2>2. /\ AllGoDown' /\ WhileDown'
          /\ UNCHANGED <<nm, calls, signals, running, cache, known,
                         disabled, file, unsaved, choice>>
      BY <1>1, <2>1 DEF NmStart, AllGoDown, OffInv, WhileDown
    <2> QED
      BY <2>2 DEF OffInv, ChoiceIsKept, Apart, CacheCatchesUp, KnowsCache, HasPath
  <1>2. CASE NmStop
    <2>1. /\ UNCHANGED <<running, registered, cache, known, disabled, file, unsaved, choice>>
          /\ nmUp' = FALSE /\ nm' = [d \in Devices |-> Absent]
          /\ running # "down" => signals' = [d \in Devices |-> Append(signals[d], Absent)]
      BY <1>2 DEF NmStop, serviceVars
    <2>2. Apart(nm)' /\ HasPath'
      BY <2>1, DeviceEnableAssumption DEF Apart, HasPath, Absent
    <2>3. ASSUME running # "down", NEW d \in Devices
          PROVE  signals'[d] # <<>> /\ signals'[d][Len(signals'[d])] = nm'[d]
      <3>1. signals[d] \in Seq(View) /\ Absent \in View
        BY DEF OffInv, TypeOK, View
      <3>2. /\ Append(signals[d], Absent) # <<>>
            /\ Append(signals[d], Absent)[Len(Append(signals[d], Absent))] = Absent
        BY <3>1
      <3> QED
        BY <2>1, <2>3, <3>2
    <2>4. CacheCatchesUp'
      BY <2>1, <2>3 DEF CacheCatchesUp
    <2>5. WhileDown'
      BY <1>2, <2>1 DEF NmStop, OffInv, WhileDown
    <2> QED
      BY <2>1, <2>2, <2>4, <2>5 DEF OffInv, ChoiceIsKept, Apart, KnowsCache, AllGoDown
  <1> QED
    BY <1>1, <1>2

-----------------------------------------------------------------------------
(* What the service does *)

\* doEnableDevice takes back no call, and takes down what it switches off.
LEMMA DoEnableStays ==
  ASSUME TypeOK, NEW snap, NEW D \in SUBSET Devices,
         NEW enabled \in [Devices -> BOOLEAN], NEW aps \in BOOLEAN,
         NEW first \in [Devices -> Seq(Call)], DoEnable(snap, D, enabled, aps, first),
         NEW e \in Devices, NEW id, Stopped(calls[e], id)
  PROVE  Stopped(calls'[e], id)
  <1> DEFINE more == IF e \in D /\ nmUp THEN Request(e, enabled[e], aps) ELSE <<>>
  <1>1. calls[e] \in Seq(Call) /\ first[e] \in Seq(Call) /\ more \in Seq(Call)
    BY RequestType DEF TypeOK
  <1>2. calls'[e] = calls[e] \o first[e] \o more
    BY DEF DoEnable
  <1> HIDE DEF more
  <1>3. calls[e] \o first[e] \in Seq(Call) /\ Stopped(calls[e] \o first[e], id)
    BY <1>1, Concat, StoppedConcat
  <1> QED
    BY <1>1, <1>2, <1>3, StoppedConcat

LEMMA DoEnableStops ==
  ASSUME NEW q \in Seq(Call), NEW r \in Seq(Call), NEW e \in Devices, NEW aps \in BOOLEAN, NEW id
  PROVE  Stopped(q \o r \o Request(e, FALSE, aps), id)
  <1> DEFINE more == Request(e, FALSE, aps)
  <1>1. more \in Seq(Call) /\ Stopped(more, id)
    BY RequestType, RequestStops
  <1> HIDE DEF more
  <1>2. q \o r \in Seq(Call)
    BY Concat
  <1> QED
    BY <1>1, <1>2, StoppedConcat DEF more

\* Once the memory has the choice, saving it or failing to leaves nothing wrong.
LEMMA SavedIsKept ==
  ASSUME TypeOK, running' # "down", disabled' = {n \in Keys : ~choice'[n]}, SaveConfig
  PROVE  ChoiceIsKept'
  <1>1. \A n \in Keys : n \in unsaved' <=> ~(n \in file' <=> n \in disabled')
    BY SaveConfigType DEF TypeOK
  <1> QED
    BY <1>1 DEF ChoiceIsKept

\* Applying the choice for a device again does not change it.
LEMMA RecordAgain ==
  ASSUME NEW snap, NEW D, NEW enabled, \A e \in D : enabled[e] <=> snap[e].name \notin disabled
  PROVE  Record(snap, D, enabled) = disabled
  BY DEF Record

\* A device that has another name in the cache is told of its own.
LEMMA OtherNameIsTold ==
  ASSUME OffInv, running # "down", NEW e \in Devices, NEW id, cache[e].name # nm[e].name
  PROVE  Told(cache[e], signals[e], nm[e].name, id)
  <1>1. signals[e] \in Seq(View)
    BY DEF OffInv, TypeOK
  <1>2. signals[e] # <<>> /\ signals[e][Len(signals[e])] = nm[e]
    BY DEF OffInv, CacheCatchesUp
  <1> QED
    BY <1>1, <1>2, NameIsTold

\* The user's choice for the devices of D, as the service records and applies it.
LEMMA ChooseKeeps ==
  ASSUME OffInv, TypeOK', running # "down", NEW D \in SUBSET Devices, NEW on \in BOOLEAN,
         NEW aps \in BOOLEAN, NEW first \in [Devices -> Seq(Call)],
         DoEnable(cache, D, [e \in Devices |-> on], aps, first),
         \A n \in Keys : choice'[n] = IF \E d \in D : cache[d].name = n THEN on ELSE choice[n],
         UNCHANGED <<nmUp, nm, signals, running, registered, cache, known>>
  PROVE  OffInv'
  <1> DEFINE enabled == [e \in Devices |-> on]
             names == {cache[d].name : d \in D}
  <1>1. enabled \in [Devices -> BOOLEAN] /\ \A e \in Devices : enabled[e] = on
    OBVIOUS
  <1>2. names \subseteq Keys
    BY ViewFields DEF OffInv, TypeOK
  <1>3. disabled' = IF on THEN disabled \ names ELSE disabled \cup names
    BY DEF DoEnable, Record
  <1>4. ChoiceIsKept'
    <2>1. disabled = {n \in Keys : ~choice[n]}
      BY DEF OffInv, ChoiceIsKept
    <2>2. \A n \in Keys : choice'[n] = IF n \in names THEN on ELSE choice[n]
      OBVIOUS
    <2>3. disabled' = {n \in Keys : ~choice'[n]}
      <3> HIDE DEF names
      <3>1. CASE on
        <4>1. \A n \in Keys : ~choice'[n] <=> ~choice[n] /\ n \notin names
          BY <2>2, <3>1
        <4> QED
          BY <1>3, <2>1, <3>1, <4>1
      <3>2. CASE ~on
        <4>1. \A n \in Keys : ~choice'[n] <=> ~choice[n] \/ n \in names
          BY <2>2, <3>2
        <4> QED
          BY <1>2, <1>3, <2>1, <3>2, <4>1
      <3> QED
        BY <3>1, <3>2
    <2>4. TypeOK /\ running' # "down" /\ SaveConfig
      BY DEF OffInv, DoEnable
    <2> QED
      BY <2>3, <2>4, SavedIsKept
  <1>5. DoEnable(cache, D, enabled, aps, first)
    OBVIOUS
  <1> HIDE DEF enabled
  <1>6. AllGoDown'
    <2>1. SUFFICES ASSUME nmUp, running = "up", ~registered, NEW e \in Devices,
                          nm[e].state = "activated", nm[e].name # NoName, nm[e].name \in disabled'
                   PROVE  \/ Stopped(calls'[e], nm[e].active)
                          \/ Told(cache[e], signals[e], nm[e].name, nm[e].active)
      BY DEF AllGoDown, GoesDown
    <2>2. Stopped(calls[e], nm[e].active) => Stopped(calls'[e], nm[e].active)
      <3>1. TypeOK
        BY DEF OffInv
      <3> QED
        BY <1>1, <1>5, <3>1, DoEnableStays, ZenonT(60)
    <2>3. CASE nm[e].name \in disabled
      BY <2>1, <2>2, <2>3 DEF OffInv, AllGoDown, GoesDown
    <2>4. CASE cache[e].name # nm[e].name
      BY <2>1, <2>4, OtherNameIsTold
    <2>5. CASE nm[e].name \notin disabled /\ cache[e].name = nm[e].name
      <3>1. ~on /\ nm[e].name \in names
        BY <1>3, <2>1, <2>5
      <3>2. PICK d \in D : cache[d].name = nm[e].name
        BY <3>1
      <3>3. cache[e].name \in Names
        <4>1. cache[e] \in View
          BY DEF OffInv, TypeOK
        <4>2. cache[e].name \in Keys
          BY <4>1, ViewFields
        <4> QED
          BY <2>1, <2>5, <4>2 DEF Keys
      <3>4. d = e
        BY <2>5, <3>2, <3>3 DEF OffInv, Apart
      <3>5. enabled[e] = FALSE
        BY <1>1, <3>1
      <3>6. calls'[e] = calls[e] \o first[e] \o Request(e, FALSE, aps)
        BY <1>5, <2>1, <3>4, <3>5 DEF DoEnable
      <3>7. calls[e] \in Seq(Call) /\ first[e] \in Seq(Call)
        BY DEF OffInv, TypeOK
      <3>8. Stopped(calls[e] \o first[e] \o Request(e, FALSE, aps), nm[e].active)
        BY <3>7, DoEnableStops
      <3> QED
        BY <3>6, <3>8
    <2> QED
      BY <2>3, <2>4, <2>5
  <1> QED
    BY <1>4, <1>6 DEF OffInv, Apart, CacheCatchesUp, WhileDown, KnowsCache, HasPath

LEMMA EnableKeeps ==
  ASSUME OffInv, TypeOK', NEW d \in Devices, NEW on \in BOOLEAN, NEW aps \in BOOLEAN,
         EnableDevice(d, on, aps)
  PROVE  OffInv'
  <1>0. choice \in [Keys -> BOOLEAN] /\ cache \in [Devices -> View]
    BY DEF OffInv, TypeOK
  <1> DEFINE D == {d}
  <1>1. /\ running # "down" /\ DoEnable(cache, D, [e \in Devices |-> on], aps, NoCalls)
        /\ choice' = [choice EXCEPT ![cache[d].name] = on]
        /\ UNCHANGED <<nmUp, nm, signals, running, registered, cache, known>>
    BY DEF EnableDevice
  <1>2. \A n \in Keys : choice'[n] = IF \E e \in D : cache[e].name = n THEN on ELSE choice[n]
    BY <1>0, <1>1
  <1>3. NoCalls \in [Devices -> Seq(Call)] /\ D \in SUBSET Devices
    BY DEF NoCalls
  <1> HIDE DEF D, NoCalls
  <1> QED
    BY <1>1, <1>2, <1>3, ChooseKeeps, ZenonT(60)

LEMMA ToggleKeeps ==
  ASSUME OffInv, TypeOK', NEW aps \in BOOLEAN, ToggleWirelessEnabled(aps)
  PROVE  OffInv'
  <1>0. radioSeen \in BOOLEAN
    BY DEF OffInv, TypeOK
  <1> DEFINE turnOn == ~radioSeen
             D == {w \in Wifi : cache[w] # Absent}
             c == [op |-> IF turnOn THEN "radioOn" ELSE "radioOff", id |-> None]
             first == [w \in Devices |-> IF w \in Wifi THEN <<c>> ELSE <<>>]
  <1>1. /\ running # "down" /\ DoEnable(cache, D, [e \in Devices |-> turnOn], aps, first)
        /\ choice' = [n \in Keys |-> IF \E w \in D : cache[w].name = n THEN turnOn ELSE choice[n]]
        /\ UNCHANGED <<nmUp, nm, signals, running, registered, cache, known>>
    BY DEF ToggleWirelessEnabled
  <1>2. c \in Call
    BY DEF Call, None
  <1>3. turnOn \in BOOLEAN /\ D \in SUBSET Devices /\ first \in [Devices -> Seq(Call)]
    BY <1>0, <1>2, DeviceEnableAssumption
  <1> HIDE DEF turnOn, D, first
  <1> QED
    BY <1>1, <1>3, ChooseKeeps

LEMMA AirplaneKeeps ==
  ASSUME OffInv, TypeOK', NEW d \in Devices, AirplaneAnswers(d)
  PROVE  OffInv'
  <1> DEFINE c == [op |-> "radioOn", id |-> None]
  <1>1. /\ UNCHANGED <<nmUp, nm, signals, running, registered, cache, known,
                       disabled, file, unsaved, choice>>
        /\ calls' \in {calls, [calls EXCEPT ![d] = Append(calls[d], c)]}
    BY DEF AirplaneAnswers
  <1>2. ASSUME NEW e \in Devices, NEW id, Stopped(calls[e], id)
        PROVE  Stopped(calls'[e], id)
    <2>1. c \in Call /\ calls \in [Devices -> Seq(Call)]
      BY DEF Call, None, OffInv, TypeOK
    <2> HIDE DEF c
    <2>2. Append(calls[d], c) = calls[d] \o <<c>> /\ <<c>> \in Seq(Call)
      BY <2>1, AppendOne
    <2>3. Stopped(calls[d], id) => Stopped(Append(calls[d], c), id)
      BY <2>1, <2>2, StoppedConcat
    <2>4. calls'[e] \in {calls[e], IF e = d THEN Append(calls[d], c) ELSE calls[e]}
      BY <1>1, <2>1
    <2> QED
      BY <1>2, <2>3, <2>4
  <1>3. Announced(d)
    BY <1>1 DEF Announced
  <1> QED
    BY <1>1, <1>2, <1>3, AnnouncedKeeps

\* The service sees the radio, stops or starts.
LEMMA RestartKeeps ==
  ASSUME OffInv, TypeOK', SeeRadio \/ Stop \/ Start
  PROVE  OffInv'
  <1>1. CASE SeeRadio
    <2>1. UNCHANGED <<nmUp, nm, signals, calls, running, registered, cache, known,
                      disabled, file, unsaved, choice>>
      BY <1>1 DEF SeeRadio, nmVars
    <2> QED
      BY <2>1 DEF OffInv, ChoiceIsKept, Apart, CacheCatchesUp, WhileDown, KnowsCache, HasPath,
                  AllGoDown, GoesDown
  <1>2. CASE Stop
    <2>1. /\ running' = "down" /\ cache' = [e \in Devices |-> Absent]
          /\ UNCHANGED <<nm, file>>
      BY <1>2 DEF Stop
    <2>2. Apart(cache)'
      BY <2>1, DeviceEnableAssumption DEF Apart, Absent
    <2>3. WhileDown'
      BY <1>2 DEF Stop, WhileDown
    <2>4. /\ file \subseteq Keys /\ disabled = {n \in Keys : ~choice[n]}
          /\ \A n \in Keys : n \in unsaved <=> ~(n \in file <=> n \in disabled)
      BY <1>2 DEF OffInv, TypeOK, ChoiceIsKept, Stop
    <2>5. \A n \in Keys : n \in file <=> ~choice'[n]
      BY <1>2, <2>4 DEF Stop
    <2>6. file = {n \in Keys : ~choice'[n]} /\ unsaved' = {}
      BY <1>2, <2>4, <2>5 DEF Stop
    <2>7. ChoiceIsKept'
      BY <2>1, <2>6 DEF ChoiceIsKept
    <2> QED
      BY <2>1, <2>2, <2>3, <2>7 DEF OffInv, Apart, CacheCatchesUp, KnowsCache, HasPath,
                             AllGoDown
  <1>3. CASE Start
    <2>1. /\ running = "down" /\ running' = "starting" /\ cache' = nm /\ disabled' = file
          /\ UNCHANGED <<nm, signals, file, unsaved, choice>>
      BY <1>3 DEF Start, nmVars
    <2> QED
      BY <2>1 DEF OffInv, ChoiceIsKept, Apart, CacheCatchesUp, WhileDown, KnowsCache, HasPath,
                  AllGoDown
  <1> QED
    BY <1>1, <1>2, <1>3

\* What is left of a sequence ends as it does, if anything is left.
LEMMA LastOfRest ==
  ASSUME NEW q \in Seq(View), NEW r \in Seq(View), q # <<>>, Len(r) = Len(q) - 1,
         \A j \in 1 .. Len(q) - 1 : r[j] = q[j + 1]
  PROVE  IF r = <<>> THEN q[1] = q[Len(q)] ELSE r[Len(r)] = q[Len(q)]
  <1>1. Len(q) \in Nat /\ Len(q) >= 1 /\ (r # <<>> => Len(r) >= 1) /\ (r = <<>> => Len(r) = 0)
    OBVIOUS
  <1>2. CASE r = <<>>
    BY <1>1, <1>2
  <1>3. CASE r # <<>>
    <2>1. Len(r) \in 1 .. Len(q) - 1 /\ Len(r) + 1 = Len(q)
      BY <1>1, <1>3
    <2> QED
      BY <1>3, <2>1
  <1> QED
    BY <1>2, <1>3

\* What is left of the signals about d when the first of them is read.
LEMMA ReadsOne ==
  ASSUME OffInv, NEW d \in Devices, NEW aps \in BOOLEAN, HandleSignal(d, aps),
         NEW v, v = Head(signals[d])
  PROVE  /\ v \in View /\ cache' \in [Devices -> View] /\ signals'[d] = Tail(signals[d])
         /\ cache'[d] = v
         /\ \A e \in Devices \ {d} : signals'[e] = signals[e] /\ cache'[e] = cache[e]
         /\ Apart(cache)' /\ CacheCatchesUp'
         /\ \A n, id : Told(cache[d], signals[d], n, id)
                       => Tells(cache[d], v, n, id) \/ Told(v, Tail(signals[d]), n, id)
  <1> DEFINE q == signals[d]
  <1>1. /\ q \in Seq(View) /\ q # <<>> /\ running # "down"
        /\ signals \in [Devices -> Seq(View)] /\ cache \in [Devices -> View]
    BY DEF OffInv, TypeOK, HandleSignal
  <1>2. /\ signals' = [signals EXCEPT ![d] = Tail(q)] /\ cache' = [cache EXCEPT ![d] = v]
        /\ UNCHANGED <<nm, running>>
        /\ \A e \in Devices \ {d} : v.name \in Names => cache[e].name # v.name
    BY DEF HandleSignal
  <1>3. /\ v \in View /\ Len(q) \in Nat /\ Len(Tail(q)) = Len(q) - 1 /\ v = q[1]
        /\ Tail(q) \in Seq(View)
        /\ \A j \in 1 .. Len(q) - 1 : Tail(q)[j] = q[j + 1]
    BY <1>1, HeadTail
  <1>4. /\ signals'[d] = Tail(q) /\ cache'[d] = v /\ cache' \in [Devices -> View]
        /\ \A e \in Devices \ {d} : signals'[e] = signals[e] /\ cache'[e] = cache[e]
    BY <1>1, <1>2, <1>3
  <1>5. Apart(cache)'
    <2>1. ASSUME NEW e \in Devices, NEW f \in Devices, e # f,
                 cache'[e].name \in Names, cache'[e].name = cache'[f].name
          PROVE  FALSE
      <3>1. CASE e = d \/ f = d
        BY <1>2, <1>4, <2>1, <3>1
      <3>2. CASE e # d /\ f # d
        BY <1>4, <2>1, <3>2 DEF OffInv, Apart
      <3> QED
        BY <3>1, <3>2
    <2> QED
      BY <2>1 DEF Apart
  <1>6. q[Len(q)] = nm[d]
    BY <1>1 DEF OffInv, CacheCatchesUp
  <1>7. IF Tail(q) = <<>> THEN v = nm[d] ELSE Tail(q)[Len(Tail(q))] = nm[d]
    BY <1>1, <1>3, <1>6, LastOfRest
  <1>8. CacheCatchesUp'
    <2>1. ASSUME NEW e \in Devices
          PROVE  IF signals'[e] = <<>> THEN cache'[e] = nm[e]
                 ELSE signals'[e][Len(signals'[e])] = nm[e]
      <3>1. CASE e = d
        <4>1. signals'[d] = Tail(q) /\ cache'[d] = v
          BY <1>4
        <4> HIDE DEF q
        <4> QED
          BY <1>7, <3>1, <4>1
      <3>2. CASE e # d
        BY <1>1, <1>4, <3>2 DEF OffInv, CacheCatchesUp
      <3> QED
        BY <3>1, <3>2
    <2> QED
      BY <1>2, <2>1 DEF CacheCatchesUp
  <1>9. \A n, id : Told(cache[d], q, n, id) => Tells(cache[d], v, n, id) \/ Told(v, Tail(q), n, id)
    BY <1>1, ToldTail
  <1> QED
    BY <1>3, <1>4, <1>5, <1>8, <1>9

\* onDevicesChanged takes back no call that takes a device down, and makes such a call
\* for a signal upon which it has to.
LEMMA ChangedKeeps ==
  ASSUME OffInv, NEW d \in Devices, NEW v \in View, NEW aps \in BOOLEAN,
         running = "up", UNCHANGED running, OnDeviceChanged(d, v, aps)
  PROVE  /\ known' = [known EXCEPT ![d] = KnownOf(v)]
         /\ ChoiceIsKept' /\ disabled' \subseteq disabled
         /\ \A e \in Devices : \A id : Stopped(calls[e], id) => Stopped(calls'[e], id)
         /\ \A n, id : /\ nmUp /\ n \in disabled' /\ n # NoName /\ id # None
                       /\ Tells(cache[d], v, n, id)
                       => Stopped(calls'[d], id)
  <1> DEFINE k == known[d]
             D == {d}
             snap == [cache EXCEPT ![d] = v]
             enabled == [e \in Devices |-> snap[e].name \notin disabled]
             more == OnDeviceStateChanged(k.state, v)
  <1>1. /\ known \in [Devices -> Known] /\ cache \in [Devices -> View]
        /\ calls \in [Devices -> Seq(Call)] /\ choice \in [Keys -> BOOLEAN]
        /\ k = KnownOf(cache[d]) /\ TypeOK
        /\ disabled = {n \in Keys : ~choice[n]} /\ ChoiceIsKept
    BY DEF OffInv, TypeOK, KnowsCache, ChoiceIsKept
  <1>2. /\ v.name \in Keys /\ v.active \in Nat /\ k.name \in Keys
        /\ snap \in [Devices -> View] /\ snap[d] = v
        /\ enabled \in [Devices -> BOOLEAN] /\ enabled[d] = (v.name \notin disabled)
        /\ NoCalls \in [Devices -> Seq(Call)] /\ D \in SUBSET Devices
    BY <1>1, ViewFields DEF NoCalls, Known, Unknown, Keys
  <1>3. /\ known' = [known EXCEPT ![d] = KnownOf(v)]
        /\ \/ v.name = NoName /\ UNCHANGED <<disabled, file, unsaved, choice, calls>>
           \/ /\ v.name = NoName /\ UNCHANGED calls
              /\ disabled' = disabled \ {k.name} /\ SaveConfig
              /\ choice' = [choice EXCEPT ![k.name] = TRUE]
           \/ /\ v.name # NoName /\ k.name # v.name
              /\ DoEnable(snap, D, enabled, aps, NoCalls) /\ UNCHANGED choice
           \/ /\ v.name # NoName /\ k.name = v.name
              /\ calls' = IF nmUp THEN [calls EXCEPT ![d] = calls[d] \o more] ELSE calls
              /\ UNCHANGED <<disabled, choice>> /\ (SaveConfig \/ UNCHANGED <<file, unsaved>>)
    BY DEF OnDeviceChanged, KnownOf, Absent
  <1>4. DoEnable(snap, D, enabled, aps, NoCalls) => disabled' = disabled /\ SaveConfig
    <2>1. ASSUME NEW e \in D PROVE enabled[e] <=> snap[e].name \notin disabled
      OBVIOUS
    <2> HIDE DEF enabled, snap, D
    <2>2. Record(snap, D, enabled) = disabled
      BY <2>1, RecordAgain
    <2> QED
      BY <2>2 DEF DoEnable
  <1>5. more \in Seq(Call)
    <2> DEFINE c == [op |-> "deactivate", id |-> v.active]
    <2>1. c \in Call
      BY <1>2 DEF Call
    <2>2. more = <<c>> \/ more = <<>>
      BY DEF OnDeviceStateChanged
    <2> HIDE DEF c, more
    <2>3. <<c>> \in Seq(Call) /\ <<>> \in Seq(Call)
      BY <2>1
    <2> QED
      BY <2>2, <2>3
  <1> HIDE DEF k, D, snap, enabled, more
  <1>6. /\ disabled' \subseteq disabled /\ disabled' = {n \in Keys : ~choice'[n]}
        /\ SaveConfig \/ UNCHANGED <<disabled, file, unsaved, choice>>
    <2>1. CASE UNCHANGED <<disabled, choice>> /\ (SaveConfig \/ UNCHANGED <<file, unsaved>>)
      BY <1>1, <2>1
    <2>2. CASE /\ disabled' = disabled \ {k.name} /\ SaveConfig
               /\ choice' = [choice EXCEPT ![k.name] = TRUE]
      <3>1. \A n \in Keys : choice'[n] = IF n = k.name THEN TRUE ELSE choice[n]
        BY <1>1, <2>2
      <3>2. \A n \in Keys : ~choice'[n] <=> ~choice[n] /\ n # k.name
        BY <3>1
      <3> QED
        BY <1>1, <2>2, <3>2
    <2>3. CASE DoEnable(snap, D, enabled, aps, NoCalls) /\ UNCHANGED choice
      BY <1>1, <1>4, <2>3
    <2> QED
      BY <1>3, <2>1, <2>2, <2>3
  <1>7. ASSUME NEW e \in Devices, NEW id, Stopped(calls[e], id)
        PROVE  Stopped(calls'[e], id)
    <2>1. CASE UNCHANGED calls
      BY <1>7, <2>1
    <2>2. CASE DoEnable(snap, D, enabled, aps, NoCalls)
      BY <1>1, <1>2, <1>7, <2>2, DoEnableStays
    <2>3. CASE calls' = [calls EXCEPT ![d] = calls[d] \o more]
      <3>1. CASE e = d
        <4>1. calls'[d] = calls[d] \o more
          BY <1>1, <2>3
        <4> QED
          BY <1>1, <1>5, <1>7, <3>1, <4>1, StoppedConcat
      <3>2. CASE e # d
        BY <1>1, <1>7, <2>3, <3>2
      <3> QED
        BY <3>1, <3>2
    <2> QED
      BY <1>3, <2>1, <2>2, <2>3
  <1>8. ASSUME NEW n, NEW id, nmUp, n \in disabled', n # NoName, id # None,
               Tells(cache[d], v, n, id)
        PROVE  Stopped(calls'[d], id)
    <2>1. v.name = n /\ n \in disabled
      BY <1>6, <1>8 DEF Tells
    <2>2. CASE k.name # v.name
      <3>1. DoEnable(snap, D, enabled, aps, NoCalls) /\ enabled[d] = FALSE
        BY <1>2, <1>3, <1>8, <2>1, <2>2
      <3>2. calls'[d] = calls[d] \o NoCalls[d] \o Request(d, FALSE, aps)
        BY <1>8, <3>1 DEF DoEnable, D
      <3>3. calls[d] \in Seq(Call) /\ NoCalls[d] \in Seq(Call)
        BY <1>1, <1>2
      <3>4. Stopped(calls[d] \o NoCalls[d] \o Request(d, FALSE, aps), id)
        BY <3>3, DoEnableStops
      <3> QED
        BY <3>2, <3>4
    <2>3. CASE k.name = v.name
      <3>1. calls' = [calls EXCEPT ![d] = calls[d] \o more]
        BY <1>3, <1>8, <2>1, <2>3
      <3>2. cache[d].name = n /\ k.state = cache[d].state
        BY <1>1, <1>8, <2>1, <2>3 DEF KnownOf, Unknown
      <3>3. k.state # "activated" /\ v.state = "activated" /\ v.active = id
        BY <1>8, <3>2 DEF Tells
      <3>4. more = <<[op |-> "deactivate", id |-> id]>>
        BY <1>8, <2>1, <3>3 DEF more, OnDeviceStateChanged
      <3>5. Stopped(more, id)
        <4>1. Len(more) = 1 /\ more[1].op = "deactivate" /\ more[1].id = id
          BY <3>4
        <4>2. 1 \in 1 .. Len(more) /\ Stops(more[1], id)
          BY <4>1 DEF Stops
        <4> QED
          BY <4>2 DEF Stopped
      <3>6. calls'[d] = calls[d] \o more
        BY <1>1, <3>1
      <3> QED
        BY <1>1, <1>5, <3>5, <3>6, StoppedConcat
    <2> QED
      BY <2>2, <2>3
  <1>9. ChoiceIsKept'
    <2>1. CASE SaveConfig
      BY <1>1, <1>6, <2>1, SavedIsKept
    <2>2. CASE UNCHANGED <<disabled, file, unsaved, choice>>
      BY <1>1, <2>2 DEF ChoiceIsKept
    <2> QED
      BY <1>6, <2>1, <2>2
  <1> QED
    BY <1>3, <1>6, <1>7, <1>8, <1>9

\* A signal is handled.
LEMMA HandleSignalKeeps ==
  ASSUME OffInv, TypeOK', NEW d \in Devices, NEW aps \in BOOLEAN, HandleSignal(d, aps)
  PROVE  OffInv'
  <1> DEFINE v == Head(signals[d])
  <1>1. /\ running # "down" /\ UNCHANGED <<nmUp, nm, running, registered>>
        /\ IF running = "up" /\ v # cache[d] THEN OnDeviceChanged(d, v, aps)
           ELSE UNCHANGED <<known, disabled, file, unsaved, calls, choice>>
    BY DEF HandleSignal
  <1>2. v = Head(signals[d])
    OBVIOUS
  <1> HIDE DEF v
  <1>3. /\ v \in View /\ signals'[d] = Tail(signals[d]) /\ cache'[d] = v
        /\ \A e \in Devices \ {d} : signals'[e] = signals[e] /\ cache'[e] = cache[e]
        /\ Apart(cache)' /\ CacheCatchesUp'
        /\ \A n, id : Told(cache[d], signals[d], n, id)
                      => Tells(cache[d], v, n, id) \/ Told(v, Tail(signals[d]), n, id)
    BY <1>2, ReadsOne
  <1>4. Apart(nm)' /\ HasPath' /\ WhileDown'
    BY <1>1 DEF OffInv, Apart, HasPath, WhileDown
  <1>5. /\ ChoiceIsKept' /\ disabled' \subseteq disabled /\ KnowsCache'
        /\ running = "up" =>
              \A e \in Devices : \A id : Stopped(calls[e], id) => Stopped(calls'[e], id)
        /\ \A n, id : /\ running = "up" /\ nmUp /\ n \in disabled' /\ n # NoName /\ id # None
                      /\ Tells(cache[d], v, n, id)
                      => Stopped(calls'[d], id)
    <2>1. CASE running = "up" /\ v # cache[d]
      <3>1. OnDeviceChanged(d, v, aps) /\ UNCHANGED running
        BY <1>1, <2>1
      <3>2. /\ known' = [known EXCEPT ![d] = KnownOf(v)]
            /\ ChoiceIsKept' /\ disabled' \subseteq disabled
            /\ \A e \in Devices : \A id : Stopped(calls[e], id) => Stopped(calls'[e], id)
        BY <1>3, <2>1, <3>1, ChangedKeeps
      <3>6. ASSUME NEW n, NEW id, nmUp, n \in disabled', n # NoName, id # None,
                   Tells(cache[d], v, n, id)
            PROVE  Stopped(calls'[d], id)
        BY <1>3, <2>1, <3>1, <3>6, ChangedKeeps
      <3>3. known \in [Devices -> Known] /\ \A e \in Devices : known[e] = KnownOf(cache[e])
        BY <2>1 DEF OffInv, TypeOK, KnowsCache
      <3>4. ASSUME NEW e \in Devices PROVE known'[e] = KnownOf(cache'[e])
        <4>1. CASE e = d
          BY <1>3, <3>2, <3>3, <4>1
        <4>2. CASE e # d
          BY <1>3, <3>2, <3>3, <4>2
        <4> QED
          BY <4>1, <4>2
      <3>5. KnowsCache'
        BY <3>4 DEF KnowsCache
      <3> QED
        BY <3>2, <3>5, <3>6
    <2>2. CASE ~(running = "up" /\ v # cache[d])
      <3>1. UNCHANGED <<known, disabled, file, unsaved, calls, choice>>
        BY <1>1, <2>2
      <3>2. ChoiceIsKept'
        BY <1>1, <3>1 DEF OffInv, ChoiceIsKept
      <3>3. KnowsCache'
        <4>1. SUFFICES ASSUME running = "up", NEW e \in Devices
                       PROVE  known'[e] = KnownOf(cache'[e])
          BY <1>1 DEF KnowsCache
        <4>2. cache'[e] = cache[e]
          BY <1>3, <2>2, <4>1
        <4> QED
          BY <3>1, <4>1, <4>2 DEF OffInv, KnowsCache
      <3>4. running = "up" => \A n, id : ~Tells(cache[d], v, n, id)
        BY <2>2 DEF Tells
      <3> QED
        BY <3>1, <3>2, <3>3, <3>4
    <2> QED
      BY <2>1, <2>2
  <1>6. AllGoDown'
    <2>1. SUFFICES ASSUME nmUp, running = "up", ~registered, NEW e \in Devices,
                          nm[e].state = "activated", nm[e].name # NoName, nm[e].name \in disabled'
                   PROVE  \/ Stopped(calls'[e], nm[e].active)
                          \/ Told(cache'[e], signals'[e], nm[e].name, nm[e].active)
      BY <1>1 DEF AllGoDown, GoesDown
    <2>2. \/ Stopped(calls[e], nm[e].active)
          \/ Told(cache[e], signals[e], nm[e].name, nm[e].active)
      BY <1>5, <2>1 DEF OffInv, AllGoDown, GoesDown
    <2>3. CASE Stopped(calls[e], nm[e].active)
      BY <1>5, <2>1, <2>3
    <2>4. CASE Told(cache[e], signals[e], nm[e].name, nm[e].active) /\ e # d
      BY <1>3, <2>4
    <2>5. CASE Told(cache[e], signals[e], nm[e].name, nm[e].active) /\ e = d
      <3>1. CASE Tells(cache[d], v, nm[d].name, nm[d].active)
        <4>1. nm[d].active # None
          BY <2>1, <2>5 DEF OffInv, HasPath
        <4> QED
          BY <1>5, <2>1, <2>5, <3>1, <4>1
      <3>2. CASE Told(v, Tail(signals[d]), nm[d].name, nm[d].active)
        BY <1>3, <2>5, <3>2
      <3> QED
        BY <1>3, <2>5, <3>1, <3>2
    <2> QED
      BY <2>2, <2>3, <2>4, <2>5
  <1> QED
    BY <1>3, <1>4, <1>5, <1>6 DEF OffInv

\* init applies the choice to every device of the cache.
LEMMA InitServiceKeeps ==
  ASSUME OffInv, TypeOK', NEW aps \in BOOLEAN, InitService(aps)
  PROVE  OffInv'
  <1> DEFINE D == {d \in Devices : cache[d].name # NoName}
             enabled == [d \in Devices |-> cache[d].name \notin disabled]
  <1>1. /\ running # "down" /\ running' = "up"
        /\ DoEnable(cache, D, enabled, aps, NoCalls)
        /\ known' = [d \in Devices |-> IF d \in D
                                       THEN [name |-> cache[d].name, state |-> cache[d].state]
                                       ELSE Unknown]
        /\ UNCHANGED <<nmUp, nm, signals, cache, choice>>
    BY DEF InitService, OffInv, WhileDown
  <1>2. D \subseteq Devices /\ \A d \in D : enabled[d] <=> cache[d].name \notin disabled
    OBVIOUS
  <1>3. KnowsCache'
    BY <1>1 DEF KnowsCache, KnownOf
  <1>4. \A d \in Devices : d \in D <=> cache[d].name # NoName
    OBVIOUS
  <1>5. \A d \in Devices : cache[d].name \in disabled => enabled[d] = FALSE
    OBVIOUS
  <1> HIDE DEF D, enabled
  <1>6. disabled' = disabled /\ SaveConfig
    <2>1. Record(cache, D, enabled) = disabled
      BY <1>2, RecordAgain
    <2> QED
      BY <1>1, <2>1 DEF DoEnable
  <1>7. ChoiceIsKept'
    <2>1. disabled' = {n \in Keys : ~choice'[n]}
      BY <1>1, <1>6 DEF OffInv, ChoiceIsKept
    <2> QED
      BY <1>1, <1>6, <2>1, SavedIsKept DEF OffInv
  <1>8. AllGoDown'
    <2>1. SUFFICES ASSUME nmUp, NEW e \in Devices, nm[e].state = "activated",
                          nm[e].name # NoName, nm[e].name \in disabled
                   PROVE  \/ Stopped(calls'[e], nm[e].active)
                          \/ Told(cache[e], signals[e], nm[e].name, nm[e].active)
      BY <1>1, <1>6 DEF AllGoDown, GoesDown
    <2>2. CASE cache[e].name # nm[e].name
      BY <1>1, <2>2, OtherNameIsTold
    <2>3. CASE cache[e].name = nm[e].name
      <3>1. e \in D /\ enabled[e] = FALSE
        BY <1>4, <1>5, <2>1, <2>3
      <3>2. calls'[e] = calls[e] \o NoCalls[e] \o Request(e, FALSE, aps)
        BY <1>1, <2>1, <3>1 DEF DoEnable
      <3>3. calls[e] \in Seq(Call) /\ NoCalls[e] \in Seq(Call)
        BY DEF OffInv, TypeOK, NoCalls
      <3>4. Stopped(calls[e] \o NoCalls[e] \o Request(e, FALSE, aps), nm[e].active)
        BY <3>3, DoEnableStops
      <3> QED
        BY <3>2, <3>4
    <2> QED
      BY <2>2, <2>3
  <1> QED
    BY <1>1, <1>3, <1>7, <1>8 DEF OffInv, Apart, CacheCatchesUp, WhileDown, HasPath

LEMMA InitOff ==
  ASSUME Init
  PROVE  OffInv
  <1>1. TypeOK
    BY DeviceEnableAssumption, InitType
  <1>2. ChoiceIsKept
    <2>1. choice = [n \in Keys |-> TRUE] /\ file = {} /\ unsaved = {} /\ running = "down"
      BY DEF Init
    <2> QED
      BY <2>1 DEF ChoiceIsKept
  <1>3. Apart(nm) /\ Apart(cache)
    BY DeviceEnableAssumption DEF Init, Apart, Absent
  <1>4. HasPath
    BY DEF Init, HasPath, Snapshot
  <1>5. CacheCatchesUp /\ WhileDown /\ KnowsCache /\ AllGoDown
    BY DEF Init, CacheCatchesUp, WhileDown, KnowsCache, AllGoDown
  <1> QED
    BY <1>1, <1>2, <1>3, <1>4, <1>5 DEF OffInv

LEMMA StepKeepsOff ==
  ASSUME OffInv, [Next]_vars
  PROVE  OffInv'
  <1>1. TypeOK'
    BY StepType DEF OffInv
  <1>2. AccessPoints \subseteq BOOLEAN
    BY DEF AccessPoints
  <1>3. ASSUME NEW d \in Devices, Serve(d) \/ Finish(d) PROVE OffInv'
    BY <1>1, <1>3, ServeKeeps, FinishKeeps
  <1>4. ASSUME NEW d \in Devices,
               \/ ActivateElsewhere(d) \/ SwitchRadioElsewhere(d) \/ Unplug(d) \/ Plug(d)
               \/ Rename(d)
        PROVE  OffInv'
    BY <1>1, <1>4, EventKeeps
  <1>5. ASSUME NEW d \in Devices, NEW on \in BOOLEAN, NEW aps \in AccessPoints,
               EnableDevice(d, on, aps) \/ HandleSignal(d, aps)
        PROVE  OffInv'
    <2>1. aps \in BOOLEAN
      BY <1>2
    <2> QED
      BY <1>1, <1>5, <2>1, EnableKeeps, HandleSignalKeeps
  <1>6. ASSUME NEW d \in Devices, AirplaneAnswers(d) PROVE OffInv'
    BY <1>1, <1>6, AirplaneKeeps
  <1>7. ASSUME NEW aps \in AccessPoints, ToggleWirelessEnabled(aps) \/ InitService(aps)
        PROVE  OffInv'
    <2>1. aps \in BOOLEAN
      BY <1>2
    <2> QED
      BY <1>1, <1>7, <2>1, ToggleKeeps, InitServiceKeeps
  <1>8. CASE NmStop \/ NmStart
    BY <1>1, <1>8, NmRestartKeeps
  <1>9. CASE SeeRadio \/ Stop \/ Start
    BY <1>1, <1>9, RestartKeeps
  <1>10. CASE UNCHANGED vars
    <2>1. UNCHANGED <<nmUp, nm, signals, calls, running, registered, cache, known,
                      disabled, file, unsaved, choice>>
      BY <1>10 DEF vars, nmVars, serviceVars
    <2> QED
      BY <1>1, <2>1 DEF OffInv, ChoiceIsKept, Apart, CacheCatchesUp, WhileDown, KnowsCache, HasPath,
                        AllGoDown, GoesDown
  <1>11. TRUE \in BOOLEAN
    OBVIOUS
  <1> QED
    BY <1>3, <1>4, <1>5, <1>6, <1>7, <1>8, <1>9, <1>10, <1>11 DEF Next

\* A device that is up at rest would have a call or a signal on its way.
LEMMA OffAtRest ==
  ASSUME OffInv
  PROVE  DisabledIsOff
  <1>1. SUFFICES ASSUME NEW d \in Devices, Rested(d), ~choice[nm[d].name]
                 PROVE  nm[d].state = "disconnected"
    BY DEF DisabledIsOff
  <1>2. nm[d].state \in {"disconnected", "activated"} /\ nm[d].name \in Keys
    <2>1. nm[d] \in View /\ nm[d].name # NoName /\ nm[d].state # "preparing"
      BY <1>1 DEF OffInv, TypeOK, Rested
    <2>2. nm[d] \in Device
      BY <2>1 DEF View, Absent
    <2> QED
      BY <2>1, <2>2 DEF Device
  <1>3. CASE nm[d].state = "activated"
    <2>1. nm[d].name \in disabled
      BY <1>1, <1>2 DEF OffInv, ChoiceIsKept, Rested
    <2>2. \/ Stopped(calls[d], nm[d].active)
          \/ Told(cache[d], signals[d], nm[d].name, nm[d].active)
      BY <1>1, <1>3, <2>1 DEF OffInv, AllGoDown, GoesDown, Rested
    <2>3. calls[d] = <<>> /\ signals[d] = <<>>
      BY <1>1 DEF Rested
    <2>4. ~Stopped(<<>>, nm[d].active) /\ ~Told(cache[d], <<>>, nm[d].name, nm[d].active)
      BY DEF Stopped, Told
    <2> QED
      BY <2>2, <2>3, <2>4
  <1> QED
    BY <1>2, <1>3

\* A device whose name the user has switched off is not connected once all has come to
\* rest (networkthread.cpp, onDeviceStateChanged, disableDevice and init).
THEOREM SwitchedOffIsOff == Spec => []DisabledIsOff
  <1>1. Spec => []OffInv
    BY InitOff, StepKeepsOff, PTL DEF Spec
  <1>2. OffInv => DisabledIsOff
    BY OffAtRest
  <1> QED
    BY <1>1, <1>2, PTL

=============================================================================
