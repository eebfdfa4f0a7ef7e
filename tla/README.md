# A TLA+ model of dde-network-core

dde-network-core is the network part of the Deepin desktop. It drives
NetworkManager: a plug-in for a system service (root) and one for a session
service (the user), a library, and the panels of the dock, the control centre and
the login screen. This directory models the parts of the two services where
threads, callbacks, time-outs and other processes meet, checks them with TLC on
small instances, and proves the most important of what holds with TLAPS for every
value of the constants.

Source paths below are relative to the repository; `session/`, `system/` and
`accountnetwork/` stand for those directories of `network-service-plugin/src/`.

## 1. Inventory

### System service (`system/`)

| Part | State | Operations | Hard behaviour | Correct when |
|---|---|---|---|---|
| NetworkManager proxy, `nmaccess.cpp` | cache of devices and of the primary connection, behind a lock; all writes on the thread of NetworkManagerQt | refreshed by every signal of NetworkManager; emits `devicesChanged` only when the cache has changed | the cache is read by other threads; NetworkManager may vanish and come back | a reader never acts for good on a cache that is not current |
| **Device enabling**, `networkthread.cpp`, `networkenabledconfig.cpp`, `networkdbus.cpp` | enabled devices by interface name, in memory and in a file; devices and their states | `EnableDevice`, `ToggleWirelessEnabled`, `VpnEnabled`; devices that appear, vanish, are renamed or change state | renames, restarts of NetworkManager and of the service, a state that changes while it is handled | section 6 |
| **Connectivity**, `connectivitychecker.cpp`, `connectivityprober.cpp`, `connectivityprocesser.cpp` | connectivity, portal URL, generation of the probe, two timers and a counter | a check is asked for, a probe is sent to its own thread, its result comes back | three threads; stale results; checks merged within a second | section 5 |
| Internet switch, `internetchecker.cpp` | the candidates and the primary device | looks for a device through which the internet can be reached and prefers it | runs on a thread of its own, on copies of state | the device that is preferred has been found online |
| **IP conflicts**, `ipconflicthandler.cpp`, `systemipconfilct.cpp` (and `session/sessionipconfilct.cpp`) | conflicts by MAC address | a conflict is reported or resolved by a daemon; addresses change | signals repeated, partial and out of order | section 7 |
| First connections, `networkinitialization.cpp` | devices seen, time of the last creation, names | creates and translates wired connections | creation is asynchronous and must happen once per device | one connection per device |

### Session service (`session/`)

| Part | State | Operations | Hard behaviour | Correct when |
|---|---|---|---|---|
| **VPN DNS mode**, `vpndnsmode/` | per profile: generation, applied priority, rolled back; in the worker thread: a queue, the request in progress, its stage | profile or connection added, updated, removed; polkit, systemd-resolved and NetworkManager answer | two threads, four asynchronous peers, removals at any moment, rollbacks, a blocking destructor | section 3 |
| **Secret agent**, `networksecretagent.cpp`, `secretservice.cpp` | the calls of NetworkManager that wait, panels that listen, dialogs, the keyring | `GetSecrets`, `CancelGetSecrets`, `SaveSecrets`, `DeleteSecrets`; panels and dialogs answer; time-outs | answers late, twice or never; the keyring locked; the clock | section 4 |
| **State notifications**, `networkstatehandler.cpp` | devices, active connections, whether notifications are on | state changes, sleep and wake, airplane mode | timers that overlap, signals out of order | section 9 |
| Proxy, `networkproxy.cpp`, `networkproxychains.cpp` | values of the desktop's proxy settings | get, set, check | checks of input | values written are the ones accepted |
| **Portal page**, `desktopmonitor.cpp`, `sessioncontainer.cpp`, `urlhelper.cpp` | whether the desktop is ready | opens the login page of a network | the page may be known before there is a desktop | section 8 |

### Other parts

The account networks (`accountnetwork/`) remember the network of each user. The
panels share `net-view/operation`, whose interface thread and manager thread talk
by queued signals, and which also holds the secret agent of the greeter. `src/src`
is the library and `src/src-old` an earlier release of it. The rest is user
interface, examples, data and packaging. `PROJECT.json` lists every part with its
status and every hazard at its line.

### How they interact

NetworkManager, polkit, systemd-resolved, the keyring and the daemons are reached
by D-Bus: asynchronous calls whose answers may be late or never come, and signals.
Inside the services parts talk by Qt signals. Between objects of one thread they
are calls; between threads they are messages of a queue, in order for each pair of
objects, delivered when the receiver's thread is idle. The secret agent and the
panels are separate processes and talk through a local socket.

## 2. Plan

In order of importance, and of how little a test can reach:

| | Modules | Composes or refines | State |
|---|---|---|---|
| 1 | `VpnDnsWorker`, `VpnDnsMode`; abstract `VpnDnsRequests` | handler and worker; implements the abstract request pipeline | done |
| 2 | `SecretKeyring`, `SecretAgent` | agent, panels, dialogs and keyring | done |
| 3 | `Connectivity` | the checker, its prober and the copy others read | done |
| 4 | `DeviceEnable` | the enabled devices, their file, the proxy's cache, and a NetworkManager that restarts, renames and reconnects | done |
| 5 | `IPConflict` | the daemon, the store of the system service and the panel that warns | done |
| 6 | `Osd`, `StateHandler` | messages on WLAN and airplane mode, notifications, the copy of what is enabled | done |
| 7 | `PortalPage` | both desktop monitors, the timer, and the opening of the page | done |
| 8 | `InternetSwitch` | extends `Connectivity` with `InternetChecker` (off as shipped) and with the exchange of the two checkers. To check: a switch goes to a device that was found online, and checks and switches do not chase each other for ever | |
| 9 | `FirstConnection` | one connection for each device | |
| 10 | `PasswordPanel` | extends `SecretAgent` with the state of the panels and the greeter's own agent | |

A module is written to be proved about: constants with named assumptions, no
recursive operators, one action for each handler. A definition called `X_Slip` is `X`
with a mistake that is easy to make; no specification uses it, and it is what the
properties are tried against.

Every invariant and action property of a passing run is a theorem now. Theorems worth
proving next: what still holds where a run finds a violation, above all
`AppliedIsOnLink` for a request that no newer one overtakes, and `PortalIsOffered`
where no two networks have the same login page; `NewestDecides` with `LateSignals`, of
the profiles that do not signal late; and for each liveness property the invariant that says what is on its way as long as the goal is not reached.

## 3. VPN DNS mode

`VpnDnsWorker` is the worker's thread (`vpndnsmodeworker.cpp`, `vpndnsmodequeue.h`,
`vpndnsmodeapplytransaction.h`), with what polkit and systemd-resolved do to it.
`VpnDnsMode` extends it with the handler's thread (`vpndnsmodehandler.cpp`,
`vpndnsmodeapplystate.h`), the profiles and connections of NetworkManager and the
two channels between the threads.

| Model | Code |
|---|---|
| `pending`, `latest` | `VpnDnsModeRequestQueue` |
| `active`, `phase`, `invalidated`, `outcome` | the request in progress, its stage and transaction |
| `state[p]`: `gen`, `applied`, `hasApplied`, `rolledBack` | `VpnDnsModeApplyState` |
| `toWorker`, `toHandler` | queued invocations and the queued signal `applyFinished` |
| `link[a]` | what systemd-resolved holds for the tunnel of a connection: three parts, one for each call |
| `writes`, `unread` | updates of profiles NetworkManager has not answered, signals the handler has not received |

Each action is one event of one event loop, with all that runs before the loop is
entered again. A removal, a new request, an answer or the destructor may come
between any two. Calls fail with one of two errors, in any stage, the revert too.

The properties, beyond the types:

- `PendingIsNewest`, `CounterAhead`: requests of a profile merge to the newest, and
  the filter for old requests never refuses a live one.
- `GoneIsForgotten`: of a connection that is known to be gone nothing goes on that was
  asked for before. The exception is in the code: an `ip4ConfigChanged` that arrives
  after its profile was removed makes a request, and nothing in the handler
  (`vpndnsmodehandler.cpp:296`, `:342`) tells it from any other, so that it is carried
  out. `late` has the numbers of these requests, and the property lets them pass and no
  other.
- `ActiveHasCall`: a request in progress always waits for an answer.
- `SuccessIsOnLink`, `FailureLeavesLinkWhole`: what is reported agrees with what
  systemd-resolved holds, over failures in the middle of a chain and reverts.
- `NewestDecides`: only the answer to the newest request changes what the handler
  believes. It holds as long as no signal of a removed profile arrives late: such a
  signal creates the state of the profile again, from generation 0, so that an old
  answer may be taken for a new one (`vpndnsmodehandler.cpp:258`).
- `ImplementsRequests`: the pair implements `VpnDnsRequests`. Requests run alone,
  in order, at most once; each ends with one answer, or with none once called off.
- `Settles`, `ShutdownCompletes`: rollbacks, each of which signals its profile
  again, come to rest, and the destructor's blocking call returns.

| Run | Question | Bounds |
|---|---|---|
| `vpn_dns_coalesce` | requests that overtake each other, a profile that is removed at any moment; liveness | 1 profile, 1 activation, 1 edit, 2 configurations: enough for one request to run, one to wait and a third to replace it |
| `vpn_dns_shared` | two profiles behind one worker, with signals of profiles that were removed; the refinement, and what goes on for a connection that is gone | 2 profiles, 1 activation each, 2 configurations |
| `vpn_dns_applied` | violated: see section 10 | 1 profile |

A defect in the pipeline needs one request in progress, one that waits and one that
arrives, of one connection or of two, and a removal: the bounds have all of these at
once. Edits and late configurations are the only unbounded inputs, counted by
`MaxEdits` and `MaxIp4`.

**Fairness.** `FairSpec` asks weak fairness of the worker's event loop and its
answers, of the handler's reading of answers and `Updated` signals, and of
NetworkManager's answers to updates. D-Bus justifies it: `asyncCall` ends every call, with
an error when the time-out is over, so the check by polkit ends even if its dialog
stays open. Nothing is asked of the user, of profiles or of connections.

## 4. Secret agent

`SecretKeyring` is the agent's view of the keyring (`secretservice.cpp`): one item
for each profile, locked or not. `SecretAgent` is the agent with its panels, dialogs
and NetworkManager.

| Model | Code |
|---|---|
| `request[id]`, `status[id]` | `m_calls`, in the order of arrival; `"End"` and `"TimedOut"` are calls that have left the list |
| `timers`, `near`, `ahead` | the `singleShot` timer of each call; the calls a coarse timer finds a second early; those whose time lies ahead of the clock |
| `clients`, `down`, `up`, `waitTimer` | panels, the two directions of each socket, the timer for panels that connect |
| `task[c]` | the call a panel asks about |
| `replies[id]` | what NetworkManager has received for a call: at most one is possible only if the code never replies twice |
| `typed[id]` | what users have typed for a call, a history variable |
| `written`, `lost` | the call whose secret `setData` has written and `getAll` is yet to read; history: the calls whose secret could not be written |

The kinds of request are `"wireless"` (panels), `"wired"`, `"pppoe"` and `"vpn"` (the
password dialog), `"openconnect"` (the dialog of the VPN plug-in). A request has one
secret. Messages and output arrive whole. NetworkManager passes only secrets that are
system owned and serialises the calls for one profile. The clock may be set back by
more than the time-out, never forward.

A secret for an agent-owned profile takes two steps, as in the code: `DoSecretsResult`
writes it, `ReadBack` reads the keyring again and sends what it finds there, or what
was typed where it finds nothing. Both are D-Bus calls that block the thread: in
between the agent handles nothing (`Idle`), but NetworkManager, the panels and whoever
locks the keyring go on. A write fails when the keyring is locked and whenever the
secret service says so, and the code does not look (`networksecretagent.cpp:513`).

- `ExactlyOnce`: a call is answered once, and it is held until then.
- `NoneLeftBehind`: a call that is held has a timer that will take it out. The
  exception is in the code: time-outs compare wall-clock times (`:152`), and a call
  that waits while the clock is set back stays for good.
- `TypedIsSent`: what is typed reaches NetworkManager. The exception is in the code:
  where the write fails and the keyring has an older secret that can be read, that one
  is sent in place of the typed one. Nothing in the repository says otherwise, so it is
  an exception of the property (`lost`) and no finding.
- `TypedIsKept`: what is sent after it was typed for an agent-owned profile is what the
  keyring holds; only where the write failed, and the keyring shows nothing, is it not.
- `SavedIsReturned`: what the keyring holds is returned afterwards.

The run `secret_calls` has two connections, one that is asked for at panels or at a
dialog and one of a VPN plug-in. Its constraint `OneNetwork` takes one of the two at a
time, since calls for different profiles meet only in the list, which the identifiers
already tell apart; with the plug-in's dialog there is no panel and nothing is edited;
with the other the clock is not set, and once a panel has quit or the profile was saved
the keyring is unlocked and what was typed could be written. Two calls are what a wrong answer needs: the one
it is for and the one it hits; one panel, one quit or edit, two secrets. Secrets are
symmetric. No deadlock is allowed: the environment can always act.

Two of the properties say nothing of a VPN of kind `"vpn"`, for which they do not
hold: a password that was saved while its dialog was open replaces the one typed
(`networksecretagent.cpp:478`), and without a secret in the request the keyring is not
read (`:662`). They name that kind, so that the theorems need no assumption on kinds.

## 5. Connectivity

`Connectivity` is `connectivitychecker.cpp` and `connectivityprober.cpp`: the checker
in the thread of NetworkManagerQt, the prober in its own, and the plug-in's thread
between them, through which probes and results pass both ways and which keeps the
copy that everybody reads.

| Model | Code |
|---|---|
| `connectivity`, `portalUrl`, `generation` | `StatusChecker` |
| `polling`, `checkCount` | `m_timer` (every 2 s) and the 8 ticks it counts: `Polls` |
| `debouncing`, `pendingCheck` | `m_pendingCheckTimer` (1 s) |
| `CheckTimerFires`, `CheckTimerMeetsCheck` | `m_checkTimer`, which runs from the first `setConnectivity` on, at rest and during another check |
| `cached`, `cachedUrl`, `urlPrimary` | `LocalConnectionvityChecker` |
| `toPlugin`, `toProber`, `toChecker` | queued calls, one queue for each receiving thread |
| `web`, `devices`, `primary` | what a request would get now; the cache of `NetworkManagerProxy` |
| `unprobed` | history: the web has changed without a signal since the last probe |

Timers fire at any time while they run. The periodic check has two actions: its
interval is 30 s or 150 s and a request ends after 10 s, so that it comes when all is at
rest, without bound (`CheckTimerFires`); but other checks do not restart its timer, so
that it may also come while one of those is under way, as often as `MaxChanges` allows
(`CheckTimerMeetsCheck`). The cache of the proxy is written in the checker's thread, by the step that signals it.
What NetworkManager says and what the web answers are independent: NetworkManager
may restart below a link that works.

- `UrlWithPortal`, `CacheFollows`: the two announcements, of which one is always
  made and the other on change only, add up to what the checker has.
- `RestedIsRight`: at rest, what everybody reads is the truth, unless the web changed
  without a signal. A change that is lost in the debounce, a result that is overtaken
  and decides, a tick that stops the timer too early: each would break it.
- `EventuallyRight`: changes without a signal are noticed too.
- `PortalIsOffered`: where a login is needed its page is offered. Violated.

| Run | Question | Bounds |
|---|---|---|
| `connectivity_checks` | the network changes while all is under way; liveness | 2 changes or periodic checks, 2 probes under way, 1 counted tick |
| `connectivity_portal` | violated: see section 10 | 1 change |

Two probes under way are what it takes for one to overtake the other, two changes for
one to come in the middle of what the other has started; `MaxProbes` bounds the
generations under way, and is assumed to be no larger than `Generations`, which is
2^64 in the code. Eight ticks do what one does, eight times.

**Fairness.** Weak fairness of the event loops, the timers and the prober: every
request ends, by its time-out if nothing else. None of the network.

## 6. Device enabling

`DeviceEnable` is `networkthread.cpp` with `networkenabledconfig.cpp`, the cache of
devices it reads (`nmaccess.cpp`), and NetworkManager as the service uses it.

| Model | Code |
|---|---|
| `disabled`, `file` | `NetworkEnabledConfig`: the map, and the file that is written with each change (`SaveConfig`) |
| `unsaved` | history: the names for which the file, because it could not be written, does not have the setting of the map |
| `known` | `m_devices` and `m_deviceStates`: what the thread has seen of each device |
| `cache`, `radioSeen` | `NetworkManagerProxy`: the copy that is refreshed by signals |
| `calls`, `signals` | D-Bus, in both directions, in order for each device |
| `missed` | `m_count`: lists of access points that were empty |
| `running`, `registered` | the process, and the call of `init` that follows an owner |
| `choice` | history: what the user has chosen for each name, as long as it is not lost |

An action is a D-Bus method, one signal with all it sets off in the thread, or a step
of NetworkManager. NetworkManager and the service stop and start at any moment, and
between two handlers devices are plugged, renamed, connected by others, or lose their
name. NetworkManager may refuse what it is asked. The file may not be writable, which
nobody looks at (`networkthread.cpp:287`): a choice that could not be saved holds until
the service stops, and then what the file has is the choice (`Stop`); any later save
writes it too.

- `DisabledIsOff`: at rest, a device whose name is switched off is not connected,
  whoever connected it and whatever started anew or could not be saved meanwhile.
- `SwitchedOffStaysOff`: and it gets there. Fairness: NetworkManager serves calls and
  ends activations, the service handles signals, and both are started again; users,
  other clients and devices need not act.
- `RenameMigrates`: violated by `device_rename`, see section 10.

`device_enable` has one wireless device, two names and up to three inputs (a choice,
a restart, a rename, another client, a switch of the radio): the interleavings that
matter are of one choice with a restart and a connection by someone else. A save may
fail as long as an input is left: what the file has matters only to a restart, which is
one. The limit
of empty lists is 1 instead of 2. A second device adds nothing but its own queue: the
thread handles devices one by one, by name. The action property needs only a wired
device.

Not in the model: `VpnEnabled`; which connection is activated, and its record;
`Device.Autoconnect`; a torn write of the file.

## 7. IP conflicts

`IPConflict` is the store of conflicts in the system service
(`ipconflicthandler.cpp`, `systemipconfilct.cpp`), the daemon that reports to it, and
the warning in the panels' library (`src/src`). The panel follows two sources that
are not synchronised: the devices of NetworkManager and the signals of the service.

| Model | Code |
|---|---|
| `nm`, `cache` | the devices; the service's copy of them, `m_lastIpv4` included |
| `store` | `m_conflictData`, by hardware address |
| `wire`, `toPanel` | reports on their way to the service, signals on their way to the panel |
| `panel`, `warning` | the panel's devices by path, and `m_ipConflicted` |
| `reconnect` | devices whose connection is to be brought up anew |

A device that is plugged in again has a new path and the old hardware address, so
that the store may outlive what the panel knows; a service that restarts has lost the
store, and what was reported while it was down.

- `WarningIsReal`: a panel that has read all signals and knows the device by the
  path the service has for it warns only where the store has a conflict.
- `WarningGoes`: when the daemon has resolved all conflicts of a device, its warning
  goes for good. This needs that the device is not plugged in anew: a resolution is
  ignored while the device is away, and its conflict is shown again afterwards.

`ip_conflict`: one device, two addresses, one other host, three inputs: two conflicts
at once, and a change of address, an unplug or a restart between them. Fairness: the
service, the panel and the bus go on and the service is started again. The theorems
hold for any number of devices.

Seen while modelling, and in no property: `updateIpv4` announces that a dropped
address is free of conflicts while another is not, which hides the warning (the
consumer ignores the address); a conflict of a device the service does not know yet is
lost; with `reconnectIfIpConflicted` each change of address makes the next conflict
the first again (`ipconflicthandler.cpp:222`).

## 8. Portal page

`PortalPage` is `desktopmonitor.cpp` with the opening of the page
(`sessioncontainer.cpp`, `urlhelper.cpp`). The session manager and `DISPLAY` come at
times of their own; registrations and logouts wait in the event queue (`toMonitor`),
`PortalDetected` signals in `toSession`. At the start the session manager is asked for
before the watcher for it is set up: one that registers in between is missed (`Start`).
`timer` counts the checks of `m_timer`,
`prepare`, `environment` and `checked` are the fields of the monitor.

- `EnteredIfPrepared`: the session has been told of the desktop exactly as long as
  `prepared()` says so.
- `ChecksSuffice`: a timer that runs ends with the desktop entered, unless the session
  manager ends before. Fairness: the event loop and the timer.
- `PageIsOpened`: violated by `portal_login`, see section 10. Here, as everywhere in the
  module, pages are opened by themselves, which takes `portalProcessMode` `"open"`; the
  value that is shipped is `"promp"`.

`portal_page` has two portals, four checks instead of 20 (each does the same but the
last) and six inputs; `portal_login` two checks and three inputs. `DISPLAY`, once
set, stays; the system service does not restart.

Seen while modelling: the end of a portal is signalled with an empty URL, which is
opened as well; a registration with an empty `DISPLAY` found by the second query
starts no timer, so that the desktop is never entered; a registration while the timer
runs makes `desktopChanged(true)` come twice.

## 9. State notifications

`Osd` is the part of `networkstatehandler.cpp` that shows messages on WLAN and
airplane mode, with its two timers in ticks. `StateHandler` extends it with the
notifications on VPNs, sleep and wake, and the copy of which devices are enabled.

| Model | Code |
|---|---|
| `delayTimer`, `resetTimer`, `osdEnable`, `wifiEnabled` | `m_delayShowWifiOSD`, `m_resetWifiOSDEnableTimer`, `m_wifiOSDEnable`, `m_wifiEnabled` |
| `connections` | `m_activeConnections`, with `vpnState` and `vpnFailed`, which no constructor sets: they start with any value |
| `notify`, `wakeTimers` | `m_notifyEnabled`, the timers that set it after waking |
| `devices`, `queries`, `relay`, `wire` | the copy, `IsDeviceEnabled` calls that are not answered, and the two ways to it: signals pass through one more thread than answers |
| `notices`, `heard` | history: what the user was told, what the daemon has sent |

- `AirplaneHidesWlan`: a message on WLAN is shown only for what the user did to WLAN.
- `NoticesInOrder`: of one activation the user hears that it has connected, or not,
  and then at most once how it ended.
- `EnabledFollows`: at rest the copy agrees with the device service, for the devices it
  serves. A device whose interface loses its name is served no longer, and its setting is
  removed without a signal (`ServiceLosesName`, `networkthread.cpp:158`, `:250`); a query
  about one that the service has and does not serve yet may be answered with the default.

`state_handler`: one VPN, one device, four inputs, delays of 2 and 3 ticks with
signals one tick apart. Since the three parts write no variable in common, the
constraint `OneAtATime` explores one of them at a time; the theorems hold for all
parts at once, any numbers and any delays with `Skew < Delay < Reset`.

Seen while modelling: with the fields that are not initialised
(`networkstatehandler.cpp:255`) a real end or connection of a VPN may stay untold; the
timer that enables notifications after waking goes on into the next sleep (`:901`).
Not in the model: the table in `onStateChanged` that says which change of a device is
told, whether the session is active or remote, which notification the next replaces.

## 10. What does not hold

Four runs are expected to find a violation; each is a place where the code does not
do what its own comments say (`findings` in `PROJECT.json` quotes them).

- `vpn_dns_applied`: the success of a request that a newer one has overtaken is
  dropped, and when the newer one fails the rollback goes to an older priority than
  the one on the link.
- `connectivity_portal`: a login page that is the same in two networks is recorded for
  the first, and not offered in the second.
- `device_rename`: a renamed interface gets the setting of its new name, not that of
  the old one.
- `portal_login`: a portal that was there before the desktop is asked for under a bus
  name nobody has (`sessioncontainer.cpp:53`), so its page is not opened. The same name
  is asked at `:118`, where a check after a change of the proxy is lost.

## 11. Proofs

`VpnDnsMode_proofs`: `TypeCorrect`, the type invariant. Besides the ranges it holds
that at most one request is in progress and that messages are records of their kind;
the channels are sequences of records, so each handler's messages are typed by lemmas
on `Append`, `Head` and `Tail`. The invariant `Chain` says what the stage under way
tells of the request and of its link: what was written so far, and why the link is
being reverted. From it follow `CallIsOutstanding` (`ActiveHasCall`), `SuccessOnLink`
(`SuccessIsOnLink`) and `FailureWhole` (`FailureLeavesLinkWhole`).

`VpnDnsRequests_proofs`: `Implements`, the refinement of section 3. `VpnDnsRequests`
numbers the requests in the order they are made, and takes the oldest; that it can is
not visible in any single channel. The invariant `Pipeline` says: unread answers,
the request in progress, the queue and the requests on their way, in this sequence,
carry increasing numbers, none above `issued`, and a stop message is the last of its
channel. Each action maps to one step of the abstract module or to a stutter: a
received request to `Drop` (of those it replaces), `StartNextRequest` to `Start` or
`Refuse`, the end of a chain to `End`, the destructor to `Disconnect`.
`PipelineHolds` is the invariant, `Implements` the theorem. Three more invariants rest
on it.

- `LatestWaits`, what waits is what was seen last of its profile, gives `NewestWaits`
  (`PendingIsNewest`).
- `Counted` compares generations, of the profiles that were not removed: every request
  and every answer, wherever it is, is at most at the handler's counter, and the
  requests on their way are in order and above what the worker has seen. It gives
  `CounterIsAhead` (`CounterAhead`). With `CurrentIsNewest` (the generation in force
  is that of the newest request) it gives `NewestAnswerDecides` (`NewestDecides`).
- `Departed` says of a connection that is gone, or whose profile is, that the worker
  has nothing left to do for it but what `late` holds, or that the message that tells it
  is on its way and behind the last other request for it. It gives `GoneStaysForgotten`
  (`GoneIsForgotten`), with signals of removed profiles and without.

Only `NewestAnswerDecides` assumes `LateSignals = FALSE`: a connection that still
signals after its profile was removed makes a request with a generation that starts
again at one.

`SecretAgent_proofs`: `TypeCorrect`; `AnswersExactlyOnce` (`ExactlyOnce`): `StepKinds`
classifies every step by what it does to the calls (none, one new, one answered, one
dropped), and `AnsweredOnce` follows for each kind; `CallsTimeOut`
(`NoneLeftBehind`): the invariant `TimerRuns` adds that every held call has its timer
or was held when the clock was set back, and that the first call found expired is the
smallest (`FirstIsSmallest`). `SentInv` is for what has been typed: a message of a
panel carries what was typed for the call it names; only calls that have been made are
shown, at panels only those for a wireless network; what is typed in a plug-in's
dialog ends its call; and a call that was answered with something else was not, and
will not be, on show. `WrittenInv` is for what lies between the write and the read: it
was typed for this call, and the keyring holds it or it is lost. The two give
`SendsWhatIsTyped` (`TypedIsSent`). `SavedComesBack` and `TypedStays`
(`SavedIsReturned`, `TypedIsKept`) are action properties: they follow from `TypeOK`,
`AnsweredOnce`, `WrittenInv` and the steps that answer, at once, from a dialog or after
the read.

`Connectivity_proofs`: `TypeCorrect`, `UrlNeedsPortal` (`UrlWithPortal`) and
`CacheIsCurrent` (`CacheFollows`). The three together are inductive: the first guess
of `initDefaultConnectivity` never concerns a portal because no page is kept where no
login is needed. `Follows` says what a reader of a queue will have; lemmas say what
sending and reading do to it, and `StartCheckStep`, `DefaultStep` and `DecideStep`
what the parts of the checker's actions do.

`RestTellsTheTruth` (`RestedIsRight`) rests on two more invariants. `InOrder`: the
probes under way are the last ones that were started, the results in the checker's
queue older than those in the plug-in's, these older than what the prober has and that
older than the orders; their number bounds their age, so no two of them have the same
generation although generations wrap around. Hence the result of the newest probe is
the last one read. `WillBeRight`: something will still bring the truth (the poll timer,
the check that is due, the newest probe or its result with the right answer), the web
has changed without a signal, or the checker has the result of the newest probe and it
is right. At rest only the last is left, and `CacheIsCurrent` carries it to the copy.

`DeviceEnable_proofs`: `TypeCorrect`, with the bound on `missed`, which holds because
every path that passes the limit resets it; and `SwitchedOffIsOff` (`DisabledIsOff`),
for any devices, names and restarts. Its invariant `OffInv` says what takes a device
down that is up although its name is switched off: a call on its way (`Stopped`: a
disconnect, the radio, or a deactivation of this very activation) or a signal on its
way to which the service will answer with such a call (`Told`: the device gets this
name, or the activation succeeds). It does not matter that other calls, an activation
among them, or other signals come first. For this the map, and while the service does
not run the file, has to hold the user's choice, and `unsaved` has to be where the two
differ (`ChoiceIsKept`); the cache has to be what NetworkManager has once all
signals are read (`CacheCatchesUp`), the thread has to know what the cache holds
(`KnowsCache`), and no name may belong to two devices (`Apart`). A device that is
named otherwise in the cache has a signal on its way that tells its name
(`NameIsTold`, by the first of the signals with this name). While the service is
down, starting or about to run `init` again, nothing is claimed: `InitServiceKeeps`
shows that `init` makes the calls that are missing then.

`IPConflict_proofs`: `TypeCorrect`, by way of `Placed` (a device has a path exactly as
long as it is there), and `WarningHasConflict` (`WarningIsReal`). A device is
`Settled` under a path when a signal that takes the warning back is on its way with
no warning behind it, or when there is neither a warning nor one on its way. The
invariant has every device without conflicts settled (`KnownSettled`), and every
device whose new path the service has not seen (`NewSettled`), which is what a change
of path leads to; `Owned` and `Fresh` keep warnings of one device from those of
another, and of an earlier path.

`PortalPage_proofs`: `TypeCorrect` and `DesktopFollows` (`EnteredIfPrepared`). The
invariant adds that the monitor has an environment only with a `DISPLAY`, and what the
fields are where no timer runs.

`StateHandler_proofs`: `TypeCorrect`; `WlanIsHidden` (`AirplaneHidesWlan`), from an
invariant that ties the two timers to the signals of the daemon that are to come;
`HandlerFollows` (`EnabledFollows`): the last news on the way to the handler, or else
its copy, is what the service has, unless a query is waiting; `NoticesMakeSense`
(`NoticesInOrder`): states of a VPN have ranks, and what is on the way never goes
back.

The proofs assume only the named assumptions on the constants (`KindAssumption`,
`CallBoundsAssumption`, `OsdAssumption`, `IPConflictAssumption` and the others), which
TLC evaluates on every run, and `LateSignals = FALSE` where a theorem says so.

Only checked by TLC: the liveness properties (`Settles`, `ShutdownCompletes`,
`EventuallyRight`, `SwitchedOffStaysOff`, `WarningGoes` and `ChecksSuffice`), since the
prover has neither fairness nor `ENABLED`; and what is violated.

## 12. What is not modelled

The parts that `PROJECT.json` lists as `not_modelled`, each with its reason: user
interface, data, and what later modules of the plan take up. Inside the modelled
parts, beyond what their sections name: the content of lists of servers, the wording
of messages and labels, more than one secret in a request, messages in pieces, a
secret service that appears after the session has started, the destructor of the
connectivity checker, and the copy of the conflicts in the session service.
