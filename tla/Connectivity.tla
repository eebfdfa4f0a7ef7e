----------------------------- MODULE Connectivity -----------------------------
(***************************************************************************)
(* How the system service finds out whether the internet can be reached     *)
(* (system/connectivitychecker.cpp, connectivityprober.cpp).                 *)
(*                                                                         *)
(* Three threads take part.  StatusChecker lives in the thread of            *)
(* NetworkManagerQt, reads its cache and decides when to check and what a    *)
(* result means.  ConnectivityProber blocks in HTTP requests in a thread of  *)
(* its own.  LocalConnectionvityChecker, in the thread of the plug-in,        *)
(* passes probes and results on between the two and keeps the copy of        *)
(* connectivity and portal URL that everybody reads.  The threads talk by    *)
(* queued calls: one queue for each receiver.                                *)
(*                                                                         *)
(* This is the configuration as it is shipped, with needCheckNetwork off:    *)
(* there is no InternetChecker, the one reader of primaryConnectionChanged,  *)
(* which therefore is left out.  Of the devices only what the checker counts *)
(* is kept, and the timers fire at any time while they run.                  *)
(***************************************************************************)
EXTENDS Naturals, Sequences, FiniteSets

CONSTANTS
  Conns,         \* active connections that may be the primary one
  NoConn,        \* no primary connection
  Urls,          \* login pages of portals
  NoUrl,         \* no login page
  Polls,         \* ticks counted before the polling timer stops: 8 in the code
  Generations,   \* the number of different generations: 2^64 in the code
  MaxProbes,     \* bound: probes under way at the same time
  MaxChanges     \* bound: how often the network changes, a check is asked for, or the
                 \* timer of regular checks fires during another check

ASSUME NoneAssumption == NoConn \notin Conns /\ NoUrl \notin Urls
ASSUME AnswersAssumption == Urls \cap {"ok", "unreachable"} = {}
ASSUME CountsAssumption ==
  /\ Polls \in Nat /\ MaxProbes \in Nat \ {0} /\ MaxChanges \in Nat
  /\ Generations \in Nat \ {0} /\ MaxProbes <= Generations

VARIABLES
  (* the network *)
  web,           \* what an HTTP request gets now: a page, a login page or nothing
  devices,       \* the devices in the cache of NetworkManagerProxy, by their states
  primary,       \* the primary connection in that cache
  changes,       \* counter for the bound
  unprobed,      \* history: web has changed and no probe was started since
  (* StatusChecker *)
  started,       \* initConnectivityChecker has run
  connectivity,  \* m_connectivity
  portalUrl,     \* m_portalUrl
  generation,    \* m_probeGeneration
  polling,       \* m_timer runs
  checkCount,    \* m_checkCount
  debouncing,    \* m_pendingCheckTimer runs
  pendingCheck,  \* m_pendingCheck
  (* LocalConnectionvityChecker *)
  cached,        \* m_connectivity
  cachedUrl,     \* m_portalUrl
  urlPrimary,    \* m_portalPrimaryId
  (* queued calls to the plug-in's, the prober's and StatusChecker's thread *)
  toPlugin, toProber, toChecker

network     == <<web, devices, primary, changes>>
checkerVars == <<started, connectivity, portalUrl, generation, polling, checkCount,
                 debouncing, pendingCheck>>
localVars   == <<cached, cachedUrl, urlPrimary>>
queues      == <<toPlugin, toProber, toChecker>>
vars        == <<network, unprobed, checkerVars, localVars, queues>>

-----------------------------------------------------------------------------
Answers == {"ok", "unreachable"} \cup Urls
\* No device; all of them disconnected; none connected, some on the way; one connected.
DeviceStates == {"none", "down", "connecting", "up"}
Levels == {"Unknown", "None", "Limited", "Portal", "Full"}
GenerationIds == 0..(Generations - 1)

UrlOf(answer) == IF answer \in Urls THEN answer ELSE NoUrl

\* What onProbeResult makes of an answer: without one the devices decide, and no
\* device at all counts as all of them disconnected.
Judged(answer, devs) ==
  CASE answer = "ok" -> "Full"
    [] answer \in Urls -> "Portal"
    [] OTHER -> IF devs \in {"none", "down"} THEN "None" ELSE "Limited"

ConnectivityNews(c) == [kind |-> "connectivity", now |-> c]
PortalNews(url) == [kind |-> "portal", now |-> url]
ProbeOrder(gen) == [kind |-> "probe", gen |-> gen]
ProbeResult(gen, answer) == [kind |-> "result", gen |-> gen, answer |-> answer]

PluginMessage ==
  [kind: {"connectivity"}, now: Levels] \cup [kind: {"portal"}, now: Urls \cup {NoUrl}]
    \cup [kind: {"probe"}, gen: GenerationIds]
    \cup [kind: {"result"}, gen: GenerationIds, answer: Answers]

TypeOK ==
  /\ web \in Answers /\ devices \in DeviceStates /\ primary \in Conns \cup {NoConn}
  /\ changes \in Nat /\ unprobed \in BOOLEAN
  /\ started \in BOOLEAN /\ connectivity \in Levels /\ portalUrl \in Urls \cup {NoUrl}
  /\ generation \in GenerationIds /\ polling \in BOOLEAN /\ checkCount \in 0..Polls
  /\ debouncing \in BOOLEAN /\ pendingCheck \in BOOLEAN
  /\ cached \in Levels /\ cachedUrl \in Urls \cup {NoUrl}
  /\ urlPrimary \in Conns \cup {NoConn}
  /\ toPlugin \in Seq(PluginMessage)
  /\ toProber \in Seq([kind: {"probe"}, gen: GenerationIds])
  /\ toChecker \in Seq([kind: {"result"}, gen: GenerationIds, answer: Answers])

\* The network may be in any state: NetworkManager's view and what the web answers
\* do not have to agree, as when NetworkManager restarts below a working link.
Init ==
  /\ web \in Answers /\ devices \in DeviceStates /\ primary \in Conns \cup {NoConn}
  /\ changes = 0 /\ unprobed = FALSE
  /\ started = FALSE /\ connectivity = "Unknown" /\ portalUrl = NoUrl
  /\ generation = 0 /\ polling = FALSE /\ checkCount = 0
  /\ debouncing = FALSE /\ pendingCheck = FALSE
  /\ cached = "Unknown" /\ cachedUrl = NoUrl /\ urlPrimary = NoConn
  /\ toPlugin = <<>> /\ toProber = <<>> /\ toChecker = <<>>

-----------------------------------------------------------------------------
(* StatusChecker: starting checks *)

\* The generations of the messages of a kind in a queue.
Gens(q, kind) == {q[i].gen : i \in {n \in 1..Len(q) : q[n].kind = kind}}

\* The probes under way, from the request of one to its result.
UnderWay ==
  Gens(toPlugin, "probe") \cup Gens(toProber, "probe")
    \cup Gens(toPlugin, "result") \cup Gens(toChecker, "result")
Outstanding == Cardinality(UnderWay)

\* startProbeCheck, with the messages to the plug-in that precede the request.
StartProbeCheck(before) ==
  /\ Outstanding < MaxProbes
  /\ generation' = (generation + 1) % Generations
  /\ toPlugin' = Append(before, ProbeOrder((generation + 1) % Generations))
  /\ unprobed' = FALSE

\* A check that comes while the debounce timer runs is left for its end.
StartCheck_Dropped(before) ==
  \/ /\ ~debouncing
     /\ StartProbeCheck(before)
     /\ debouncing' = TRUE /\ pendingCheck' = FALSE
  \/ /\ debouncing
     /\ toPlugin' = before
     /\ UNCHANGED <<generation, unprobed, debouncing, pendingCheck>>

StartCheck(before) ==
  \/ /\ ~debouncing
     /\ StartProbeCheck(before)
     /\ debouncing' = TRUE /\ pendingCheck' = FALSE
  \/ /\ debouncing
     /\ pendingCheck' = TRUE /\ toPlugin' = before
     /\ UNCHANGED <<generation, unprobed, debouncing>>

\* initDefaultConnectivity: a first guess where nothing is known to be wrong.
Guesses == connectivity \in {"None", "Unknown"} /\ devices \in {"up", "down"}
DefaultConnectivity ==
  IF ~Guesses THEN connectivity ELSE IF devices = "up" THEN "Full" ELSE "None"
DefaultNews ==
  IF Guesses THEN Append(toPlugin, ConnectivityNews(DefaultConnectivity)) ELSE toPlugin

InitConnectivityChecker ==
  /\ ~started /\ started' = TRUE
  /\ connectivity' = DefaultConnectivity
  /\ StartCheck(DefaultNews)
  /\ UNCHANGED <<network, portalUrl, polling, checkCount, localVars, toProber, toChecker>>

\* checkConnectivity: a check somebody has asked for over D-Bus.
CheckConnectivity ==
  /\ started /\ changes < MaxChanges /\ changes' = changes + 1
  /\ checkCount' = 0
  /\ connectivity' = DefaultConnectivity
  /\ \/ polling /\ StartCheck(DefaultNews) /\ UNCHANGED polling
     \/ /\ ~polling /\ polling' = TRUE
        /\ toPlugin' = DefaultNews
        /\ UNCHANGED <<generation, unprobed, debouncing, pendingCheck>>
  /\ UNCHANGED <<web, devices, primary, started, portalUrl, localVars, toProber, toChecker>>

\* The slots of m_timer: it stops after its last check.
PollTimerFires_OneMore ==
  /\ polling
  /\ StartCheck(toPlugin)
  /\ IF checkCount > Polls
     THEN polling' = FALSE /\ checkCount' = 0
     ELSE checkCount' = checkCount + 1 /\ UNCHANGED polling
  /\ UNCHANGED <<network, started, connectivity, portalUrl, localVars, toProber, toChecker>>

PollTimerFires ==
  /\ polling
  /\ StartCheck(toPlugin)
  /\ IF checkCount >= Polls
     THEN polling' = FALSE /\ checkCount' = 0
     ELSE checkCount' = checkCount + 1 /\ UNCHANGED polling
  /\ UNCHANGED <<network, started, connectivity, portalUrl, localVars, toProber, toChecker>>

DebounceTimerFires ==
  /\ debouncing /\ debouncing' = FALSE
  /\ pendingCheck' = FALSE
  /\ \/ pendingCheck /\ StartProbeCheck(toPlugin)
     \/ ~pendingCheck /\ UNCHANGED <<toPlugin, generation, unprobed>>
  /\ UNCHANGED <<network, started, connectivity, portalUrl, polling, checkCount,
                 localVars, toProber, toChecker>>

CheckTimerFires_SkipsWhenFull ==
  /\ connectivity # "Unknown" /\ Outstanding = 0 /\ ~debouncing
  /\ \/ connectivity # "Full" /\ StartCheck(toPlugin)
     \/ /\ connectivity = "Full" /\ debouncing' = TRUE
        /\ UNCHANGED <<toPlugin, generation, unprobed, pendingCheck>>
  /\ UNCHANGED <<network, started, connectivity, portalUrl, polling, checkCount,
                 localVars, toProber, toChecker>>

\* m_checkTimer runs from the first setConnectivity on.  Its interval, 30 s at least,
\* is longer than a probe, whose requests end after 10 s, and than the debounce: what it
\* started itself has ended as it fires again.
CheckTimerFires ==
  /\ connectivity # "Unknown" /\ Outstanding = 0 /\ ~debouncing
  /\ StartCheck(toPlugin)
  /\ UNCHANGED <<network, started, connectivity, portalUrl, polling, checkCount,
                 localVars, toProber, toChecker>>

Change == changes < MaxChanges /\ changes' = changes + 1

\* No other check restarts m_checkTimer: it may fire while one of those is under way.
CheckTimerMeetsCheck ==
  /\ connectivity # "Unknown" /\ (Outstanding > 0 \/ debouncing)
  /\ Change
  /\ StartCheck(toPlugin)
  /\ UNCHANGED <<web, devices, primary, started, connectivity, portalUrl, polling, checkCount,
                 localVars, toProber, toChecker>>

-----------------------------------------------------------------------------
(* StatusChecker: changes of the network and results *)

OnDevicesChanged(d, w) ==
  /\ Change /\ devices' = d /\ web' = w
  /\ \/ started /\ StartCheck(toPlugin)
     \/ ~started /\ UNCHANGED <<toPlugin, generation, unprobed, debouncing, pendingCheck>>
  /\ UNCHANGED <<primary, started, connectivity, portalUrl, polling, checkCount,
                 localVars, toProber, toChecker>>

\* onActiveConnectionsChanged and onPrimaryConnectionChanged
OnActiveConnectionsChanged(c, w) ==
  /\ Change /\ primary' = c /\ web' = w
  /\ \/ /\ started
        /\ checkCount' = 0 /\ polling' = TRUE
        /\ connectivity' = DefaultConnectivity /\ toPlugin' = DefaultNews
     \/ ~started /\ UNCHANGED <<checkCount, polling, connectivity, toPlugin>>
  /\ UNCHANGED <<devices, unprobed, started, portalUrl, generation, debouncing,
                 pendingCheck, localVars, toProber, toChecker>>

\* The user logs in at the portal, or a link further away fails: no signal tells.
WebChanges(w) ==
  /\ Change /\ web' = w /\ w # web
  /\ unprobed' = TRUE
  /\ UNCHANGED <<devices, primary, checkerVars, localVars, queues>>

\* setPortalUrl announces changes only, setConnectivity every result.
PortalChange(url, before) ==
  IF url = portalUrl THEN before ELSE Append(before, PortalNews(url))

Decide_KeepsUrl(answer) ==
  LET level == Judged(answer, devices)
  IN /\ connectivity' = level
     /\ toPlugin' = IF answer = "unreachable"
                    THEN Append(toPlugin, ConnectivityNews(level))
                    ELSE PortalChange(UrlOf(answer), Append(toPlugin, ConnectivityNews(level)))
     /\ portalUrl' = IF answer = "unreachable" THEN portalUrl ELSE UrlOf(answer)

Decide_SilentUrl(answer) ==
  LET level == Judged(answer, devices)
  IN /\ connectivity' = level /\ portalUrl' = UrlOf(answer)
     /\ toPlugin' = IF answer = "unreachable"
                    THEN Append(toPlugin, ConnectivityNews(level))
                    ELSE PortalChange(UrlOf(answer), Append(toPlugin, ConnectivityNews(level)))

Decide(answer) ==
  LET level == Judged(answer, devices)
  IN /\ connectivity' = level /\ portalUrl' = UrlOf(answer)
     /\ toPlugin' = IF answer = "unreachable"
                    THEN Append(PortalChange(NoUrl, toPlugin), ConnectivityNews(level))
                    ELSE PortalChange(UrlOf(answer), Append(toPlugin, ConnectivityNews(level)))

\* A result counts only if no other probe was started since.
OnProbeResult ==
  /\ toChecker # <<>> /\ toChecker' = Tail(toChecker)
  /\ \/ Head(toChecker).gen = generation /\ Decide(Head(toChecker).answer)
     \/ /\ Head(toChecker).gen # generation
        /\ UNCHANGED <<connectivity, portalUrl, toPlugin>>
  /\ UNCHANGED <<network, unprobed, started, generation, polling, checkCount, debouncing,
                 pendingCheck, localVars, toProber>>

-----------------------------------------------------------------------------
(* ConnectivityProber and LocalConnectionvityChecker *)

\* probe: the requests of one probe end before the next begins.
Probe ==
  /\ toProber # <<>> /\ toProber' = Tail(toProber)
  /\ toPlugin' = Append(toPlugin, ProbeResult(Head(toProber).gen, web))
  /\ UNCHANGED <<network, unprobed, checkerVars, localVars, toChecker>>

Receive(kind) ==
  toPlugin # <<>> /\ Head(toPlugin).kind = kind /\ toPlugin' = Tail(toPlugin)

StartProbe ==
  /\ Receive("probe")
  /\ toProber' = Append(toProber, Head(toPlugin))
  /\ UNCHANGED <<network, unprobed, checkerVars, localVars, toChecker>>

OnProbeFinished ==
  /\ Receive("result")
  /\ toChecker' = Append(toChecker, Head(toPlugin))
  /\ UNCHANGED <<network, unprobed, checkerVars, localVars, toProber>>

OnConnectivityChanged ==
  /\ Receive("connectivity")
  /\ cached' = Head(toPlugin).now
  /\ UNCHANGED <<network, unprobed, checkerVars, cachedUrl, urlPrimary, toProber, toChecker>>

\* The primary connection is that of the moment the message is read.
OnPortalDetected ==
  /\ Receive("portal")
  /\ cachedUrl' = Head(toPlugin).now /\ urlPrimary' = primary
  /\ UNCHANGED <<network, unprobed, checkerVars, cached, toProber, toChecker>>

\* portalUrl(): the URL that is offered to the user
OfferedUrl == IF cachedUrl # NoUrl /\ primary # urlPrimary THEN NoUrl ELSE cachedUrl

-----------------------------------------------------------------------------
PluginStep == StartProbe \/ OnProbeFinished \/ OnConnectivityChanged \/ OnPortalDetected

NetworkStep ==
  \E w \in Answers :
    \/ WebChanges(w)
    \/ \E d \in DeviceStates : OnDevicesChanged(d, w)
    \/ \E c \in Conns \cup {NoConn} : OnActiveConnectionsChanged(c, w)

Next ==
  \/ InitConnectivityChecker \/ CheckConnectivity
  \/ PollTimerFires \/ DebounceTimerFires \/ CheckTimerFires \/ CheckTimerMeetsCheck
  \/ OnProbeResult \/ Probe \/ PluginStep \/ NetworkStep

Spec == Init /\ [][Next]_vars

(* The three event loops and the timers run, and HTTP requests end, with an   *)
(* answer or by their time-out.                                               *)
Fairness ==
  /\ WF_vars(InitConnectivityChecker) /\ WF_vars(PollTimerFires)
  /\ WF_vars(DebounceTimerFires) /\ WF_vars(CheckTimerFires)
  /\ WF_vars(OnProbeResult) /\ WF_vars(Probe) /\ WF_vars(PluginStep)

FairSpec == Spec /\ Fairness
-----------------------------------------------------------------------------
(* Properties *)

\* The result of setConnectivity and setPortalUrl, over all their callers: a login
\* page is kept exactly as long as a login is needed.
UrlWithPortal == connectivity = "Portal" <=> portalUrl # NoUrl

\* What a reader has who has `old` and reads the news of a kind left in the queue q.
News(q, kind) == {i \in 1..Len(q) : q[i].kind = kind}
Follows(q, kind, old, new) ==
  \/ News(q, kind) = {} /\ old = new
  \/ \E i \in News(q, kind) : q[i].now = new /\ \A j \in News(q, kind) : j <= i

\* The copy that everybody reads follows the checker: once the messages in the queue
\* are read, it is what the checker has, although some changes are not announced
\* and others twice, and the checker is in another thread.
CacheFollows ==
  /\ Follows(toPlugin, "connectivity", cached, connectivity)
  /\ Follows(toPlugin, "portal", cachedUrl, portalUrl)

\* No probe, message or check is under way.
Rested ==
  /\ started /\ ~polling /\ ~pendingCheck
  /\ toPlugin = <<>> /\ toProber = <<>> /\ toChecker = <<>>

\* Changes of the network that are signalled are not lost: however they interleave
\* with the timers, with checks that are merged, with results that are late and with
\* probes that overtake each other, what the service says at rest is the truth,
\* unless the web has changed without a signal since the last probe.
RestedIsRight ==
  Rested /\ ~unprobed => cached = Judged(web, devices) /\ cachedUrl = UrlOf(web)

\* Also changes that no signal tells of are noticed in the end.
EventuallyRight == <>[](cached = Judged(web, devices) /\ cachedUrl = UrlOf(web))

\* Where a login is needed, the user is offered the page on which to log in.
PortalIsOffered ==
  Rested /\ ~unprobed /\ primary # NoConn /\ cached = "Portal" => OfferedUrl # NoUrl
=============================================================================
