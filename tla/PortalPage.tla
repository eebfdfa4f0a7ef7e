------------------------------ MODULE PortalPage ------------------------------
(***************************************************************************)
(* How the session service opens the login page of a portal: when it takes *)
(* the desktop for ready (session/desktopmonitor.cpp), and what it does    *)
(* then and on each PortalDetected (sessioncontainer.cpp, urlhelper.cpp).  *)
(*                                                                         *)
(* The session manager comes and goes on the session bus, and DISPLAY gets *)
(* into the environment of systemd at some time of its own.  The system    *)
(* service tells of each change of the portal's URL by a signal, and can   *)
(* be asked for its connectivity.                                          *)
(***************************************************************************)
EXTENDS Integers, Sequences

CONSTANTS Urls,         \* login pages
          NoUrl,        \* no portal: the empty URL
          Names,        \* names the system service has on the bus
          Checks,       \* checks for DISPLAY: 20 in the code
          MaxInputs     \* bound on changes of the portal and logouts

ASSUME PortalPageAssumption ==
    /\ NoUrl \notin Urls
    /\ Checks \in Nat /\ MaxInputs \in Nat

Url == Urls \cup {NoUrl}
NoTimer == -1
OnProperties == "org.deepin.service.SystemNetwork"        \* the name checkPortalUrl asks

VARIABLES
    manager,        \* the session manager is registered
    display,        \* DISPLAY is in the environment
    running,        \* the session service runs
    prepare,        \* m_prepare
    environment,    \* m_displayEnvironment is set
    checked,        \* m_checkFinished
    timer,          \* checktime of m_timer
    toMonitor,      \* signals DesktopMonitor has not handled
    entered,        \* the desktop was entered, and not left
    portal,         \* URL of the portal, at the system service
    toSession,      \* PortalDetected signals that are not handled
    opened,         \* pages opened since the portal has changed
    inputs          \* changes of the portal and logouts so far

worldVars == <<manager, display>>
monitorVars == <<prepare, environment, checked, timer>>
vars == <<worldVars, running, monitorVars, toMonitor, entered, portal, toSession, opened, inputs>>

TypeOK ==
    /\ manager \in BOOLEAN /\ display \in BOOLEAN /\ running \in BOOLEAN
    /\ prepare \in BOOLEAN /\ environment \in BOOLEAN /\ checked \in BOOLEAN
    /\ timer \in {NoTimer} \cup (0 .. Checks)
    /\ toMonitor \in Seq({"registered", "logout"})
    /\ entered \in BOOLEAN
    /\ portal \in Url /\ toSession \in Seq(Url) /\ opened \in Seq(Url)
    /\ inputs \in 0 .. MaxInputs

Init ==
    /\ manager \in BOOLEAN /\ display \in BOOLEAN
    /\ running = FALSE
    /\ prepare = FALSE /\ environment = FALSE /\ checked = FALSE /\ timer = NoTimer
    /\ toMonitor = <<>>
    /\ entered = FALSE
    /\ portal = NoUrl /\ toSession = <<>> /\ opened = <<>>
    /\ inputs = 0

-----------------------------------------------------------------------------
(* The session, and the network. *)

Input == inputs < MaxInputs /\ inputs' = inputs + 1

Tell(signal) == toMonitor' = IF running THEN Append(toMonitor, signal) ELSE toMonitor

\* The session manager starts, also anew.
Register ==
    /\ ~manager /\ manager' = TRUE
    /\ Tell("registered")
    /\ UNCHANGED <<display, running, monitorVars, entered, portal, toSession, opened, inputs>>

\* It is killed.
Unregister ==
    /\ Input
    /\ manager /\ manager' = FALSE
    /\ UNCHANGED <<display, running, monitorVars, toMonitor, entered, portal, toSession, opened>>

\* The user logs out: PrepareLogout is signalled, then the session manager ends.
Logout ==
    /\ Input
    /\ manager /\ manager' = FALSE
    /\ Tell("logout")
    /\ UNCHANGED <<display, running, monitorVars, entered, portal, toSession, opened>>

DisplayIsSet ==
    /\ ~display /\ display' = TRUE
    /\ UNCHANGED <<manager, running, monitorVars, toMonitor, entered, portal, toSession, opened, inputs>>

\* PortalDetected is signalled with each new URL, the empty one included.
PortalChanges(url) ==
    /\ Input
    /\ url # portal /\ portal' = url
    /\ toSession' = IF running THEN Append(toSession, url) ELSE toSession
    /\ opened' = <<>>
    /\ UNCHANGED <<worldVars, running, monitorVars, toMonitor, entered>>

-----------------------------------------------------------------------------
(* SessionContainer. *)

\* prepared()
Prepared == prepare /\ (environment \/ checked)

\* openPortalUrl and openUrl, with supportAutoOpenPortal set
OpenPortalUrl(url) == opened' = Append(opened, url)

\* checkPortalUrl: a property of a name nobody has is 0, no portal.
CheckPortalUrl ==
    IF OnProperties \in Names /\ portal # NoUrl THEN OpenPortalUrl(portal) ELSE UNCHANGED opened

\* onDesktopChanged, enterDesktop and leaveDesktop
OnDesktopChanged(login) ==
    /\ entered' = login
    /\ IF login THEN CheckPortalUrl ELSE UNCHANGED opened

NoDesktopChange == UNCHANGED <<entered, opened>>

\* onPortalDetected
OnPortalDetected ==
    /\ running
    /\ toSession # <<>> /\ toSession' = Tail(toSession)
    /\ IF Prepared THEN OpenPortalUrl(Head(toSession)) ELSE UNCHANGED opened
    /\ UNCHANGED <<worldVars, running, monitorVars, toMonitor, entered, portal, inputs>>

-----------------------------------------------------------------------------
(* DesktopMonitor. *)

\* init and initEnvornment: only a session manager that is there before gets a timer.
\* One that registers between the question for it and the watcher is missed.
Start ==
    /\ ~running /\ running' = TRUE
    /\ \E seen \in BOOLEAN :
          /\ seen => manager
          /\ prepare' = seen
          /\ environment' = (seen /\ display)
          /\ timer' = IF seen /\ ~display THEN 0 ELSE NoTimer
          /\ IF seen /\ display THEN OnDesktopChanged(TRUE) ELSE NoDesktopChange
    /\ UNCHANGED <<worldVars, checked, toMonitor, portal, toSession, inputs>>

Recheck_OneMore ==              \* the last check is counted as well
    /\ timer # NoTimer /\ timer <= Checks /\ ~display
    /\ timer' = timer + 1
    /\ environment' = FALSE
    /\ UNCHANGED <<worldVars, running, prepare, checked, toMonitor, entered, portal, toSession,
                   opened, inputs>>

Recheck_NotCounted ==           \* checktime is not set again
    /\ timer # NoTimer /\ timer < Checks /\ ~display
    /\ environment' = FALSE
    /\ UNCHANGED <<worldVars, running, prepare, checked, timer, toMonitor, entered, portal,
                   toSession, opened, inputs>>

\* onCheckTimeout before the last check
Recheck ==
    /\ timer # NoTimer /\ timer < Checks /\ ~display
    /\ timer' = timer + 1
    /\ environment' = FALSE
    /\ UNCHANGED <<worldVars, running, prepare, checked, toMonitor, entered, portal, toSession,
                   opened, inputs>>

CheckFinished_OnlyFound ==      \* the desktop is not tried without DISPLAY
    /\ timer # NoTimer
    /\ timer = Checks \/ display
    /\ timer' = NoTimer /\ checked' = TRUE
    /\ environment' = display
    /\ IF prepare /\ display THEN OnDesktopChanged(TRUE) ELSE NoDesktopChange
    /\ UNCHANGED <<worldVars, running, prepare, toMonitor, portal, toSession, inputs>>

\* checkFinished: DISPLAY was found, or not found too often.
CheckFinished ==
    /\ timer # NoTimer
    /\ timer = Checks \/ display
    /\ timer' = NoTimer /\ checked' = TRUE
    /\ environment' = display
    /\ IF prepare THEN OnDesktopChanged(TRUE) ELSE NoDesktopChange
    /\ UNCHANGED <<worldVars, running, prepare, toMonitor, portal, toSession, inputs>>

\* onServiceRegistered: one that was ready before is not told again.
OnServiceRegistered ==
    IF prepare /\ environment
    THEN UNCHANGED monitorVars /\ NoDesktopChange
    ELSE /\ prepare' = TRUE
         /\ environment' = display
         /\ IF display \/ checked THEN OnDesktopChanged(TRUE) ELSE NoDesktopChange
         /\ UNCHANGED <<checked, timer>>

\* onPrepareLogout
OnPrepareLogout ==
    /\ prepare' = FALSE
    /\ OnDesktopChanged(FALSE)
    /\ UNCHANGED <<environment, checked, timer>>

HandleSignal ==
    /\ toMonitor # <<>> /\ toMonitor' = Tail(toMonitor)
    /\ \/ Head(toMonitor) = "registered" /\ OnServiceRegistered
       \/ Head(toMonitor) = "logout" /\ OnPrepareLogout
    /\ UNCHANGED <<worldVars, running, portal, toSession, inputs>>

-----------------------------------------------------------------------------
Next ==
    \/ Register \/ Unregister \/ Logout \/ DisplayIsSet
    \/ \E url \in Url : PortalChanges(url)
    \/ OnPortalDetected
    \/ Start \/ Recheck \/ CheckFinished \/ HandleSignal

Spec == Init /\ [][Next]_vars

\* The event loop of the session service and its timer go on.
FairSpec ==
    /\ Spec
    /\ WF_vars(Start) /\ WF_vars(HandleSignal) /\ WF_vars(OnPortalDetected)
    /\ WF_vars(Recheck \/ CheckFinished)

-----------------------------------------------------------------------------
(* Properties. *)

\* The session is in the desktop exactly as long as prepared() says so: however the
\* checks for DISPLAY, a session manager that is killed and comes back, and logouts
\* interleave, desktopChanged(true) is sent when it becomes true, and
\* desktopChanged(false) when it ends.
EnteredIfPrepared == entered <=> Prepared

\* A timer that runs gets the desktop entered, with or without a DISPLAY, unless the
\* session manager ends before.
ChecksSuffice == timer # NoTimer ~> entered \/ ~manager

\* No signal is under way, and no check.
Rested == running /\ toMonitor = <<>> /\ toSession = <<>> /\ timer = NoTimer

\* Whoever is in the desktop has the page of the portal opened, also of one that was
\* there before: "in this case the URL is opened first" (sessioncontainer.cpp:52).
PageIsOpened ==
    Rested /\ entered /\ portal # NoUrl => \E i \in 1 .. Len(opened) : opened[i] = portal

=============================================================================
