-------------------------- MODULE PortalPage_proofs --------------------------
(***************************************************************************)
(* Proofs about PortalPage: its types, and that the session is in the      *)
(* desktop exactly while prepared() says so, for any number of checks,     *)
(* pages, logouts and restarts of the session manager.                     *)
(***************************************************************************)
EXTENDS PortalPage, TLAPS

\* EnteredIfPrepared is not inductive: OnServiceRegistered tells nobody when prepare and
\* environment are set, and is right only if desktopChanged(true) was sent before.  It
\* was if DISPLAY, once found, stays: a later check cannot take environment back.
Idle ==
    ~running => /\ ~prepare /\ ~environment /\ ~checked /\ ~entered
                /\ timer = NoTimer
                /\ toMonitor = <<>> /\ toSession = <<>>

IInv ==
    /\ TypeOK
    /\ EnteredIfPrepared
    /\ environment => display
    /\ Idle

-----------------------------------------------------------------------------
\* What a queue has after a message was sent, and after one was read.
LEMMA Queues ==
  ASSUME NEW S, NEW q \in Seq(S)
  PROVE  /\ \A m \in S : Append(q, m) \in Seq(S)
         /\ q # <<>> => Head(q) \in S /\ Tail(q) \in Seq(S)
  OBVIOUS

\* A page that is opened is a URL.
LEMMA CheckPortalUrlType ==
  ASSUME opened \in Seq(Url), portal \in Url, CheckPortalUrl
  PROVE  opened' \in Seq(Url)
  BY DEF CheckPortalUrl, OpenPortalUrl

LEMMA OnDesktopChangedType ==
  ASSUME opened \in Seq(Url), portal \in Url, NEW login \in BOOLEAN, OnDesktopChanged(login)
  PROVE  entered' = login /\ opened' \in Seq(Url)
  BY CheckPortalUrlType DEF OnDesktopChanged

-----------------------------------------------------------------------------
LEMMA InitInv == Init => IInv
  <1> SUFFICES ASSUME Init PROVE IInv
    OBVIOUS
  <1>1. TypeOK
    <2>1. inputs \in 0 .. MaxInputs
      BY PortalPageAssumption DEF Init
    <2>2. toMonitor \in Seq({"registered", "logout"}) /\ toSession \in Seq(Url) /\ opened \in Seq(Url)
      BY DEF Init
    <2> QED
      BY <2>1, <2>2 DEF Init, TypeOK, Url
  <1>2. EnteredIfPrepared /\ (environment => display) /\ Idle
    BY DEF Init, EnteredIfPrepared, Idle, Prepared, NoTimer
  <1> QED
    BY <1>1, <1>2 DEF IInv

\* What the world does leaves the session alone, but for the signals it sends.
LEMMA WorldStep ==
  ASSUME IInv,
         \/ Register \/ Unregister \/ Logout \/ DisplayIsSet
         \/ \E url \in Url : PortalChanges(url)
  PROVE  IInv'
  <1>1. /\ toMonitor' \in Seq({"registered", "logout"})
        /\ toSession' \in Seq(Url)
        /\ ~running => toMonitor' = toMonitor /\ toSession' = toSession
    <2>1. CASE \E url \in Url : PortalChanges(url)
      BY <2>1, Queues DEF IInv, TypeOK, PortalChanges
    <2>2. CASE Register \/ Logout
      BY <2>2, Queues DEF IInv, TypeOK, Register, Logout, Tell
    <2>3. CASE Unregister \/ DisplayIsSet
      BY <2>3 DEF IInv, TypeOK, Unregister, DisplayIsSet
    <2> QED
      BY <2>1, <2>2, <2>3
  <1>2. UNCHANGED <<running, monitorVars, entered>>
    BY DEF Register, Unregister, Logout, DisplayIsSet, PortalChanges
  <1>3. /\ manager' \in BOOLEAN /\ display' \in BOOLEAN /\ (display => display')
        /\ portal' \in Url /\ opened' \in Seq(Url)
    <2>1. CASE \E url \in Url : PortalChanges(url)
      <3>1. /\ UNCHANGED <<manager, display>>
            /\ portal' \in Url /\ opened' = <<>>
        BY <2>1 DEF PortalChanges, worldVars
      <3> QED
        BY <3>1 DEF IInv, TypeOK
    <2>2. CASE Register \/ Unregister \/ Logout
      BY <2>2 DEF IInv, TypeOK, Register, Unregister, Logout
    <2>3. CASE DisplayIsSet
      BY <2>3 DEF IInv, TypeOK, DisplayIsSet
    <2> QED
      BY <2>1, <2>2, <2>3
  <1>4. inputs' \in 0 .. MaxInputs
    BY PortalPageAssumption
       DEF IInv, TypeOK, Register, Unregister, Logout, DisplayIsSet, PortalChanges, Input
  <1> QED
    BY <1>1, <1>2, <1>3, <1>4
       DEF IInv, TypeOK, EnteredIfPrepared, Idle, Prepared, monitorVars

LEMMA OnPortalDetectedStep ==
  ASSUME IInv, OnPortalDetected
  PROVE  IInv'
  <1>1. toSession' \in Seq(Url) /\ Head(toSession) \in Url
    BY Queues DEF IInv, TypeOK, OnPortalDetected
  <1>2. opened' \in Seq(Url)
    <2>1. Append(opened, Head(toSession)) \in Seq(Url) /\ opened \in Seq(Url)
      BY <1>1, Queues DEF IInv, TypeOK
    <2>2. opened' = Append(opened, Head(toSession)) \/ opened' = opened
      BY DEF OnPortalDetected, OpenPortalUrl
    <2> QED
      BY <2>1, <2>2
  <1> QED
    BY <1>1, <1>2
       DEF IInv, TypeOK, EnteredIfPrepared, Idle, Prepared, OnPortalDetected, worldVars, monitorVars

\* The first look at the desktop.
LEMMA StartStep ==
  ASSUME IInv, Start
  PROVE  IInv'
  <1>1. PICK seen \in BOOLEAN :
          /\ prepare' = seen /\ environment' = (seen /\ display)
          /\ timer' = IF seen /\ ~display THEN 0 ELSE NoTimer
          /\ IF seen /\ display THEN OnDesktopChanged(TRUE) ELSE NoDesktopChange
    BY DEF Start
  <1>2. entered' = (seen /\ display) /\ opened' \in Seq(Url)
    BY <1>1, OnDesktopChangedType DEF IInv, TypeOK, Idle, Start, NoDesktopChange
  <1>3. timer' \in {NoTimer} \cup (0 .. Checks)
    BY <1>1, PortalPageAssumption
  <1> QED
    BY <1>1, <1>2, <1>3
       DEF IInv, TypeOK, EnteredIfPrepared, Idle, Prepared, Start, worldVars

LEMMA RecheckStep ==
  ASSUME IInv, Recheck
  PROVE  IInv'
  <1>1. timer' \in {NoTimer} \cup (0 .. Checks)
    BY PortalPageAssumption DEF IInv, TypeOK, Recheck, NoTimer
  <1>2. ~environment
    BY DEF IInv, Recheck
  <1> QED
    BY <1>1, <1>2
       DEF IInv, TypeOK, EnteredIfPrepared, Idle, Prepared, Recheck, worldVars

LEMMA CheckFinishedStep ==
  ASSUME IInv, CheckFinished
  PROVE  IInv'
  <1>1. opened' \in Seq(Url) /\ entered' = (prepare \/ entered)
    BY OnDesktopChangedType DEF IInv, TypeOK, CheckFinished, NoDesktopChange
  <1>2. entered => prepare
    BY DEF IInv, EnteredIfPrepared, Prepared
  <1> QED
    BY <1>1, <1>2
       DEF IInv, TypeOK, EnteredIfPrepared, Idle, Prepared, CheckFinished, worldVars

LEMMA HandleSignalStep ==
  ASSUME IInv, HandleSignal
  PROVE  IInv'
  <1>1. /\ toMonitor' \in Seq({"registered", "logout"})
        /\ running
    BY Queues DEF IInv, TypeOK, Idle, HandleSignal
  <1>2. CASE OnServiceRegistered
    <2>1. /\ opened' \in Seq(Url)
          /\ prepare' \in BOOLEAN /\ environment' \in BOOLEAN
          /\ UNCHANGED <<checked, timer>>
          /\ environment' => display
          /\ entered' <=> (prepare' /\ (environment' \/ checked'))
      BY <1>2, OnDesktopChangedType
         DEF IInv, TypeOK, EnteredIfPrepared, Prepared, OnServiceRegistered, NoDesktopChange,
             monitorVars
    <2>2. entered' \in BOOLEAN
      BY <1>2, OnDesktopChangedType
         DEF IInv, TypeOK, OnServiceRegistered, NoDesktopChange
    <2> QED
      BY <1>1, <2>1, <2>2
         DEF IInv, TypeOK, EnteredIfPrepared, Idle, Prepared, HandleSignal, worldVars
  <1>3. CASE OnPrepareLogout
    <2>1. entered' = FALSE /\ opened' \in Seq(Url)
      BY <1>3, OnDesktopChangedType DEF IInv, TypeOK, OnPrepareLogout
    <2> QED
      BY <1>1, <1>3, <2>1
         DEF IInv, TypeOK, EnteredIfPrepared, Idle, Prepared, HandleSignal, OnPrepareLogout,
             worldVars
  <1> QED
    BY <1>2, <1>3 DEF HandleSignal

-----------------------------------------------------------------------------
LEMMA NextInv == IInv /\ [Next]_vars => IInv'
  <1> SUFFICES ASSUME IInv, [Next]_vars PROVE IInv'
    OBVIOUS
  <1>1. CASE UNCHANGED vars
    BY <1>1 DEF IInv, TypeOK, EnteredIfPrepared, Idle, Prepared, vars, worldVars, monitorVars
  <1>2. CASE Next
    BY <1>2, WorldStep, OnPortalDetectedStep, StartStep, RecheckStep, CheckFinishedStep,
       HandleSignalStep DEF Next
  <1> QED
    BY <1>1, <1>2

\* Whatever the world and the event loop do, the monitor, its queues and the pages
\* that are opened keep their types, and the timer never counts past the last check.
THEOREM TypeCorrect == Spec => []TypeOK
  <1>1. IInv => TypeOK
    BY DEF IInv
  <1> QED
    BY InitInv, NextInv, <1>1, PTL DEF Spec

\* desktopChanged(true) and desktopChanged(false) are sent exactly when prepared()
\* changes, in every interleaving of checks, registrations and logouts.
THEOREM DesktopFollows == Spec => []EnteredIfPrepared
  <1>1. IInv => EnteredIfPrepared
    BY DEF IInv
  <1> QED
    BY InitInv, NextInv, <1>1, PTL DEF Spec

=============================================================================
