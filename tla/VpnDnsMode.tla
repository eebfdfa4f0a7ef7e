------------------------------- MODULE VpnDnsMode -------------------------------
(***************************************************************************)
(* The DNS mode of VPN connections in the session service: the handler of  *)
(* the main thread (session/vpndnsmode/vpndnsmodehandler.cpp and            *)
(* vpndnsmodeapplystate.h) composed with its worker thread and with the     *)
(* NetworkManager it listens to and writes to.                              *)
(*                                                                         *)
(* NetworkManager is external: its active connections are modelled as the   *)
(* client library shows them to the handler; of a profile both the stored   *)
(* settings and the copy the handler has read are kept, because a rollback  *)
(* writes back the copy.                                                    *)
(***************************************************************************)
EXTENDS VpnDnsWorker

CONSTANTS
  Owner,         \* the profile each active connection belongs to
  InitialProfiles, \* the VPN profiles that exist when the service starts
  Settings,      \* the DNS settings a profile takes
  MaxEdits,      \* bound: how often profiles are edited
  MaxIp4,        \* bound: how often an Ip4Config changes
  LateSignals    \* an active connection may still signal after its profile is removed

ASSUME OwnerAssumption == Owner \in [ActiveConns -> Profiles]
ASSUME InitialAssumption == InitialProfiles \subseteq Profiles
ASSUME BoundsAssumption ==
  MaxEdits \in Nat /\ MaxIp4 \in Nat /\ LateSignals \in BOOLEAN

VARIABLES
  stored,        \* settings of each profile in NetworkManager
  unread,        \* profiles with an Updated signal the handler has not handled
  writes,        \* connection->update() calls NetworkManager has not answered
  acState,       \* active connections as the client library shows them
  seen,          \* connection->settings(): the copy in the handler's process
  watched,       \* m_vpnConnections
  tracked,       \* m_activeVpnConnections (its keys; the values are Owner)
  state,         \* m_applyStates; a profile without an entry has FreshState
  workerUp,      \* m_worker # nullptr
  removed,       \* profiles whose removal was signalled: a path is not reused
  issued,        \* history: requests sent so far, the source of sn
  newest,        \* history: sn of the newest request of each profile
  late,          \* history: sn of the requests made for a profile that was removed before
  edits, ip4s    \* counters for the bounds

nmVars      == <<stored, unread, writes, acState, removed>>
handlerVars == <<seen, watched, tracked, state, workerUp, issued, newest, late>>
vars == <<toWorker, toHandler, alive, workerVars, nmVars, handlerVars, edits, ip4s>>

\* dns-priority counts only when the profile is never the default route.
DnsSettings == [neverDefault: BOOLEAN, dns4: Priorities, dns6: Priorities]
ASSUME SettingsAssumption == Settings \subseteq DnsSettings /\ Settings # {}

EffectivePriority(s) == IF s.neverDefault THEN s.dns4 ELSE 0

ApplyState == [gen: Nat, applied: Priorities, hasApplied: BOOLEAN, rolledBack: BOOLEAN]

\* A default-constructed VpnDnsModeApplyState.  No answer carries generation 0,
\* so an answer finds it exactly as it finds no entry: it is discarded.
FreshState == [gen |-> 0, applied |-> 0, hasApplied |-> FALSE, rolledBack |-> FALSE]

AcStates == {"absent", "activating", "activated", "gone"}

TypeOK ==
  /\ toWorker \in Seq(Message) /\ toHandler \in Seq(Answer) /\ alive \in BOOLEAN
  /\ pending \subseteq Request /\ latest \in [Profiles -> Nat]
  /\ active \subseteq Request /\ \A q, r \in active : q = r
  /\ phase \in SetCalls \cup {"idle", "polkit", "RevertLink"}
  /\ invalidated \in BOOLEAN /\ original \in Failures \cup {"none"}
  /\ stopping \in BOOLEAN /\ link \in [ActiveConns -> LinkConfig]
  /\ stored \in [Profiles -> DnsSettings] /\ unread \subseteq Profiles
  /\ writes \in [Profiles -> Seq(DnsSettings)]
  /\ acState \in [ActiveConns -> AcStates] /\ removed \subseteq Profiles
  /\ seen \in [Profiles -> DnsSettings] /\ watched \subseteq Profiles
  /\ tracked \subseteq ActiveConns /\ state \in [Profiles -> ApplyState]
  /\ workerUp \in BOOLEAN /\ issued \in Nat /\ newest \in [Profiles -> Nat] /\ late \subseteq Nat
  /\ edits \in Nat /\ ip4s \in Nat

Init ==
  /\ WorkerInit
  /\ stored \in [Profiles -> Settings] /\ seen = stored
  /\ unread = {} /\ writes = [p \in Profiles |-> <<>>]
  /\ acState = [a \in ActiveConns |-> "absent"] /\ removed = {}
  /\ watched = InitialProfiles /\ tracked = {}
  /\ state = [p \in Profiles |-> FreshState]
  /\ workerUp = FALSE /\ issued = 0 /\ newest = [p \in Profiles |-> 0] /\ late = {}
  /\ edits = 0 /\ ip4s = 0

-----------------------------------------------------------------------------
(* VpnDnsModeApplyState *)

BeginRequest(s) == [s EXCEPT !.rolledBack = FALSE, !.gen = @ + 1]

CommitApplied_AnyGeneration(s, gen, prio) ==
  [s EXCEPT !.applied = prio, !.hasApplied = TRUE, !.rolledBack = FALSE]

CommitApplied(s, gen, prio) ==
  IF gen # s.gen THEN s
  ELSE [s EXCEPT !.applied = prio, !.hasApplied = TRUE, !.rolledBack = FALSE]

RolledBackTo_NewState(s, target) ==
  [FreshState EXCEPT !.applied = target, !.hasApplied = TRUE, !.rolledBack = TRUE]

\* rollbackRequest, once the generation has been found to be the current one
RolledBackTo(s, target) ==
  [s EXCEPT !.applied = target, !.hasApplied = TRUE, !.rolledBack = TRUE]

-----------------------------------------------------------------------------
(* requestApplyDnsModeIfChanged(a, isCompare), reading the settings s.       *)

\* A request for prio made after a rollback, or for the priority in force, is
\* left out.
Suppressed(st, prio) == st.rolledBack /\ prio = 0
Unchanged(st, prio, isCompare) == isCompare /\ st.hasApplied /\ prio = st.applied

\* Without a tunnel device that carries the VPN's Ip4Config nothing is sent;
\* NetworkManager is asked for it there and then, so either answer is possible.
RequestApplyDnsModeIfChanged(p, a, s, isCompare) ==
  LET prio    == EffectivePriority(s)
      cleared == [state[p] EXCEPT !.rolledBack = FALSE]
      begun   == BeginRequest(cleared)
      request == [profile |-> p, ac |-> a, gen |-> begun.gen, prio |-> prio, sn |-> issued + 1]
      NoRequest == UNCHANGED <<toWorker, workerUp, issued, newest, late>>
  IN \/ Suppressed(state[p], prio) /\ UNCHANGED state /\ NoRequest
     \/ /\ ~Suppressed(state[p], prio)
        /\ state' = [state EXCEPT ![p] = cleared]
        /\ NoRequest
     \/ /\ ~Suppressed(state[p], prio) /\ ~Unchanged(cleared, prio, isCompare)
        /\ state' = [state EXCEPT ![p] = begun]
        /\ workerUp' = TRUE
        /\ toWorker' = Append(toWorker, [kind |-> "apply", req |-> request])
        /\ issued' = issued + 1 /\ newest' = [newest EXCEPT ![p] = issued + 1]
        /\ late' = IF p \in watched THEN late ELSE late \cup {issued + 1}

\* The handler's messages reach the worker only once its thread was started.
Post(message) ==
  toWorker' = IF workerUp THEN Append(toWorker, message) ELSE toWorker

-----------------------------------------------------------------------------
(* Signals of NetworkManager *)

Visible(a) == acState[a] \in {"activating", "activated"}

OnConnectionAdded(p) ==
  /\ alive /\ p \notin watched \cup removed
  /\ watched' = watched \cup {p}
  /\ seen' = [seen EXCEPT ![p] = stored[p]]
  /\ UNCHANGED <<toWorker, toHandler, alive, workerVars, nmVars, tracked, state,
                 workerUp, issued, newest, late, edits, ip4s>>

OnConnectionRemoved(p) ==
  /\ alive /\ p \in watched
  /\ watched' = watched \ {p} /\ removed' = removed \cup {p}
  /\ unread' = unread \ {p}
  /\ state' = [state EXCEPT ![p] = FreshState]
  /\ tracked' = {a \in tracked : Owner[a] # p}
  /\ Post([kind |-> "removeConnection", profile |-> p])
  /\ UNCHANGED <<toHandler, alive, workerVars, stored, writes, acState, seen,
                 workerUp, issued, newest, late, edits, ip4s>>

\* onConnectionUpdated: whichever active connection of the profile comes first.
OnConnectionUpdated(p) ==
  /\ alive /\ p \in unread \cap watched
  /\ unread' = unread \ {p}
  /\ seen' = [seen EXCEPT ![p] = stored[p]]
  /\ \/ /\ \A a \in ActiveConns : Owner[a] = p => ~Visible(a)
        /\ UNCHANGED <<toWorker, state, workerUp, issued, newest, late>>
     \/ \E a \in ActiveConns :
          /\ Owner[a] = p /\ Visible(a)
          /\ RequestApplyDnsModeIfChanged(p, a, stored[p], TRUE)
  /\ UNCHANGED <<toHandler, alive, workerVars, stored, writes, acState, removed,
                 watched, tracked, edits, ip4s>>

\* onActiveConnectionAdded and trackVpnActiveConnection
OnActiveConnectionAdded(a) ==
  /\ alive /\ acState[a] = "absent" /\ Owner[a] \in watched
  /\ acState' = [acState EXCEPT ![a] = "activating"]
  /\ tracked' = tracked \cup {a}
  /\ UNCHANGED <<toWorker, toHandler, alive, workerVars, stored, unread, writes, removed,
                 seen, watched, state, workerUp, issued, newest, late, edits, ip4s>>

\* The client library learns that NetworkManager has activated the connection.
Activated(a) ==
  /\ alive /\ acState[a] = "activating"
  /\ acState' = [acState EXCEPT ![a] = "activated"]
  /\ UNCHANGED <<toWorker, toHandler, alive, workerVars, stored, unread, writes, removed,
                 handlerVars, edits, ip4s>>

\* onVpnIp4ConfigChanged, for a connection that is activated
OnVpnIp4ConfigChanged(a) ==
  /\ alive /\ acState[a] = "activated" /\ ip4s < MaxIp4
  /\ LateSignals \/ Owner[a] \in watched
  /\ ip4s' = ip4s + 1
  /\ RequestApplyDnsModeIfChanged(Owner[a], a, seen[Owner[a]], FALSE)
  /\ UNCHANGED <<toHandler, alive, workerVars, nmVars, seen, watched, tracked, edits>>

OnActiveConnectionRemoved(a) ==
  /\ alive /\ Visible(a)
  /\ acState' = [acState EXCEPT ![a] = "gone"]
  /\ tracked' = tracked \ {a}
  /\ IF a \in tracked THEN Post([kind |-> "removeActiveConnection", ac |-> a])
                      ELSE UNCHANGED toWorker
  /\ UNCHANGED <<toHandler, alive, workerVars, stored, unread, writes, removed,
                 seen, watched, state, workerUp, issued, newest, late, edits, ip4s>>

-----------------------------------------------------------------------------
(* The answers of the worker *)

\* rollbackConnectionDnsPriority: the settings written are the handler's copy.
RollbackConnectionDnsPriority(p, target) ==
  writes' = IF p \in watched /\ ~(seen[p].dns4 = target /\ seen[p].dns6 = target)
            THEN [writes EXCEPT ![p] = Append(@, [seen[p] EXCEPT !.dns4 = target, !.dns6 = target])]
            ELSE writes

OnApplyFinished ==
  /\ alive /\ toHandler # <<>>
  /\ toHandler' = Tail(toHandler)
  /\ LET m == Head(toHandler)
         p == m.profile
         target == IF state[p].hasApplied THEN state[p].applied ELSE 0
     IN \/ /\ m.result = "Success"
           /\ state' = [state EXCEPT ![p] = CommitApplied(@, m.gen, m.prio)]
           /\ UNCHANGED writes
        \/ /\ m.result # "Success" /\ m.gen # state[p].gen
           /\ UNCHANGED <<state, writes>>
        \/ /\ m.result # "Success" /\ m.gen = state[p].gen
           /\ state' = [state EXCEPT ![p] = RolledBackTo(@, target)]
           /\ RollbackConnectionDnsPriority(p, target)
  /\ UNCHANGED <<toWorker, alive, workerVars, stored, unread, acState, removed,
                 seen, watched, tracked, workerUp, issued, newest, late, edits, ip4s>>

Destroy_NoStop ==
  /\ alive
  /\ alive' = FALSE /\ toHandler' = <<>>
  /\ UNCHANGED <<toWorker, workerVars, nmVars, handlerVars, edits, ip4s>>

\* ~VpnDnsModeHandler: signals are disconnected and, when there is a worker
\* thread, the destructor waits until it has run stop().
Destroy ==
  /\ alive
  /\ alive' = FALSE /\ toHandler' = <<>>
  /\ Post([kind |-> "stop"])
  /\ UNCHANGED <<workerVars, nmVars, handlerVars, edits, ip4s>>

-----------------------------------------------------------------------------
(* NetworkManager's own steps *)

EditProfile(p, s) ==
  /\ alive /\ p \notin removed /\ edits < MaxEdits
  /\ edits' = edits + 1
  /\ stored' = [stored EXCEPT ![p] = s]
  /\ unread' = IF p \in watched THEN unread \cup {p} ELSE unread
  /\ UNCHANGED <<toWorker, toHandler, alive, workerVars, writes, acState, removed, handlerVars, ip4s>>

\* A rollback's update is carried out, or refused.
UpdateAnswered(p) ==
  /\ alive /\ writes[p] # <<>>
  /\ writes' = [writes EXCEPT ![p] = Tail(@)]
  /\ \/ /\ p \in watched
        /\ stored' = [stored EXCEPT ![p] = Head(writes[p])]
        /\ unread' = unread \cup {p}
     \/ UNCHANGED <<stored, unread>>
  /\ UNCHANGED <<toWorker, toHandler, alive, workerVars, acState, removed, handlerVars, edits, ip4s>>

-----------------------------------------------------------------------------
WorkerStep == WorkerNext /\ UNCHANGED <<nmVars, handlerVars, edits, ip4s>>

Next ==
  \/ WorkerStep
  \/ OnApplyFinished \/ Destroy
  \/ \E p \in Profiles :
       \/ OnConnectionAdded(p) \/ OnConnectionRemoved(p) \/ OnConnectionUpdated(p)
       \/ UpdateAnswered(p)
       \/ \E s \in Settings : EditProfile(p, s)
  \/ \E a \in ActiveConns :
       \/ OnActiveConnectionAdded(a) \/ Activated(a) \/ OnVpnIp4ConfigChanged(a)
       \/ OnActiveConnectionRemoved(a)

Spec == Init /\ [][Next]_vars

(* Both threads run their event loops; every D-Bus call is answered, by the  *)
(* reply or by the time-out of QDBusConnection::asyncCall; NetworkManager    *)
(* answers updates and delivers the Updated signals.                         *)
Fairness ==
  /\ WF_vars(WorkerStep)
  /\ WF_vars(OnApplyFinished)
  /\ \A p \in Profiles : WF_vars(OnConnectionUpdated(p)) /\ WF_vars(UpdateAnswered(p))

FairSpec == Spec /\ Fairness
-----------------------------------------------------------------------------
(* Properties *)

QueuedIn(channel) == {channel[i] : i \in 1..Len(channel)}
AppliesIn(channel) == {m.req : m \in {x \in QueuedIn(channel) : x.kind = "apply"}}
Applies == AppliesIn(toWorker)

\* A request in progress always has a call outstanding, and no other state does:
\* the branches of removeConnection and removeActiveConnection for a request
\* without a watcher, and onResolvedCallFinished in StageIdle, are never needed.
ActiveHasCall == (active = {}) <=> (phase = "idle")

\* m_requests holds one request of a profile, the newest the worker has seen,
\* and never one that is older than the request of the profile in progress.
PendingIsNewest ==
  \A r \in pending :
    /\ r.gen = latest[r.profile]
    /\ \A q \in pending : q.profile = r.profile => q = r
    /\ \A q \in active : q.profile = r.profile => q.sn < r.sn

\* The worker's filter for stale requests never refuses a live one: a request on
\* its way for a profile that exists is newer than what the worker has seen, and
\* no request anywhere is ahead of the handler's own counter.
CounterAhead ==
  /\ \A r \in Applies : r.profile \in watched => latest[r.profile] < r.gen
  /\ \A r \in Applies \cup pending \cup active :
       r.profile \in watched => r.gen <= state[r.profile].gen /\ r.sn <= newest[r.profile]

\* Once the worker has heard that a connection or its profile is gone, nothing that was
\* asked for before is started for it, and the request in progress for it, if any, is
\* called off.  What is left is a request of an Ip4Config signal that comes after the
\* profile was removed: nothing in the handler tells it from any other.
GoneIsForgotten ==
  \A a \in ActiveConns :
    (/\ acState[a] = "gone" \/ Owner[a] \in removed
     /\ \A m \in QueuedIn(toWorker) :
          /\ m.kind = "removeActiveConnection" => m.ac # a
          /\ m.kind = "removeConnection" => m.profile # Owner[a])
    => /\ \A r \in pending \cup Applies : r.ac = a => r.sn \in late
       /\ \A r \in active : r.ac = a => invalidated \/ r.sn \in late

\* An answer reported by this step.
Reports(result) ==
  Len(toHandler') > Len(toHandler) /\ toHandler'[Len(toHandler')].result = result

\* Success is reported only when the link carries exactly the configuration of
\* the request: every stage, or none when the mode is not set.  A chain that was
\* reverted on the way never counts as a success.
SuccessIsOnLink ==
  [][Reports("Success") => \A r \in active : link'[r.ac] = Configured(Mode(r.prio))]_vars

\* A chain that failed on the way never leaves its link half written, unless the
\* call that reverts it failed too: the three parts are all of one mode.
Whole(config) == \E mode \in Modes : config = Configured(mode)
FailureLeavesLinkWhole ==
  [][\A result \in Failures : Reports(result) /\ phase \notin {"idle", "polkit"} =>
       \A r \in active : Whole(link'[r.ac]) \/ (phase = "RevertLink" /\ UNCHANGED link)]_vars

\* Only the answer to the newest request of a profile changes what the handler
\* believes is applied, or makes it write to the profile.
NewestDecides ==
  [][(OnApplyFinished /\ <<state, writes>>' # <<state, writes>>)
       => Head(toHandler).sn = newest[Head(toHandler).profile]]_vars

\* Nothing is under way between the two threads and NetworkManager.
Quiet ==
  /\ toWorker = <<>> /\ toHandler = <<>> /\ pending = {} /\ active = {}
  /\ \A p \in Profiles : writes[p] = <<>>
  /\ unread = {}

\* What NetworkManager is told to change comes to rest: a rollback, whose own
\* update signals the profile again, never starts another round by itself, and
\* no request is left waiting behind one that was called off.
Settles == <>[](Quiet \/ ~alive)

\* The destructor, which waits for the worker, returns.
ShutdownCompletes == (~alive /\ workerUp) ~> stopping

\* m_appliedPriority is, as its class says, the priority that is applied: with
\* nothing under way the link of an activated VPN is configured for it.
AppliedIsOnLink ==
  \A a \in ActiveConns :
    /\ Quiet /\ alive
    /\ acState[a] = "activated" /\ Owner[a] \in watched /\ state[Owner[a]].hasApplied
    => link[a] = Configured(Mode(state[Owner[a]].applied))

\* The handler and its worker keep the promise of VpnDnsRequests.
Sns(S) == {r.sn : r \in S}
Requests == INSTANCE VpnDnsRequests WITH
  made <- issued,
  waiting <- Sns(Applies \cup pending),
  running <- Sns(active),
  calledOff <- invalidated,
  answered <- Sns(QueuedIn(toHandler))
ImplementsRequests == Requests!Spec
=============================================================================
