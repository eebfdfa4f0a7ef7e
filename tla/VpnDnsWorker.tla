------------------------------ MODULE VpnDnsWorker ------------------------------
(***************************************************************************)
(* The worker thread that applies the DNS mode of a VPN to its link        *)
(* (session/vpndnsmode/vpndnsmodeworker.cpp), with its request queue        *)
(* (vpndnsmodequeue.h) and the transaction of one apply chain               *)
(* (vpndnsmodeapplytransaction.h).  The thread reacts to messages of the    *)
(* handler (toWorker), to the answer of polkit and to the answers of        *)
(* systemd-resolved; it reports to the handler on toHandler.  Both channels *)
(* are queued Qt connections between two threads: reliable and FIFO.        *)
(*                                                                         *)
(* sn, the serial number of a request, is a history variable: the code      *)
(* numbers requests per profile only (generation).                          *)
(*                                                                         *)
(* A definition X_Slip is X with a mistake of the kind a property is there  *)
(* to catch; no specification uses it.                                      *)
(***************************************************************************)
EXTENDS Integers, Sequences, FiniteSets

CONSTANTS
  Profiles,      \* VPN profiles: D-Bus paths of NetworkManager settings
  ActiveConns,   \* D-Bus paths of NetworkManager active connections
  Priorities,    \* values of dns-priority the profiles take, 0 among them
  Replies        \* answers of systemd-resolved: done, service gone, another error

ASSUME PrioritiesAssumption == Priorities \subseteq Int /\ 0 \in Priorities
ASSUME RepliesAssumption == "ok" \in Replies /\ Replies \subseteq {"ok", "ServiceUnavailable", "DbusError"}

VARIABLES
  toWorker,      \* messages posted to the worker thread
  toHandler,     \* applyFinished signals posted to the main thread
  alive,         \* the handler object exists and is connected to the worker
  pending,       \* m_requestQueue.m_requests: FIFO, so its order is that of sn
  latest,        \* m_requestQueue.m_latestGenerations, 0 where it has no entry
  active,        \* {} or {m_activeRequest}
  phase,         \* the call whose watcher is set, "idle" when there is none
  invalidated,   \* m_activeRequestInvalidated
  original,      \* m_originalResult while m_rollingBack, else "none"
  stopping,      \* m_stopping
  link           \* what systemd-resolved holds for the link of each VPN

chanVars   == <<toWorker, toHandler>>
workerVars == <<pending, latest, active, phase, invalidated, original, stopping, link>>

Request == [profile: Profiles, ac: ActiveConns, gen: Nat, prio: Priorities, sn: Nat]

Failures == {"AuthorizationDenied", "AuthorizationError", "ServiceUnavailable", "DbusError"}
Results  == Failures \cup {"Success"}
Answer   == [profile: Profiles, gen: Nat, prio: Priorities, sn: Nat, result: Results]

Message == [kind: {"apply"}, req: Request]
           \cup [kind: {"removeConnection"}, profile: Profiles]
           \cup [kind: {"removeActiveConnection"}, ac: ActiveConns]
           \cup [kind: {"stop"}]

-----------------------------------------------------------------------------
(* The configuration of a link: the server list, the routing domain and the *)
(* default route each hold the mode they were last written for.             *)

Modes == {"preferred", "secondary", "notSet"}
Mode(prio) == IF prio < 0 THEN "preferred" ELSE IF prio > 0 THEN "secondary" ELSE "notSet"

LinkConfig == [dns: BOOLEAN, domains: Modes, route: Modes]
Reverted   == [dns |-> FALSE, domains |-> "notSet", route |-> "notSet"]

\* What the link holds once mode has been applied in full.
Configured(mode) == [dns |-> mode # "notSet", domains |-> mode, route |-> mode]

SetCalls == {"SetLinkDns", "SetLinkDomains", "SetLinkDefaultRoute"}

\* The effect on a link of the resolved call of one stage.
Written(config, stage, mode) ==
  CASE stage = "SetLinkDns"          -> [config EXCEPT !.dns = TRUE]
    [] stage = "SetLinkDomains"      -> [config EXCEPT !.domains = mode]
    [] stage = "SetLinkDefaultRoute" -> [config EXCEPT !.route = mode]
    [] stage = "RevertLink"          -> Reverted

-----------------------------------------------------------------------------
WorkerInit ==
  /\ toWorker = <<>> /\ toHandler = <<>> /\ alive = TRUE
  /\ pending = {} /\ latest = [p \in Profiles |-> 0]
  /\ active = {} /\ phase = "idle" /\ invalidated = FALSE /\ original = "none"
  /\ stopping = FALSE
  /\ link = [a \in ActiveConns |-> Reverted]

Enqueue_NoMerge(r) ==
  IF r.gen > latest[r.profile]
  THEN /\ pending' = pending \cup {r}
       /\ latest' = [latest EXCEPT ![r.profile] = r.gen]
  ELSE UNCHANGED <<pending, latest>>

\* m_requestQueue.enqueue: a request no newer than the last one of its profile
\* is refused, an older pending one of the profile is replaced.
Enqueue(r) ==
  IF r.gen > latest[r.profile]
  THEN /\ pending' = {q \in pending : q.profile # r.profile} \cup {r}
       /\ latest' = [latest EXCEPT ![r.profile] = r.gen]
  ELSE UNCHANGED <<pending, latest>>

\* The request takeNext dequeues.
NextRequest(r) == r \in pending /\ \A q \in pending : r.sn <= q.sn

\* finishActiveRequest never returns to the event loop while requests wait: it
\* goes on to startNextRequest, so no message is handled in between.
InEventLoop == ~stopping /\ (active # {} \/ pending = {})

\* The applyFinished signal; nobody listens once the handler has disconnected.
Report(r, result) ==
  toHandler' = IF alive
               THEN Append(toHandler, [profile |-> r.profile, gen |-> r.gen,
                                       prio |-> r.prio, sn |-> r.sn, result |-> result])
               ELSE toHandler

ClearActive_KeepsStage ==
  /\ active' = {} /\ invalidated' = FALSE /\ original' = "none" /\ UNCHANGED phase

\* finishActiveRequest up to its call of startNextRequest.
ClearActive ==
  /\ active' = {} /\ phase' = "idle" /\ invalidated' = FALSE /\ original' = "none"

Finish(r, result) == ClearActive /\ Report(r, result)

FinishSilently_Reports == \E r \in active : Finish(r, "DbusError")

\* finishActiveRequest with notify = false.
FinishSilently == ClearActive /\ UNCHANGED toHandler

-----------------------------------------------------------------------------
(* Messages of the handler.  A request in progress has a call outstanding   *)
(* (ActiveHasCall), so a removal only marks it: its answer ends it.         *)

WorkerReceive(kind) ==
  /\ InEventLoop
  /\ toWorker # <<>> /\ Head(toWorker).kind = kind
  /\ toWorker' = Tail(toWorker)
  /\ UNCHANGED <<toHandler, alive, link>>

OnApplyDnsMode ==
  /\ WorkerReceive("apply")
  /\ Enqueue(Head(toWorker).req)
  /\ UNCHANGED <<active, phase, invalidated, original, stopping>>

RemoveConnection ==
  /\ WorkerReceive("removeConnection")
  /\ LET p == Head(toWorker).profile IN
       /\ pending' = {r \in pending : r.profile # p}
       /\ latest' = [latest EXCEPT ![p] = 0]
       /\ invalidated' = (invalidated \/ \E r \in active : r.profile = p)
  /\ UNCHANGED <<active, phase, original, stopping>>

RemoveActiveConnection_QueueOnly ==
  /\ WorkerReceive("removeActiveConnection")
  /\ pending' = {r \in pending : r.ac # Head(toWorker).ac}
  /\ UNCHANGED <<latest, active, phase, invalidated, original, stopping>>

RemoveActiveConnection ==
  /\ WorkerReceive("removeActiveConnection")
  /\ LET a == Head(toWorker).ac IN
       /\ pending' = {r \in pending : r.ac # a}
       /\ invalidated' = (invalidated \/ \E r \in active : r.ac = a)
  /\ UNCHANGED <<latest, active, phase, original, stopping>>

\* stop(): the watchers are deleted, so no outstanding answer is handled again.
OnStop ==
  /\ WorkerReceive("stop")
  /\ stopping' = TRUE
  /\ pending' = {} /\ latest' = [p \in Profiles |-> 0]
  /\ active' = {} /\ phase' = "idle" /\ invalidated' = FALSE /\ original' = "none"

-----------------------------------------------------------------------------
\* startNextRequest: the resolved interface may not be valid.
StartNextRequest ==
  /\ ~stopping /\ active = {}
  /\ \E r \in pending :
       /\ NextRequest(r)
       /\ pending' = pending \ {r}
       /\ \/ /\ active' = {r} /\ phase' = "polkit"
             /\ invalidated' = FALSE /\ original' = "none"
             /\ UNCHANGED toHandler
          \/ Finish(r, "ServiceUnavailable")
  /\ UNCHANGED <<toWorker, alive, latest, stopping, link>>

\* startDnsModeApply.  The handler only sends requests with a valid ifindex.
StartDnsModeApply(r) ==
  phase' = IF Mode(r.prio) = "notSet" THEN "RevertLink" ELSE "SetLinkDns"

\* onPolkitCheckFinished
OnPolkitCheckFinished(reply) ==
  /\ ~stopping /\ phase = "polkit"
  /\ \E r \in active :
       \/ invalidated /\ FinishSilently
       \/ ~invalidated /\ reply = "error" /\ Finish(r, "AuthorizationError")
       \/ ~invalidated /\ reply = "denied" /\ Finish(r, "AuthorizationDenied")
       \/ /\ ~invalidated /\ reply = "authorized"
          /\ StartDnsModeApply(r)
          /\ UNCHANGED <<toHandler, active, invalidated, original>>
  /\ UNCHANGED <<toWorker, alive, pending, latest, stopping, link>>

BeginsRollback_FirstStageOnly(failedStage) == original = "none" /\ failedStage = "SetLinkDns"

\* m_applyTransaction.beginRollback
BeginsRollback(failedStage) == original = "none" /\ failedStage \in SetCalls

Complete_Direct(directResult) == directResult
Complete_Unchecked(directResult) == original

\* m_applyTransaction.complete
Complete(directResult) == IF original # "none" THEN original ELSE directResult

NextStage_Wraps(stage) == IF stage = "SetLinkDns" THEN "SetLinkDomains" ELSE "SetLinkDns"

NextStage(stage) ==
  IF stage = "SetLinkDns" THEN "SetLinkDomains" ELSE "SetLinkDefaultRoute"

\* Whether a call that failed took effect is open: an error may be a timeout.
ResolvedEffect(r, reply) ==
  \/ link' = [link EXCEPT ![r.ac] = Written(@, phase, Mode(r.prio))]
  \/ reply # "ok" /\ UNCHANGED link

\* onResolvedCallFinished
OnResolvedCallFinished(reply) ==
  /\ ~stopping /\ phase \in SetCalls \cup {"RevertLink"}
  /\ \E r \in active :
       /\ ResolvedEffect(r, reply)
       /\ \/ invalidated /\ FinishSilently
          \/ /\ ~invalidated /\ reply # "ok" /\ BeginsRollback(phase)
             /\ original' = reply /\ phase' = "RevertLink"
             /\ UNCHANGED <<toHandler, active, invalidated>>
          \/ /\ ~invalidated /\ reply # "ok" /\ ~BeginsRollback(phase)
             /\ Finish(r, Complete(reply))
          \/ /\ ~invalidated /\ reply = "ok" /\ phase \in {"SetLinkDns", "SetLinkDomains"}
             /\ phase' = NextStage(phase)
             /\ UNCHANGED <<toHandler, active, invalidated, original>>
          \/ /\ ~invalidated /\ reply = "ok" /\ phase = "SetLinkDefaultRoute"
             /\ Finish(r, "Success")
          \/ /\ ~invalidated /\ reply = "ok" /\ phase = "RevertLink"
             /\ Finish(r, Complete("Success"))
  /\ UNCHANGED <<toWorker, alive, pending, latest, stopping>>

WorkerNext ==
  \/ OnApplyDnsMode \/ RemoveConnection \/ RemoveActiveConnection \/ OnStop
  \/ StartNextRequest
  \/ \E reply \in {"error", "denied", "authorized"} : OnPolkitCheckFinished(reply)
  \/ \E reply \in Replies : OnResolvedCallFinished(reply)
=============================================================================
