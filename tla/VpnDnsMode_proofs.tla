---------------------------- MODULE VpnDnsMode_proofs ----------------------------
(***************************************************************************)
(* Theorems about VpnDnsMode, for every set of profiles, connections and    *)
(* priorities, and every bound.                                             *)
(***************************************************************************)
EXTENDS VpnDnsMode, TLAPS

(* Sequences as channels *)

LEMMA AppendIsSeq ==
  ASSUME NEW S, NEW s \in Seq(S), NEW x \in S
  PROVE  Append(s, x) \in Seq(S)
  OBVIOUS

LEMMA TakeHead ==
  ASSUME NEW S, NEW s \in Seq(S), s # <<>>
  PROVE  Head(s) \in S /\ Tail(s) \in Seq(S)
  OBVIOUS

-----------------------------------------------------------------------------
(* Type correctness, one part of the state at a time *)

WorkerTypeOK ==
  /\ toWorker \in Seq(Message) /\ toHandler \in Seq(Answer) /\ alive \in BOOLEAN
  /\ pending \subseteq Request /\ latest \in [Profiles -> Nat]
  /\ active \subseteq Request /\ \A q, r \in active : q = r
  /\ phase \in SetCalls \cup {"idle", "polkit", "RevertLink"}
  /\ invalidated \in BOOLEAN /\ original \in Failures \cup {"none"}
  /\ stopping \in BOOLEAN /\ link \in [ActiveConns -> LinkConfig]

\* What a finished request leaves behind.
LEMMA FinishTypeOK ==
  ASSUME WorkerTypeOK, NEW r \in Request, NEW result \in Results, Finish(r, result)
  PROVE  /\ toHandler' \in Seq(Answer) /\ active' = {} /\ phase' = "idle"
         /\ invalidated' = FALSE /\ original' = "none"
  <1>1. [profile |-> r.profile, gen |-> r.gen, prio |-> r.prio, sn |-> r.sn, result |-> result] \in Answer
    BY DEF Request, Answer
  <1>2. toHandler' \in Seq(Answer)
    BY <1>1, AppendIsSeq DEF Finish, Report, WorkerTypeOK
  <1>3. QED
    BY <1>2 DEF Finish, ClearActive

LEMMA ReceiveTypeOK ==
  ASSUME WorkerTypeOK, NEW kind, WorkerReceive(kind)
  PROVE  /\ toWorker' \in Seq(Message) /\ Head(toWorker) \in Message
         /\ Head(toWorker).kind = kind
         /\ UNCHANGED <<toHandler, alive, link>>
  BY TakeHead DEF WorkerReceive, WorkerTypeOK

LEMMA WorkerKeepsType ==
  ASSUME WorkerTypeOK, WorkerNext
  PROVE  WorkerTypeOK'
  <1>1. CASE OnApplyDnsMode
    <2>1. Head(toWorker).req \in Request
      BY <1>1, ReceiveTypeOK DEF OnApplyDnsMode, Message
    <2>2. pending' \subseteq Request /\ latest' \in [Profiles -> Nat]
      BY <1>1, <2>1 DEF OnApplyDnsMode, Enqueue, WorkerTypeOK, Request
    <2>3. QED
      BY <1>1, <2>2, ReceiveTypeOK DEF OnApplyDnsMode, WorkerTypeOK
  <1>2. CASE RemoveConnection
    <2>1. Head(toWorker).profile \in Profiles
      BY <1>2, ReceiveTypeOK DEF RemoveConnection, Message
    <2>2. pending' \subseteq Request /\ latest' \in [Profiles -> Nat] /\ invalidated' \in BOOLEAN
      BY <1>2, <2>1 DEF RemoveConnection, WorkerTypeOK
    <2>3. QED
      BY <1>2, <2>2, ReceiveTypeOK DEF RemoveConnection, WorkerTypeOK
  <1>3. CASE RemoveActiveConnection
    <2>1. pending' \subseteq Request /\ invalidated' \in BOOLEAN
      BY <1>3 DEF RemoveActiveConnection, WorkerTypeOK
    <2>2. QED
      BY <1>3, <2>1, ReceiveTypeOK DEF RemoveActiveConnection, WorkerTypeOK
  <1>4. CASE OnStop
    BY <1>4, ReceiveTypeOK DEF OnStop, WorkerTypeOK
  <1>5. CASE StartNextRequest
    <2>1. PICK r \in pending :
            /\ pending' = pending \ {r}
            /\ \/ /\ active' = {r} /\ phase' = "polkit"
                  /\ invalidated' = FALSE /\ original' = "none"
                  /\ UNCHANGED toHandler
               \/ Finish(r, "ServiceUnavailable")
      BY <1>5 DEF StartNextRequest
    <2>2. r \in Request
      BY <2>1 DEF WorkerTypeOK
    <2>3. CASE Finish(r, "ServiceUnavailable")
      BY <1>5, <2>1, <2>2, <2>3, FinishTypeOK DEF StartNextRequest, WorkerTypeOK, Results, Failures
    <2>4. CASE ~Finish(r, "ServiceUnavailable")
      BY <1>5, <2>1, <2>2, <2>4 DEF StartNextRequest, WorkerTypeOK
    <2>5. QED
      BY <2>3, <2>4
  <1>6. ASSUME NEW reply, OnPolkitCheckFinished(reply)
        PROVE  WorkerTypeOK'
    <2>1. PICK r \in active :
            \/ FinishSilently
            \/ Finish(r, "AuthorizationError")
            \/ Finish(r, "AuthorizationDenied")
            \/ /\ StartDnsModeApply(r)
               /\ UNCHANGED <<toHandler, active, invalidated, original>>
      BY <1>6 DEF OnPolkitCheckFinished
    <2>2. r \in Request /\ UNCHANGED <<toWorker, alive, pending, latest, stopping, link>>
      BY <1>6, <2>1 DEF OnPolkitCheckFinished, WorkerTypeOK
    <2>3. CASE FinishSilently
      BY <2>2, <2>3 DEF FinishSilently, ClearActive, WorkerTypeOK
    <2>4. CASE Finish(r, "AuthorizationError") \/ Finish(r, "AuthorizationDenied")
      BY <2>2, <2>4, FinishTypeOK DEF WorkerTypeOK, Results, Failures
    <2>5. CASE StartDnsModeApply(r) /\ UNCHANGED <<toHandler, active, invalidated, original>>
      BY <2>2, <2>5 DEF StartDnsModeApply, WorkerTypeOK, SetCalls
    <2>6. QED
      BY <2>1, <2>3, <2>4, <2>5
  <1>7. ASSUME NEW reply \in Replies, OnResolvedCallFinished(reply)
        PROVE  WorkerTypeOK'
    <2>1. PICK r \in active :
            /\ ResolvedEffect(r, reply)
            /\ \/ FinishSilently
               \/ /\ reply # "ok" /\ original' = reply /\ phase' = "RevertLink"
                  /\ UNCHANGED <<toHandler, active, invalidated>>
               \/ reply # "ok" /\ Finish(r, Complete(reply))
               \/ /\ phase' = NextStage(phase)
                  /\ UNCHANGED <<toHandler, active, invalidated, original>>
               \/ Finish(r, "Success")
               \/ Finish(r, Complete("Success"))
      BY <1>7 DEF OnResolvedCallFinished
    <2>2. /\ r \in Request /\ UNCHANGED <<toWorker, alive, pending, latest, stopping>>
          /\ phase \in SetCalls \cup {"RevertLink"}
      BY <1>7, <2>1 DEF OnResolvedCallFinished, WorkerTypeOK
    <2>3. link' \in [ActiveConns -> LinkConfig]
      <3>1. Mode(r.prio) \in Modes
        BY DEF Mode, Modes
      <3>2. \A c \in LinkConfig : Written(c, phase, Mode(r.prio)) \in LinkConfig
        BY <2>2, <3>1 DEF Written, LinkConfig, Reverted, Modes, SetCalls
      <3>3. r.ac \in ActiveConns /\ link \in [ActiveConns -> LinkConfig]
        BY <2>2 DEF Request, WorkerTypeOK
      <3>4. QED
        BY <2>1, <3>2, <3>3 DEF ResolvedEffect
    <2>4. reply # "ok" => reply \in Failures
      BY RepliesAssumption DEF Failures
    <2>5. (reply # "ok" => Complete(reply) \in Results) /\ Complete("Success") \in Results
      BY <2>4 DEF Complete, Failures, Results, WorkerTypeOK
    <2>6. CASE FinishSilently
      BY <2>2, <2>3, <2>6 DEF FinishSilently, ClearActive, WorkerTypeOK
    <2>7. CASE /\ reply # "ok" /\ original' = reply /\ phase' = "RevertLink"
               /\ UNCHANGED <<toHandler, active, invalidated>>
      BY <2>2, <2>3, <2>4, <2>7 DEF WorkerTypeOK
    <2>8. CASE /\ phase' = NextStage(phase)
               /\ UNCHANGED <<toHandler, active, invalidated, original>>
      BY <2>2, <2>3, <2>8 DEF WorkerTypeOK, NextStage, SetCalls
    <2>9. ASSUME NEW result \in Results, Finish(r, result)
          PROVE  WorkerTypeOK'
      BY <2>2, <2>3, <2>9, FinishTypeOK DEF WorkerTypeOK
    <2>10. QED
      BY <2>1, <2>5, <2>6, <2>7, <2>8, <2>9 DEF Results
  <1>8. QED
    BY <1>1, <1>2, <1>3, <1>4, <1>5, <1>6, <1>7 DEF WorkerNext

HandlerTypeOK ==
  /\ stored \in [Profiles -> DnsSettings] /\ unread \subseteq Profiles
  /\ writes \in [Profiles -> Seq(DnsSettings)]
  /\ acState \in [ActiveConns -> AcStates] /\ removed \subseteq Profiles
  /\ seen \in [Profiles -> DnsSettings] /\ watched \subseteq Profiles
  /\ tracked \subseteq ActiveConns /\ state \in [Profiles -> ApplyState]
  /\ workerUp \in BOOLEAN /\ issued \in Nat /\ newest \in [Profiles -> Nat] /\ late \subseteq Nat
  /\ edits \in Nat /\ ip4s \in Nat

LEMMA TypeOKParts == TypeOK <=> WorkerTypeOK /\ HandlerTypeOK
  BY DEF TypeOK, WorkerTypeOK, HandlerTypeOK

LEMMA BeginRequestType ==
  ASSUME NEW s \in ApplyState
  PROVE  BeginRequest(s) \in ApplyState
  <1>1. s.gen + 1 \in Nat
    BY DEF ApplyState
  <1>2. \A n \in Nat : [s EXCEPT !.rolledBack = FALSE, !.gen = n] \in ApplyState
    BY DEF ApplyState
  <1>3. BeginRequest(s) = [s EXCEPT !.rolledBack = FALSE, !.gen = s.gen + 1]
    BY DEF BeginRequest, ApplyState
  <1>4. QED
    BY <1>1, <1>2, <1>3

\* The state and the message a request leaves behind.
LEMMA RequestTypeOK ==
  ASSUME TypeOK, NEW p \in Profiles, NEW a \in ActiveConns, NEW s \in DnsSettings,
         NEW isCompare \in BOOLEAN, RequestApplyDnsModeIfChanged(p, a, s, isCompare)
  PROVE  /\ toWorker' \in Seq(Message) /\ state' \in [Profiles -> ApplyState]
         /\ workerUp' \in BOOLEAN /\ issued' \in Nat /\ newest' \in [Profiles -> Nat]
         /\ late' \subseteq Nat
  <1> DEFINE prio    == EffectivePriority(s)
             cleared == [state[p] EXCEPT !.rolledBack = FALSE]
             begun   == BeginRequest(cleared)
             request == [profile |-> p, ac |-> a, gen |-> begun.gen, prio |-> prio,
                         sn |-> issued + 1]
  <1>1. prio \in Priorities
    BY PrioritiesAssumption DEF EffectivePriority, DnsSettings
  <1>2. cleared \in ApplyState /\ begun \in ApplyState /\ begun.gen \in Nat
    <2>1. state[p] \in ApplyState
      BY DEF TypeOK
    <2>2. cleared \in ApplyState
      BY <2>1 DEF ApplyState
    <2>3. begun \in ApplyState
      BY <2>2, BeginRequestType
    <2>4. QED
      BY <2>2, <2>3 DEF ApplyState
  <1>3. [kind |-> "apply", req |-> request] \in Message
    BY <1>1, <1>2 DEF TypeOK, Message, Request
  <1>4. CASE UNCHANGED state /\ UNCHANGED <<toWorker, workerUp, issued, newest, late>>
    BY <1>4 DEF TypeOK
  <1>5. CASE state' = [state EXCEPT ![p] = cleared] /\ UNCHANGED <<toWorker, workerUp, issued, newest, late>>
    BY <1>2, <1>5 DEF TypeOK
  <1>6. CASE /\ state' = [state EXCEPT ![p] = begun]
             /\ workerUp' = TRUE
             /\ toWorker' = Append(toWorker, [kind |-> "apply", req |-> request])
             /\ issued' = issued + 1 /\ newest' = [newest EXCEPT ![p] = issued + 1]
             /\ late' = IF p \in watched THEN late ELSE late \cup {issued + 1}
    <2>1. toWorker' \in Seq(Message)
      BY <1>3, <1>6, AppendIsSeq DEF TypeOK
    <2>2. QED
      BY <1>2, <1>6, <2>1 DEF TypeOK
  <1>7. QED
    BY <1>4, <1>5, <1>6 DEF RequestApplyDnsModeIfChanged

LEMMA PostTypeOK ==
  ASSUME toWorker \in Seq(Message), NEW m \in Message, Post(m)
  PROVE  toWorker' \in Seq(Message)
  BY AppendIsSeq DEF Post

\* Type correctness of the whole: of the handler's steps and NetworkManager's,
\* given that the worker keeps its part.
LEMMA InitTypeOK == Init => TypeOK
  <1> SUFFICES ASSUME Init PROVE TypeOK
    OBVIOUS
  <1>1. WorkerTypeOK
    <2>1. link \in [ActiveConns -> LinkConfig]
      BY DEF Init, WorkerInit, LinkConfig, Reverted, Modes
    <2>2. toWorker \in Seq(Message) /\ toHandler \in Seq(Answer) /\ latest \in [Profiles -> Nat]
      BY DEF Init, WorkerInit
    <2>3. QED
      BY <2>1, <2>2 DEF Init, WorkerInit, WorkerTypeOK
  <1>2. FreshState \in ApplyState
    BY PrioritiesAssumption DEF FreshState, ApplyState
  <1>3. HandlerTypeOK
    <2>1. stored \in [Profiles -> DnsSettings] /\ seen \in [Profiles -> DnsSettings]
      BY SettingsAssumption DEF Init
    <2>2. writes \in [Profiles -> Seq(DnsSettings)]
      BY DEF Init
    <2>3. acState \in [ActiveConns -> AcStates]
      BY DEF Init, AcStates
    <2>4. state \in [Profiles -> ApplyState] /\ newest \in [Profiles -> Nat]
      BY <1>2 DEF Init
    <2>5. QED
      BY <2>1, <2>2, <2>3, <2>4, InitialAssumption DEF Init, HandlerTypeOK
  <1>4. QED
    BY <1>1, <1>3, TypeOKParts

LEMMA StepTypeOK == TypeOK /\ [Next]_vars => TypeOK'
  <1> SUFFICES ASSUME TypeOK, [Next]_vars PROVE TypeOK'
    OBVIOUS
  <1>1. CASE WorkerStep
    <2>1. WorkerTypeOK'
      BY <1>1, WorkerKeepsType, TypeOKParts DEF WorkerStep
    <2>2. HandlerTypeOK'
      BY <1>1, TypeOKParts DEF WorkerStep, nmVars, handlerVars, HandlerTypeOK
    <2>3. QED
      BY <2>1, <2>2 DEF TypeOK, WorkerTypeOK, HandlerTypeOK
  <1>2. CASE OnApplyFinished
    <2> DEFINE m == Head(toHandler)
               p == m.profile
               target == IF state[p].hasApplied THEN state[p].applied ELSE 0
    <2>1. m \in Answer /\ Tail(toHandler) \in Seq(Answer)
      BY <1>2, TakeHead DEF OnApplyFinished, TypeOK
    <2>2. /\ p \in Profiles /\ m.gen \in Nat /\ m.prio \in Priorities
          /\ state \in [Profiles -> ApplyState] /\ state[p] \in ApplyState
          /\ seen[p] \in DnsSettings /\ writes \in [Profiles -> Seq(DnsSettings)]
      <3>1. p \in Profiles /\ m.gen \in Nat /\ m.prio \in Priorities
        BY <2>1 DEF Answer
      <3>2. QED
        BY <3>1 DEF TypeOK
    <2> HIDE DEF m, p
    <2>3. target \in Priorities
      BY <2>2, PrioritiesAssumption DEF ApplyState
    <2> HIDE DEF target
    <2>4. CommitApplied(state[p], m.gen, m.prio) \in ApplyState
      BY <2>2 DEF CommitApplied, ApplyState
    <2>5. RolledBackTo(state[p], target) \in ApplyState
      BY <2>2, <2>3 DEF RolledBackTo, ApplyState
    <2>6. state' \in [Profiles -> ApplyState]
      BY <1>2, <2>2, <2>4, <2>5 DEF OnApplyFinished, m, p, target
    <2>7. writes' \in [Profiles -> Seq(DnsSettings)]
      <3>1. [seen[p] EXCEPT !.dns4 = target, !.dns6 = target] \in DnsSettings
        BY <2>2, <2>3 DEF DnsSettings
      <3>2. Append(writes[p], [seen[p] EXCEPT !.dns4 = target, !.dns6 = target]) \in Seq(DnsSettings)
        BY <2>2, <3>1, AppendIsSeq
      <3>3. \/ RollbackConnectionDnsPriority(p, target)
            \/ UNCHANGED writes
        BY <1>2 DEF OnApplyFinished, m, p, target
      <3>4. CASE RollbackConnectionDnsPriority(p, target)
        BY <2>2, <3>2, <3>4 DEF RollbackConnectionDnsPriority
      <3>5. QED
        BY <2>2, <3>3, <3>4
    <2>8. QED
      BY <1>2, <2>1, <2>6, <2>7 DEF OnApplyFinished, TypeOK, workerVars
  <1>3. CASE Destroy
    <2>1. toWorker' \in Seq(Message)
      BY <1>3, PostTypeOK DEF Destroy, Message, TypeOK
    <2>2. toHandler' = <<>> /\ alive' \in BOOLEAN
      BY <1>3, Zenon DEF Destroy
    <2>3. UNCHANGED <<workerVars, nmVars, handlerVars, edits, ip4s>>
      BY <1>3, Zenon DEF Destroy
    <2>4. toHandler' \in Seq(Answer) /\ alive' \in BOOLEAN
      BY <2>2
    <2>5. WorkerTypeOK'
      BY <2>1, <2>3, <2>4, TypeOKParts DEF WorkerTypeOK, workerVars
    <2>6. HandlerTypeOK'
      BY <2>3, TypeOKParts DEF HandlerTypeOK, nmVars, handlerVars
    <2>7. QED
      BY <2>5, <2>6 DEF TypeOK, WorkerTypeOK, HandlerTypeOK
  <1>4. ASSUME NEW p \in Profiles, OnConnectionAdded(p) PROVE TypeOK'
    BY <1>4 DEF OnConnectionAdded, TypeOK, workerVars, nmVars
  <1>5. ASSUME NEW p \in Profiles, OnConnectionRemoved(p) PROVE TypeOK'
    <2>1. toWorker' \in Seq(Message)
      BY <1>5, PostTypeOK DEF OnConnectionRemoved, Message, TypeOK
    <2>2. FreshState \in ApplyState
      BY PrioritiesAssumption DEF FreshState, ApplyState
    <2>3. QED
      BY <1>5, <2>1, <2>2 DEF OnConnectionRemoved, TypeOK, workerVars
  <1>6. ASSUME NEW p \in Profiles, OnConnectionUpdated(p) PROVE TypeOK'
    <2>1. /\ toWorker' \in Seq(Message) /\ state' \in [Profiles -> ApplyState]
          /\ workerUp' \in BOOLEAN /\ issued' \in Nat /\ newest' \in [Profiles -> Nat]
          /\ late' \subseteq Nat
      BY <1>6, RequestTypeOK DEF OnConnectionUpdated, TypeOK
    <2>2. QED
      BY <1>6, <2>1 DEF OnConnectionUpdated, TypeOK, workerVars
  <1>7. ASSUME NEW p \in Profiles, UpdateAnswered(p) PROVE TypeOK'
    <2>1. Head(writes[p]) \in DnsSettings /\ Tail(writes[p]) \in Seq(DnsSettings)
      BY <1>7, TakeHead DEF UpdateAnswered, TypeOK
    <2>2. QED
      BY <1>7, <2>1 DEF UpdateAnswered, TypeOK, workerVars, handlerVars
  <1>8. ASSUME NEW p \in Profiles, NEW s \in Settings, EditProfile(p, s) PROVE TypeOK'
    BY <1>8, SettingsAssumption DEF EditProfile, TypeOK, workerVars, handlerVars
  <1>9. ASSUME NEW a \in ActiveConns, OnActiveConnectionAdded(a) PROVE TypeOK'
    BY <1>9 DEF OnActiveConnectionAdded, TypeOK, workerVars, AcStates
  <1>10. ASSUME NEW a \in ActiveConns, Activated(a) PROVE TypeOK'
    BY <1>10 DEF Activated, TypeOK, workerVars, handlerVars, AcStates
  <1>11. ASSUME NEW a \in ActiveConns, OnVpnIp4ConfigChanged(a) PROVE TypeOK'
    <2>1. Owner[a] \in Profiles /\ seen[Owner[a]] \in DnsSettings
      BY OwnerAssumption DEF TypeOK
    <2>2. /\ toWorker' \in Seq(Message) /\ state' \in [Profiles -> ApplyState]
          /\ workerUp' \in BOOLEAN /\ issued' \in Nat /\ newest' \in [Profiles -> Nat]
          /\ late' \subseteq Nat
      BY <1>11, <2>1, RequestTypeOK DEF OnVpnIp4ConfigChanged
    <2>3. QED
      BY <1>11, <2>2 DEF OnVpnIp4ConfigChanged, TypeOK, workerVars, nmVars
  <1>12. ASSUME NEW a \in ActiveConns, OnActiveConnectionRemoved(a) PROVE TypeOK'
    <2>1. toWorker' \in Seq(Message)
      BY <1>12, PostTypeOK DEF OnActiveConnectionRemoved, Message, TypeOK
    <2>2. QED
      BY <1>12, <2>1 DEF OnActiveConnectionRemoved, TypeOK, workerVars, AcStates
  <1>13. CASE UNCHANGED vars
    BY <1>13 DEF vars, TypeOK, workerVars, nmVars, handlerVars
  <1>14. QED
    BY <1>1, <1>2, <1>3, <1>4, <1>5, <1>6, <1>7, <1>8, <1>9, <1>10, <1>11, <1>12, <1>13 DEF Next

\* Every variable keeps its type: in particular no answer carries anything but
\* one of the five results, and at most one request is in progress.
THEOREM TypeCorrect == Spec => []TypeOK
  BY InitTypeOK, StepTypeOK, PTL DEF Spec
-----------------------------------------------------------------------------
(* The chain of calls of one request *)

\* What the stage that is under way says of the request and of its link.
Chain ==
  /\ ActiveHasCall
  /\ phase \in SetCalls \cup {"polkit"} => original = "none"
  /\ \A r \in active :
       /\ phase \in SetCalls => Mode(r.prio) # "notSet"
       /\ phase = "SetLinkDomains" => link[r.ac].dns
       /\ phase = "SetLinkDefaultRoute" => link[r.ac].dns /\ link[r.ac].domains = Mode(r.prio)
       /\ phase = "RevertLink" /\ original = "none" => Mode(r.prio) = "notSet"

SuccessNow == Reports("Success") => \A r \in active : link'[r.ac] = Configured(Mode(r.prio))

FailureNow ==
  \A result \in Failures : Reports(result) /\ phase \notin {"idle", "polkit"} =>
     \A r \in active : Whole(link'[r.ac]) \/ (phase = "RevertLink" /\ UNCHANGED link)

LEMMA ModeType == \A prio : Mode(prio) \in Modes
  BY DEF Mode, Modes

\* A step that reports reports what it finishes with.
LEMMA ReportsIts ==
  ASSUME TypeOK, NEW r \in active, NEW its, NEW result, Report(r, its), Reports(result)
  PROVE  result = its
  <1> DEFINE m == [profile |-> r.profile, gen |-> r.gen, prio |-> r.prio, sn |-> r.sn, result |-> its]
  <1>1. toHandler' = Append(toHandler, m) \/ toHandler' = toHandler
    BY DEF Report
  <1>2. toHandler \in Seq(Answer) /\ Len(toHandler) \in Nat
    BY DEF TypeOK
  <1>3. toHandler' = Append(toHandler, m)
    BY <1>1, <1>2 DEF Reports
  <1>4. Len(toHandler') = Len(toHandler) + 1 /\ toHandler'[Len(toHandler) + 1] = m
    BY <1>2, <1>3
  <1> QED
    BY <1>4 DEF Reports

LEMMA QuietStep ==
  ASSUME TypeOK, \/ UNCHANGED toHandler
                 \/ toHandler # <<>> /\ toHandler' = Tail(toHandler)
                 \/ toHandler' = <<>>
  PROVE  \A result : ~Reports(result)
  <1>1. toHandler \in Seq(Answer)
    BY DEF TypeOK
  <1>2. Len(toHandler') \in Nat /\ Len(toHandler) \in Nat /\ Len(toHandler') <= Len(toHandler)
    BY <1>1
  <1> QED
    BY <1>2 DEF Reports

LEMMA ChainEnds ==
  ASSUME ClearActive
  PROVE  Chain'
  BY DEF ClearActive, Chain, ActiveHasCall, SetCalls

LEMMA ChainStays ==
  ASSUME Chain, UNCHANGED <<active, phase, original, link>>
  PROVE  Chain'
  BY DEF Chain, ActiveHasCall

\* A call has its effect on the link, or, when it fails, perhaps none.
LEMMA EffectIs ==
  ASSUME TypeOK, NEW r \in active, NEW reply, ResolvedEffect(r, reply)
  PROVE  \/ link'[r.ac] = Written(link[r.ac], phase, Mode(r.prio))
         \/ reply # "ok" /\ UNCHANGED link
  BY DEF TypeOK, Request, ResolvedEffect

LEMMA WrittenIs ==
  ASSUME NEW config \in LinkConfig, NEW mode \in Modes
  PROVE  /\ Written(config, "SetLinkDns", mode).dns
         /\ Written(config, "SetLinkDomains", mode) =
              [dns |-> config.dns, domains |-> mode, route |-> config.route]
         /\ Written(config, "SetLinkDefaultRoute", mode) =
              [dns |-> config.dns, domains |-> config.domains, route |-> mode]
         /\ Written(config, "RevertLink", mode) = Configured("notSet")
  BY DEF Written, LinkConfig, Reverted, Configured

LEMMA ResolvedStep ==
  ASSUME TypeOK, Chain, NEW reply \in Replies, OnResolvedCallFinished(reply)
  PROVE  Chain' /\ SuccessNow /\ FailureNow
  <1>1. PICK r \in active :
          /\ ResolvedEffect(r, reply)
          /\ \/ invalidated /\ FinishSilently
             \/ /\ ~invalidated /\ reply # "ok" /\ BeginsRollback(phase)
                /\ original' = reply /\ phase' = "RevertLink"
                /\ UNCHANGED <<toHandler, active, invalidated>>
             \/ /\ ~invalidated /\ reply # "ok" /\ ~BeginsRollback(phase)
                /\ Finish(r, Complete(reply))
             \/ /\ ~invalidated /\ reply = "ok" /\ phase \in {"SetLinkDns", "SetLinkDomains"}
                /\ phase' = NextStage(phase)
                /\ UNCHANGED <<toHandler, active, invalidated, original>>
             \/ /\ ~invalidated /\ reply = "ok" /\ phase = "SetLinkDefaultRoute"
                /\ Finish(r, "Success")
             \/ /\ ~invalidated /\ reply = "ok" /\ phase = "RevertLink"
                /\ Finish(r, Complete("Success"))
    BY DEF OnResolvedCallFinished
  <1> DEFINE mode == Mode(r.prio)
  <1>2. /\ active = {r} /\ r.ac \in ActiveConns /\ link[r.ac] \in LinkConfig /\ mode \in Modes
        /\ phase \in SetCalls \cup {"RevertLink"}
        /\ original \in Failures \cup {"none"} /\ reply \in {"ok", "ServiceUnavailable", "DbusError"}
    BY ModeType, RepliesAssumption DEF TypeOK, Request, OnResolvedCallFinished
  <1>3. \/ link'[r.ac] = Written(link[r.ac], phase, mode)
        \/ reply # "ok" /\ UNCHANGED link
    BY <1>1, EffectIs
  <1>4. CASE invalidated
    <2>1. ClearActive /\ UNCHANGED toHandler
      BY <1>1, <1>4 DEF FinishSilently
    <2> QED
      BY <2>1, ChainEnds, QuietStep DEF SuccessNow, FailureNow
  <1>5. CASE ~invalidated /\ reply # "ok" /\ BeginsRollback(phase)
    <2>1. /\ original' = reply /\ phase' = "RevertLink"
          /\ UNCHANGED <<toHandler, active>>
      BY <1>1, <1>5 DEF BeginsRollback, SetCalls
    <2>2. Chain'
      BY <1>2, <1>5, <2>1 DEF Chain, ActiveHasCall, SetCalls
    <2> QED
      BY <2>1, <2>2, QuietStep DEF SuccessNow, FailureNow
  <1>6. CASE ~invalidated /\ reply # "ok" /\ ~BeginsRollback(phase)
    <2>1. phase = "RevertLink"
      BY <1>2, <1>6 DEF Chain, BeginsRollback
    <2>2. Finish(r, Complete(reply))
      BY <1>1, <1>6
    <2>3. Complete(reply) # "Success"
      BY <1>2, <1>6 DEF Complete, Failures
    <2>4. ~Reports("Success")
      BY <2>2, <2>3, ReportsIts DEF Finish
    <2>5. Whole(link'[r.ac]) \/ UNCHANGED link
      BY <1>2, <1>3, <2>1, WrittenIs DEF Whole, Modes
    <2> QED
      BY <1>2, <2>1, <2>2, <2>4, <2>5, ChainEnds DEF SuccessNow, FailureNow, Finish
  <1>7. CASE ~invalidated /\ reply = "ok" /\ phase \in {"SetLinkDns", "SetLinkDomains"}
    <2>1. /\ phase' = NextStage(phase) /\ UNCHANGED <<toHandler, active, original>>
          /\ link'[r.ac] = Written(link[r.ac], phase, mode)
      BY <1>1, <1>3, <1>7
    <2>2. CASE phase = "SetLinkDns"
      <3>1. phase' = "SetLinkDomains" /\ link'[r.ac].dns
        BY <1>2, <2>1, <2>2, WrittenIs DEF NextStage
      <3>2. Chain'
        BY <1>2, <2>1, <2>2, <3>1 DEF Chain, ActiveHasCall, SetCalls
      <3> QED
        BY <2>1, <3>2, QuietStep DEF SuccessNow, FailureNow
    <2>3. CASE phase = "SetLinkDomains"
      <3>1. phase' = "SetLinkDefaultRoute" /\ link'[r.ac].dns /\ link'[r.ac].domains = mode
        BY <1>2, <2>1, <2>3, WrittenIs DEF NextStage, Chain
      <3>2. Chain'
        BY <1>2, <2>1, <2>3, <3>1 DEF Chain, ActiveHasCall, SetCalls
      <3> QED
        BY <2>1, <3>2, QuietStep DEF SuccessNow, FailureNow
    <2> QED
      BY <1>7, <2>2, <2>3
  <1>8. CASE ~invalidated /\ reply = "ok" /\ phase = "SetLinkDefaultRoute"
    <2>1. Finish(r, "Success")
      BY <1>1, <1>8 DEF Finish, ClearActive
    <2>2. link'[r.ac] = Configured(mode)
      <3>1. link[r.ac].dns = TRUE /\ link[r.ac].domains = mode /\ mode # "notSet"
        BY <1>2, <1>8 DEF Chain, SetCalls, LinkConfig
      <3> QED
        BY <1>2, <1>3, <1>8, <3>1, WrittenIs DEF Configured
    <2>3. Chain' /\ SuccessNow
      BY <1>2, <2>1, <2>2, ChainEnds DEF SuccessNow, Finish
    <2>4. FailureNow
      BY <1>2, <2>2 DEF FailureNow, Whole
    <2> QED
      BY <2>3, <2>4
  <1>9. CASE ~invalidated /\ reply = "ok" /\ phase = "RevertLink"
    <2>1. Finish(r, Complete("Success"))
      BY <1>1, <1>9
    <2>2. link'[r.ac] = Configured("notSet")
      BY <1>2, <1>3, <1>9, WrittenIs
    <2>3. Reports("Success") => mode = "notSet"
      <3>1. Reports("Success") => Complete("Success") = "Success"
        BY <2>1, ReportsIts DEF Finish
      <3> QED
        BY <1>2, <1>9, <3>1 DEF Complete, Chain, Failures
    <2>4. Whole(link'[r.ac])
      BY <2>2 DEF Whole, Modes
    <2> QED
      BY <1>2, <2>1, <2>2, <2>3, <2>4, ChainEnds DEF SuccessNow, FailureNow, Finish
  <1> QED
    BY <1>1, <1>4, <1>5, <1>6, <1>7, <1>8, <1>9

\* Nothing but an answer of polkit or of systemd-resolved moves the chain.
LEMMA OtherStep ==
  ASSUME TypeOK, Chain, OnStop \/ StartNextRequest
                        \/ \E reply \in {"error", "denied", "authorized"} : OnPolkitCheckFinished(reply)
  PROVE  Chain' /\ SuccessNow /\ FailureNow
  <1>1. CASE OnStop
    <2>1. ClearActive /\ UNCHANGED toHandler
      BY <1>1 DEF OnStop, WorkerReceive, ClearActive
    <2> QED
      BY <2>1, ChainEnds, QuietStep DEF SuccessNow, FailureNow
  <1>2. CASE StartNextRequest
    <2>1. active = {} /\ phase = "idle"
      BY <1>2 DEF StartNextRequest, Chain, ActiveHasCall
    <2>2. SuccessNow /\ FailureNow
      BY <2>1 DEF SuccessNow, FailureNow
    <2>3. PICK r \in pending :
            \/ active' = {r} /\ phase' = "polkit" /\ original' = "none"
            \/ Finish(r, "ServiceUnavailable")
      BY <1>2 DEF StartNextRequest
    <2>4. Chain'
      BY <2>3, ChainEnds DEF Chain, ActiveHasCall, SetCalls, Finish
    <2> QED
      BY <2>2, <2>4
  <1>3. ASSUME NEW reply \in {"error", "denied", "authorized"}, OnPolkitCheckFinished(reply)
        PROVE  Chain' /\ SuccessNow /\ FailureNow
    <2>1. phase = "polkit" /\ UNCHANGED link
      BY <1>3 DEF OnPolkitCheckFinished
    <2>2. FailureNow
      BY <2>1 DEF FailureNow
    <2>3. PICK r \in active :
            \/ FinishSilently
            \/ Finish(r, "AuthorizationError") \/ Finish(r, "AuthorizationDenied")
            \/ StartDnsModeApply(r) /\ UNCHANGED <<toHandler, active, original>>
      BY <1>3 DEF OnPolkitCheckFinished
    <2>4. SuccessNow
      <3>1. ~Reports("Success")
        BY <2>3, ReportsIts, QuietStep DEF Finish, FinishSilently
      <3> QED
        BY <3>1 DEF SuccessNow
    <2>5. Chain'
      <3>1. CASE StartDnsModeApply(r) /\ UNCHANGED <<active, original>>
        <4>1. active = {r}
          BY DEF TypeOK
        <4>2. original = "none"
          BY <2>1 DEF Chain
        <4> QED
          BY <2>1, <3>1, <4>1, <4>2 DEF StartDnsModeApply, Chain, ActiveHasCall, SetCalls
      <3> QED
        BY <2>3, <3>1, ChainEnds DEF Finish, FinishSilently
    <2> QED
      BY <2>2, <2>4, <2>5
  <1> QED
    BY <1>1, <1>2, <1>3

LEMMA ChainStep ==
  ASSUME TypeOK, Chain, [Next]_vars
  PROVE  Chain' /\ SuccessNow /\ FailureNow
  <1>1. CASE /\ UNCHANGED <<active, phase, original, link>>
             /\ \/ UNCHANGED toHandler
                \/ toHandler # <<>> /\ toHandler' = Tail(toHandler)
                \/ toHandler' = <<>>
    BY <1>1, ChainStays, QuietStep DEF SuccessNow, FailureNow
  <1>2. CASE WorkerStep
    <2>1. CASE OnApplyDnsMode \/ RemoveConnection \/ RemoveActiveConnection
      <3>1. UNCHANGED <<active, phase, original, link, toHandler>>
        BY <2>1 DEF OnApplyDnsMode, RemoveConnection, RemoveActiveConnection, WorkerReceive
      <3> QED
        BY <1>1, <3>1
    <2> QED
      BY <1>2, <2>1, ResolvedStep, OtherStep DEF WorkerStep, WorkerNext
  <1> QED
    BY <1>1, <1>2, Zenon
       DEF Next, vars, workerVars, OnApplyFinished, Destroy, OnConnectionAdded, OnConnectionRemoved,
           OnConnectionUpdated, UpdateAnswered, EditProfile, OnActiveConnectionAdded, Activated,
           OnVpnIp4ConfigChanged, OnActiveConnectionRemoved

LEMMA InitChain == Init => Chain
  BY DEF Init, WorkerInit, Chain, ActiveHasCall, SetCalls

\* A request in progress always waits for an answer, and an answer is only waited for
\* by a request in progress: none is left that nothing will ever end.
THEOREM CallIsOutstanding == Spec => []ActiveHasCall
  <1>1. TypeOK /\ Chain /\ [Next]_vars => Chain'
    BY ChainStep
  <1>2. Chain => ActiveHasCall
    BY DEF Chain
  <1> QED
    BY <1>1, <1>2, InitChain, TypeCorrect, PTL DEF Spec

\* A request is reported a success only with its link configured for it in full: for
\* any priorities, and calls that fail, whether they took effect or not, in any stage.
THEOREM SuccessOnLink == Spec => SuccessIsOnLink
  <1>1. TypeOK /\ Chain /\ [Next]_vars => Chain'
    BY ChainStep
  <1>2. TypeOK /\ Chain /\ [Next]_vars
        => [Reports("Success") => \A r \in active : link'[r.ac] = Configured(Mode(r.prio))]_vars
    BY ChainStep DEF SuccessNow
  <1> QED
    BY <1>1, <1>2, InitChain, TypeCorrect, PTL DEF Spec, SuccessIsOnLink

\* A request that fails in a stage leaves its link in one mode, or in what the call
\* that was to revert it found, if that call has failed without an effect.
THEOREM FailureWhole == Spec => FailureLeavesLinkWhole
  <1>1. TypeOK /\ Chain /\ [Next]_vars => Chain'
    BY ChainStep
  <1>2. TypeOK /\ Chain /\ [Next]_vars
        => [\A result \in Failures : Reports(result) /\ phase \notin {"idle", "polkit"} =>
              \A r \in active : Whole(link'[r.ac]) \/ (phase = "RevertLink" /\ UNCHANGED link)]_vars
    BY ChainStep DEF FailureNow
  <1> QED
    BY <1>1, <1>2, InitChain, TypeCorrect, PTL DEF Spec, FailureLeavesLinkWhole
=============================================================================
