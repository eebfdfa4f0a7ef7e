------------------------------- MODULE SecretAgent -------------------------------
(***************************************************************************)
(* The secret agent of a user session (session/networksecretagent.cpp): it *)
(* answers NetworkManager's requests for passwords from the keyring, or by *)
(* asking the user, through a panel connected to its local socket (the      *)
(* clients, net-view/operation/private/netsecretagentforui.cpp) or through  *)
(* a dialog it runs as a process.                                          *)
(*                                                                         *)
(* A request asks for one secret.  Time is abstract: a timer that is        *)
(* running may fire, timers of the same length in the order they started.   *)
(*                                                                         *)
(* A definition X_Slip is X with a mistake of the kind a property is there  *)
(* to catch; no specification uses it.                                      *)
(***************************************************************************)
EXTENDS SecretKeyring, Integers, Sequences, FiniteSets

CONSTANTS
  Kind,          \* what each connection is
  Clients,       \* panels of the session
  MaxCalls,      \* bound: GetSecrets calls
  MaxInputs      \* bound: how often panels go away or profiles are saved

Kinds == {"wireless", "wired", "pppoe", "vpn", "openconnect"}

ASSUME KindAssumption == Kind \in [Conns -> Kinds]
ASSUME CallBoundsAssumption == MaxCalls \in Nat /\ MaxInputs \in Nat

VARIABLES
  last,          \* m_callNextId
  request,       \* what each call asks for
  status,        \* SecretsRequest::Status; m_calls holds the calls that wait
  timers,        \* GET_SECRETS_TIMEOUT timers running
  near,          \* calls made within a second after the previous one
  ahead,         \* calls whose createTime is ahead of a clock that was set back
  waitTimer,     \* m_waitClientTimer runs
  written,       \* the call whose secret was written and is yet to be read back
  lost,          \* history: calls whose secret could not be written
  clients,       \* m_clients
  down, up,      \* the local socket to and from each client
  task,          \* m_callId of each client: the call its panel asks about, 0 if none
  dialogs,       \* calls with a dialog process running
  flag,          \* NetworkManager: secret flags of each profile
  waiting,       \* NetworkManager: calls it waits for
  replies,       \* history: what was sent back to each call
  typed,         \* history: what users typed for each call
  inputs         \* counter for the bound

writeVars  == <<written, lost>>
agentVars  == <<last, request, status, timers, near, ahead, waitTimer, writeVars>>
clientVars == <<clients, down, up, task>>
nmVars     == <<flag, waiting, replies>>
vars == <<keyringVars, agentVars, clientVars, dialogs, nmVars, typed, inputs>>

Ids   == 1..MaxCalls
Flags == {"None", "AgentOwned", "NotSaved"}

\* The copy of the connection that NetworkManager passes, and its flags.
Request == [conn: Conns, flag: Flags, given: MaybeSecret, interact: BOOLEAN, new: BOOLEAN]

Statuses == {"Unused", "WaitClient", "WaitDialog", "End", "TimedOut"}
Reply    == [ok: BOOLEAN, secret: MaybeSecret]

Held(id) == status[id] \in {"WaitClient", "WaitDialog"}
Calls    == {id \in 1..last : Held(id)}
First(S) == CHOOSE id \in S : \A other \in S : id <= other
KindOf(id) == Kind[request[id].conn]

\* The secret typed for a call belongs into the keyring.
Kept(id) == KindOf(id) # "vpn" /\ request[id].flag = "AgentOwned"

TypeOK ==
  /\ keyring \in [Conns -> MaybeSecret] /\ locked \in BOOLEAN
  /\ last \in 0..MaxCalls /\ request \in [Ids -> Request \cup {<<>>}]
  /\ status \in [Ids -> Statuses]
  /\ \A id \in Ids : (id <= last => request[id] \in Request) /\ (id > last => status[id] = "Unused")
  /\ timers \subseteq 1..last /\ near \subseteq 1..last /\ ahead \subseteq 1..last
  /\ waitTimer \in BOOLEAN
  /\ written \subseteq [id: Calls, secret: Secrets] /\ lost \subseteq 1..last
  /\ clients \subseteq Clients /\ down \in [Clients -> Seq(Ids)]
  /\ up \in [Clients -> Seq([id: Ids, secret: MaybeSecret])]
  /\ task \in [Clients -> 0..MaxCalls] /\ dialogs \subseteq Ids
  /\ flag \in [Conns -> Flags] /\ waiting \subseteq Ids
  /\ replies \in [Ids -> Seq(Reply)] /\ typed \in [Ids -> SUBSET Secrets]
  /\ inputs \in Nat

Init ==
  /\ keyring \in [Conns -> MaybeSecret] /\ locked \in BOOLEAN
  /\ flag \in [Conns -> Flags]
  /\ \A c \in Conns : keyring[c] # NoSecret => flag[c] = "AgentOwned"
  /\ last = 0 /\ request = [id \in Ids |-> <<>>] /\ status = [id \in Ids |-> "Unused"]
  /\ timers = {} /\ near = {} /\ ahead = {} /\ waitTimer = FALSE
  /\ written = {} /\ lost = {}
  /\ clients = {} /\ down = [c \in Clients |-> <<>>] /\ up = [c \in Clients |-> <<>>]
  /\ task = [c \in Clients |-> 0] /\ dialogs = {}
  /\ waiting = {}
  /\ replies = [id \in Ids |-> <<>>] /\ typed = [id \in Ids |-> {}]
  /\ inputs = 0

-----------------------------------------------------------------------------
(* Asking and answering *)

\* Sends a reply (sendError when not ok) and takes the call out of m_calls.
Answer(id, ok, secret) ==
  /\ replies' = [replies EXCEPT ![id] = Append(@, [ok |-> ok, secret |-> secret])]
  /\ status' = [status EXCEPT ![id] = "End"]

\* runAuthDialog: a request for a wireless network goes to every panel there is.
RunAuthDialog(id, isWireless, panels) ==
  /\ status' = [status EXCEPT ![id] = "WaitDialog"]
  /\ IF isWireless /\ panels # {}
     THEN /\ down' = [c \in Clients |-> IF c \in panels THEN Append(down[c], id) ELSE down[c]]
          /\ UNCHANGED dialogs
     ELSE dialogs' = dialogs \cup {id} /\ UNCHANGED down

\* askPasswords: a request for a wireless network waits for a panel to connect.
AskPasswords(id, isWireless) ==
  IF isWireless /\ clients = {}
  THEN /\ status' = [status EXCEPT ![id] = "WaitClient"]
       /\ waitTimer' = TRUE
       /\ UNCHANGED <<down, dialogs>>
  ELSE RunAuthDialog(id, isWireless, clients) /\ UNCHANGED waitTimer

\* processGetSecrets: whether the user has to be asked.  isMustAsk names no secret
\* of a PPPoE connection.
MustAsk(r) ==
  /\ r.interact
  /\ CASE Kind[r.conn] = "vpn"   -> r.flag = "NotSaved"
       [] Kind[r.conn] = "pppoe" -> FALSE
       [] OTHER -> \/ r.flag = "NotSaved"
                   \/ r.flag = "None" /\ (r.new \/ r.given = NoSecret)
                   \/ r.flag = "AgentOwned" /\ (r.new \/ Saved(r.conn) = NoSecret)

Known_SkipsKeyring(r) == IF r.flag = "None" /\ ~r.new THEN r.given ELSE NoSecret

\* processGetSecrets: what is sent back when nobody is asked.
Known(r) ==
  IF Kind[r.conn] = "vpn"
  THEN IF r.given # NoSecret /\ Saved(r.conn) # NoSecret THEN Saved(r.conn) ELSE r.given
  ELSE IF Saved(r.conn) = NoSecret THEN NoSecret
  ELSE IF r.flag = "AgentOwned" THEN Saved(r.conn)
  ELSE IF r.flag = "None" /\ ~r.new THEN r.given ELSE NoSecret

\* doSecretsResult: what is sent back for what the user has typed and the keyring does
\* not keep.  In a VPN a secret of the keyring goes first; a value the dialog was
\* started with is left out, since only secrets that NetworkManager stores are shown.
Result(r, secret) ==
  IF Kind[r.conn] = "vpn"
  THEN IF Saved(r.conn) # NoSecret THEN Saved(r.conn) ELSE secret
  ELSE IF r.flag = "None" /\ secret = r.given THEN NoSecret ELSE secret

\* A secret is written and whether it was is not looked at.
WriteTyped(id, secret) ==
  /\ \E ok \in BOOLEAN :
       /\ SetData(request[id].conn, secret, ok)
       /\ lost' = IF ok THEN lost ELSE lost \cup {id}
  /\ written' = {[id |-> id, secret |-> secret]}
  /\ UNCHANGED <<status, replies>>

\* The call is looked up only where there are secrets.
DoSecretsResult_AnyCall(id, secret) ==
  \/ ~Held(id) /\ secret # NoSecret /\ UNCHANGED <<keyringVars, status, replies, writeVars>>
  \/ /\ secret = NoSecret
     /\ Answer(id, FALSE, NoSecret)
     /\ UNCHANGED <<keyringVars, writeVars>>
  \/ /\ Held(id) /\ secret # NoSecret /\ ~Kept(id)
     /\ Answer(id, TRUE, Result(request[id], secret))
     /\ UNCHANGED <<keyringVars, writeVars>>
  \/ Held(id) /\ secret # NoSecret /\ Kept(id) /\ WriteTyped(id, secret)

\* doSecretsResult, for a call that may be gone, up to the answer or to the read of
\* the keyring.  The number of secrets always agrees: panels and dialogs send one for
\* each that was asked for.
DoSecretsResult(id, secret) ==
  \/ ~Held(id) /\ UNCHANGED <<keyringVars, status, replies, writeVars>>
  \/ /\ Held(id) /\ secret = NoSecret
     /\ Answer(id, FALSE, NoSecret)
     /\ UNCHANGED <<keyringVars, writeVars>>
  \/ /\ Held(id) /\ secret # NoSecret /\ ~Kept(id)
     /\ Answer(id, TRUE, Result(request[id], secret))
     /\ UNCHANGED <<keyringVars, writeVars>>
  \/ Held(id) /\ secret # NoSecret /\ Kept(id) /\ WriteTyped(id, secret)

Idle_EventLoop == TRUE

\* The agent's thread handles nothing while it waits for the secret service.  Others
\* go on: NetworkManager, the panels and whoever locks the keyring.
Idle == written = {}

-----------------------------------------------------------------------------
(* Calls of NetworkManager *)

\* nextId after the request was given the one before.
NextId_Late == last

NextId == last + 1

\* NetworkManager has one call for a secret of a profile at a time, passes the
\* secret if it stores it itself, and wants a new one only if the user may be asked.
GetSecrets(c, given, interact, new, soon) ==
  LET id == NextId
      r  == [conn |-> c, flag |-> flag[c], given |-> given, interact |-> interact, new |-> new]
  IN /\ Idle /\ last < MaxCalls
     /\ given # NoSecret => flag[c] = "None"
     /\ new => interact
     /\ \A w \in waiting : request[w].conn # c
     /\ last' = id /\ request' = [request EXCEPT ![id] = r]
     /\ timers' = timers \cup {id}
     /\ near' = IF soon /\ last > 0 THEN near \cup {id} ELSE near
     /\ \/ /\ Kind[c] = "openconnect"
           /\ status' = [status EXCEPT ![id] = "WaitDialog"]
           /\ dialogs' \in {dialogs, dialogs \cup {id}}   \* it may not be installed
           /\ waiting' = waiting \cup {id}
           /\ UNCHANGED <<waitTimer, down, replies>>
        \/ /\ Kind[c] # "openconnect" /\ MustAsk(r)
           /\ AskPasswords(id, Kind[c] = "wireless")
           /\ waiting' = waiting \cup {id}
           /\ UNCHANGED replies
        \/ /\ Kind[c] # "openconnect" /\ ~MustAsk(r)
           /\ Answer(id, TRUE, Known(r))
           /\ UNCHANGED <<waiting, waitTimer, down, dialogs>>
     /\ UNCHANGED <<keyringVars, writeVars, ahead, clients, up, task, flag, typed, inputs>>

\* CancelGetSecrets names a profile and a setting, not a call.  The process of the
\* call is killed: what it still says finds no call.
CancelGetSecrets(w) ==
  LET same == {id \in Calls : request[id].conn = request[w].conn} IN
  /\ Idle
  /\ w \in waiting
  /\ waiting' = waiting \ {w}
  /\ IF same = {} THEN UNCHANGED <<replies, status>>
                  ELSE Answer(First(same), FALSE, NoSecret)
  /\ UNCHANGED <<keyringVars, writeVars, last, request, timers, near, ahead, waitTimer,
                 clientVars, dialogs, flag, typed, inputs>>

\* A profile is saved with new flags, and with the secrets agents own.  One without
\* any is a request to delete.
SaveSecrets(c, f, secret) ==
  /\ Idle
  /\ inputs < MaxInputs /\ inputs' = inputs + 1
  /\ secret # NoSecret => f = "AgentOwned"
  /\ flag' = [flag EXCEPT ![c] = f]
  /\ \E ok \in BOOLEAN : SetData(c, secret, ok)
  /\ UNCHANGED <<agentVars, clientVars, dialogs, waiting, replies, typed>>

\* NetworkManager gives up as the timer of the call fires, a little before or after.
NmTimesOut(w) ==
  /\ w \in waiting /\ \A t \in timers : w <= t
  /\ waiting' = waiting \ {w}
  /\ UNCHANGED <<keyringVars, agentVars, clientVars, dialogs, flag, replies, typed, inputs>>

Expired_Strict(id) == {h \in Calls : h < id}

\* Calls created no later than a second after the one whose timer fires: timers are
\* coarse and may fire early.
Expired(id) == {h \in Calls \ ahead : h <= id \/ (h = id + 1 /\ h \in near)}

\* onGetSecretsTimeout: the first call that has expired is dropped without a reply.
OnGetSecretsTimeout(id) ==
  /\ Idle
  /\ id \in timers /\ \A t \in timers : id <= t
  /\ timers' = timers \ {id}
  /\ status' = IF Expired(id) = {} THEN status
               ELSE [status EXCEPT ![First(Expired(id))] = "TimedOut"]
  /\ UNCHANGED <<keyringVars, writeVars, last, request, near, ahead, waitTimer, clientVars,
                 dialogs, nmVars, typed, inputs>>

-----------------------------------------------------------------------------
(* Panels and dialogs *)

\* waitClientTimeOut: the first call that waits for a panel.
ServeFirstWaiting(panels) ==
  LET held == {id \in Calls : status[id] = "WaitClient"} IN
  IF held = {} THEN UNCHANGED <<status, down, dialogs>>
               ELSE RunAuthDialog(First(held), TRUE, panels)

WaitClientTimeOut ==
  /\ Idle
  /\ waitTimer /\ waitTimer' = FALSE
  /\ ServeFirstWaiting(clients)
  /\ UNCHANGED <<keyringVars, writeVars, last, request, timers, near, ahead, clients, up, task,
                 nmVars, typed, inputs>>

NewConnectionHandler(c) ==
  /\ Idle
  /\ c \notin clients /\ clients' = clients \cup {c}
  /\ waitTimer' = FALSE
  /\ ServeFirstWaiting(clients')
  /\ UNCHANGED <<keyringVars, writeVars, last, request, timers, near, ahead, up, task, nmVars,
                 typed, inputs>>

\* A panel that has quit forgets its task; one whose connection was closed after
\* two minutes does not.
DisconnectedHandler(c) ==
  /\ Idle
  /\ c \in clients /\ inputs < MaxInputs /\ inputs' = inputs + 1
  /\ clients' = clients \ {c}
  /\ down' = [down EXCEPT ![c] = <<>>] /\ up' = [up EXCEPT ![c] = <<>>]
  /\ \E t \in {0, task[c]} : task' = [task EXCEPT ![c] = t]
  /\ UNCHANGED <<keyringVars, agentVars, dialogs, nmVars, typed>>

\* NetSecretAgentForUI::requestSecrets: the newest request takes the panel's place.
RequestSecrets(c) ==
  /\ c \in clients /\ down[c] # <<>>
  /\ task' = [task EXCEPT ![c] = Head(down[c])]
  /\ down' = [down EXCEPT ![c] = Tail(@)]
  /\ UNCHANGED <<keyringVars, agentVars, clients, up, dialogs, nmVars, typed, inputs>>

Types(id, secret) ==
  typed' = IF secret = NoSecret THEN typed ELSE [typed EXCEPT ![id] = @ \cup {secret}]

\* sendSecretsResult
SendSecretsResult(c, secret) ==
  /\ c \in clients /\ task[c] # 0
  /\ Types(task[c], secret)
  /\ up' = [up EXCEPT ![c] = Append(@, [id |-> task[c], secret |-> secret])]
  /\ task' = [task EXCEPT ![c] = 0]
  /\ UNCHANGED <<keyringVars, agentVars, clients, down, dialogs, nmVars, inputs>>

\* NetworkManager takes the reply to a call.
Delivered == waiting' = {w \in waiting : replies'[w] = replies[w]}

SecretsResult(c) ==
  /\ Idle
  /\ c \in clients /\ up[c] # <<>>
  /\ up' = [up EXCEPT ![c] = Tail(@)]
  /\ DoSecretsResult(Head(up[c]).id, Head(up[c]).secret) /\ Delivered
  /\ UNCHANGED <<last, request, timers, near, ahead, waitTimer, clients, down, task, dialogs, flag,
                 typed, inputs>>

\* doSecretsResult, from the read of the keyring on: what is found there takes the place
\* of what was typed.
ReadBack ==
  \E w \in written :
    LET saved == Saved(request[w.id].conn) IN
    /\ Answer(w.id, TRUE, IF saved # NoSecret THEN saved ELSE w.secret) /\ Delivered
    /\ written' = {}
    /\ UNCHANGED <<keyringVars, lost, last, request, timers, near, ahead, waitTimer, clientVars,
                   dialogs, flag, typed, inputs>>

\* authDialogReadOutput: the dialog has printed what the user typed.
AuthDialogReadOutput(id, secret) ==
  /\ Idle
  /\ id \in dialogs /\ KindOf(id) # "openconnect" /\ typed[id] = {}
  /\ Types(id, secret)
  /\ DoSecretsResult(id, secret) /\ Delivered
  /\ UNCHANGED <<last, request, timers, near, ahead, waitTimer, clientVars, dialogs, flag, inputs>>

\* authDialogFinished, authDialogError: cancelled, closed, killed or crashed.
AuthDialogFinished(id) ==
  /\ Idle
  /\ id \in dialogs /\ KindOf(id) # "openconnect"
  /\ dialogs' = dialogs \ {id}
  /\ DoSecretsResult(id, NoSecret) /\ Delivered
  /\ UNCHANGED <<last, request, timers, near, ahead, waitTimer, clientVars, flag, typed, inputs>>

VpnDialogReadAllOutput_AnyCall(id, secret, isEnd) ==
  /\ Idle
  /\ id \in dialogs /\ KindOf(id) = "openconnect"
  /\ dialogs' = IF isEnd THEN dialogs \ {id} ELSE dialogs
  /\ Types(id, secret) /\ Answer(id, TRUE, secret) /\ Delivered
  /\ UNCHANGED <<keyringVars, writeVars, last, request, timers, near, ahead, waitTimer,
                 clientVars, flag, inputs>>

\* vpnDialogReadAllOutput: the dialog of the VPN plugin ends with what it has
\* printed, nothing if it was cancelled, or goes on after its answer is complete.
VpnDialogReadAllOutput(id, secret, isEnd) ==
  /\ Idle
  /\ id \in dialogs /\ KindOf(id) = "openconnect"
  /\ isEnd \/ secret # NoSecret
  /\ dialogs' = IF isEnd THEN dialogs \ {id} ELSE dialogs
  /\ Types(id, secret)
  /\ IF Held(id) THEN Answer(id, TRUE, secret) ELSE UNCHANGED <<status, replies>>
  /\ Delivered
  /\ UNCHANGED <<keyringVars, writeVars, last, request, timers, near, ahead, waitTimer,
                 clientVars, flag, inputs>>

\* The clock is set back by more than the time-out.
SetClockBack ==
  /\ ahead # 1..last /\ ahead' = 1..last
  /\ UNCHANGED <<keyringVars, writeVars, last, request, status, timers, near, waitTimer,
                 clientVars, dialogs, nmVars, typed, inputs>>

LockOrUnlock ==
  /\ ToggleLock
  /\ UNCHANGED <<agentVars, clientVars, dialogs, nmVars, typed, inputs>>

Next ==
  \/ \E c \in Conns, given \in MaybeSecret, interact, new, soon \in BOOLEAN :
       GetSecrets(c, given, interact, new, soon)
  \/ \E w \in 1..last :
       \/ CancelGetSecrets(w) \/ NmTimesOut(w) \/ OnGetSecretsTimeout(w)
       \/ AuthDialogFinished(w)
       \/ \E secret \in Secrets : AuthDialogReadOutput(w, secret)
       \/ \E secret \in MaybeSecret, isEnd \in BOOLEAN : VpnDialogReadAllOutput(w, secret, isEnd)
  \/ \E c \in Conns, f \in Flags, secret \in MaybeSecret : SaveSecrets(c, f, secret)
  \/ ReadBack \/ WaitClientTimeOut \/ LockOrUnlock \/ SetClockBack
  \/ \E c \in Clients :
       \/ NewConnectionHandler(c) \/ DisconnectedHandler(c) \/ RequestSecrets(c)
       \/ SecretsResult(c)
       \/ \E secret \in MaybeSecret : SendSecretsResult(c, secret)

Spec == Init /\ [][Next]_vars
-----------------------------------------------------------------------------
(* Properties *)

\* A call is answered exactly once, and is in m_calls until then; only one that has
\* timed out is left without an answer.  Panels that answer late or twice, dialogs
\* that end after they have answered, and cancellations all meet in here.
ExactlyOnce ==
  \A id \in 1..last :
    Len(replies[id]) = IF status[id] = "End" THEN 1 ELSE 0

\* Every timer drops one call at most, and yet no call is left in m_calls once its
\* own timer has fired, where nothing would ever take it out: only a clock that was
\* set back while a call waited lets that call stay.
NoneLeftBehind == \A id \in 1..last : Held(id) => id \in timers \cup ahead

\* What the user has typed for a call is what NetworkManager gets for it, or nothing
\* where NetworkManager has this very secret already.  An older secret goes out in its
\* place only where the keyring refused the new one; in a VPN, where one was saved.
TypedIsSent ==
  \A id \in 1..last :
    \A reply \in {replies[id][i] : i \in 1..Len(replies[id])} :
      KindOf(id) # "vpn" /\ reply.ok /\ typed[id] # {} =>
        \/ reply.secret \in typed[id]
        \/ reply.secret = NoSecret /\ request[id].flag # "AgentOwned"
        \/ request[id].flag = "AgentOwned" /\ id \in lost

\* A secret the keyring holds for an agent-owned profile is what NetworkManager gets
\* when it does not ask for a new one.  For a VPN the keyring is not asked.
SavedIsReturned ==
  [][\A id \in 1..last' :
       (/\ id > last /\ status'[id] = "End" /\ Kind[request'[id].conn] # "vpn"
        /\ request'[id].flag = "AgentOwned" /\ ~request'[id].new
        /\ Saved(request'[id].conn) # NoSecret)
       => replies'[id][1].secret = Saved(request'[id].conn)]_vars

\* A secret typed for an agent-owned profile is kept: the keyring holds what is sent,
\* even if it is locked again by then.  Only where it could not be written does a secret
\* go out that the keyring does not show.
TypedIsKept ==
  [][\A id \in 1..last :
       (/\ status[id] = "WaitDialog" /\ status'[id] = "End" /\ replies'[id][1].ok
        /\ request[id].flag = "AgentOwned" /\ Kind[request[id].conn] \in {"wireless", "wired"})
       => LET conn == request[id].conn IN
          \/ keyring'[conn] = replies'[id][1].secret
          \/ id \in lost /\ Saved(conn) = NoSecret]_vars
=============================================================================
