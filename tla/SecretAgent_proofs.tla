--------------------------- MODULE SecretAgent_proofs ---------------------------
(***************************************************************************)
(* Theorems about SecretAgent, for every set of connections, passwords and  *)
(* panels, every kind of connection, and every bound.                      *)
(***************************************************************************)
EXTENDS SecretAgent, WellFoundedInduction, TLAPS

(* Sequences as channels, and the call that First picks *)

LEMMA AppendIsSeq ==
  ASSUME NEW S, NEW s \in Seq(S), NEW x \in S
  PROVE  Append(s, x) \in Seq(S)
  OBVIOUS

LEMMA TakeHead ==
  ASSUME NEW S, NEW s \in Seq(S), s # <<>>
  PROVE  Head(s) \in S /\ Tail(s) \in Seq(S)
  OBVIOUS

\* First(S) is the smallest element of S.
LEMMA FirstIsSmallest ==
  ASSUME NEW S, S \subseteq Nat, S # {}
  PROVE  First(S) \in S /\ \A other \in S : First(S) <= other
  <1> DEFINE Below == {p \in Nat \X Nat : p[1] < p[2]}
  <1>1. Below = OpToRel(<, Nat)
    BY DEF OpToRel
  <1>2. IsWellFoundedOn(Below, Nat)
    BY <1>1, NatLessThanWellFounded
  <1> HIDE DEF Below
  <1>3. PICK x \in S : \A y \in S : <<y, x>> \notin Below
    BY <1>2, WFMin
  <1>4. ASSUME NEW y \in S
        PROVE  x <= y
    <2>1. x \in Nat /\ y \in Nat
      OBVIOUS
    <2>2. <<y, x>> \notin Below
      BY <1>3
    <2>3. ~ (y < x)
      BY <2>1, <2>2 DEF Below
    <2>4. QED
      BY <2>1, <2>3
  <1>5. QED
    BY <1>4 DEF First

-----------------------------------------------------------------------------
(* Type correctness *)

\* A call that is held has been made, and its request is known.
LEMMA HeldIsMade ==
  ASSUME TypeOK, NEW id \in Ids, Held(id)
  PROVE  id \in 1..last /\ request[id] \in Request /\ request[id].conn \in Conns
  BY CallBoundsAssumption DEF TypeOK, Held, Ids, Request

LEMMA CallsAreIds ==
  ASSUME TypeOK
  PROVE  Calls \subseteq Ids /\ Calls \subseteq Nat
  BY CallBoundsAssumption DEF TypeOK, Calls, Ids

LEMMA SecretTypes ==
  ASSUME TypeOK, NEW r \in Request, NEW secret \in MaybeSecret
  PROVE  /\ Saved(r.conn) \in MaybeSecret
         /\ Known(r) \in MaybeSecret
         /\ Result(r, secret) \in MaybeSecret
  BY DEF TypeOK, Saved, Known, Result, Request, MaybeSecret

LEMMA AnswerTypeOK ==
  ASSUME TypeOK, NEW id \in Ids, NEW ok \in BOOLEAN, NEW secret \in MaybeSecret,
         Answer(id, ok, secret)
  PROVE  /\ replies' \in [Ids -> Seq(Reply)] /\ status' \in [Ids -> Statuses]
         /\ \A h \in Ids : status'[h] = IF h = id THEN "End" ELSE status[h]
  <1>1. replies \in [Ids -> Seq(Reply)] /\ status \in [Ids -> Statuses]
    BY DEF TypeOK
  <1>2. Append(replies[id], [ok |-> ok, secret |-> secret]) \in Seq(Reply)
    BY <1>1, AppendIsSeq DEF Reply
  <1>3. QED
    BY <1>1, <1>2 DEF Answer, Statuses

\* RunAuthDialog for a call that has been made.
LEMMA DialogTypeOK ==
  ASSUME TypeOK, NEW id \in Ids, NEW isWireless \in BOOLEAN, NEW panels, RunAuthDialog(id, isWireless, panels)
  PROVE  /\ status' \in [Ids -> Statuses] /\ down' \in [Clients -> Seq(Ids)] /\ dialogs' \subseteq Ids
         /\ \A h \in Ids : status'[h] = IF h = id THEN "WaitDialog" ELSE status[h]
  <1>1. /\ down \in [Clients -> Seq(Ids)] /\ status \in [Ids -> Statuses]
        /\ dialogs \subseteq Ids
    BY DEF TypeOK
  <1>2. status' \in [Ids -> Statuses]
        /\ \A h \in Ids : status'[h] = IF h = id THEN "WaitDialog" ELSE status[h]
    BY <1>1 DEF RunAuthDialog, Statuses
  <1>3. \A c \in Clients : Append(down[c], id) \in Seq(Ids)
    BY <1>1, AppendIsSeq
  <1>4. down' \in [Clients -> Seq(Ids)] /\ dialogs' \subseteq Ids
    BY <1>1, <1>3 DEF RunAuthDialog
  <1>5. QED
    BY <1>2, <1>4

LEMMA ResultTypeOK ==
  ASSUME TypeOK, NEW id \in Ids, NEW secret \in MaybeSecret, DoSecretsResult(id, secret), Idle,
         UNCHANGED last
  PROVE  /\ keyring' \in [Conns -> MaybeSecret] /\ locked' \in BOOLEAN
         /\ replies' \in [Ids -> Seq(Reply)] /\ status' \in [Ids -> Statuses]
         /\ \A h \in Ids : status'[h] = status[h] \/ (h = id /\ Held(id) /\ status'[h] = "End")
         /\ written' \subseteq [id: Calls', secret: Secrets] /\ lost' \subseteq 1..last
  <1>1. CASE ~Held(id) /\ UNCHANGED <<keyringVars, status, replies, writeVars>>
    BY <1>1 DEF TypeOK, keyringVars, writeVars, Idle
  <1>2. CASE /\ Held(id) /\ secret = NoSecret /\ Answer(id, FALSE, NoSecret)
             /\ UNCHANGED <<keyringVars, writeVars>>
    BY <1>2, AnswerTypeOK DEF TypeOK, keyringVars, writeVars, Idle
  <1>3. CASE /\ Held(id) /\ secret # NoSecret
             /\ Answer(id, TRUE, Result(request[id], secret))
             /\ UNCHANGED <<keyringVars, writeVars>>
    <2>1. Result(request[id], secret) \in MaybeSecret
      BY <1>3, HeldIsMade, SecretTypes
    <2>2. /\ keyring' \in [Conns -> MaybeSecret] /\ locked' \in BOOLEAN
          /\ written' \subseteq [id: Calls', secret: Secrets] /\ lost' \subseteq 1..last
      BY <1>3 DEF TypeOK, keyringVars, writeVars, Idle
    <2>3. QED
      BY <1>3, <2>1, <2>2, AnswerTypeOK
  <1>4. CASE Held(id) /\ secret # NoSecret /\ WriteTyped(id, secret)
    <2>1. id \in 1..last /\ request[id].conn \in Conns /\ secret \in Secrets
      BY <1>4, HeldIsMade DEF MaybeSecret
    <2>2. PICK ok \in BOOLEAN : /\ SetData(request[id].conn, secret, ok)
                                /\ lost' = IF ok THEN lost ELSE lost \cup {id}
      BY <1>4 DEF WriteTyped
    <2>3. keyring' \in [Conns -> MaybeSecret] /\ locked' \in BOOLEAN
      BY <2>2 DEF SetData, TypeOK
    <2>4. lost' \subseteq 1..last
      BY <2>1, <2>2 DEF TypeOK
    <2>5. written' = {[id |-> id, secret |-> secret]} /\ UNCHANGED <<status, replies>>
      BY <1>4 DEF WriteTyped
    <2>6. id \in Calls'
      BY <1>4, <2>1, <2>5 DEF Calls, Held
    <2>7. QED
      BY <2>1, <2>3, <2>4, <2>5, <2>6 DEF TypeOK
  <1>5. QED
    BY <1>1, <1>2, <1>3, <1>4 DEF DoSecretsResult

LEMMA ServeTypeOK ==
  ASSUME TypeOK, NEW panels, ServeFirstWaiting(panels)
  PROVE  /\ status' \in [Ids -> Statuses] /\ down' \in [Clients -> Seq(Ids)] /\ dialogs' \subseteq Ids
         /\ \A h \in Ids : \/ status'[h] = status[h]
                           \/ status[h] = "WaitClient" /\ status'[h] = "WaitDialog"
  <1> DEFINE held == {id \in Calls : status[id] = "WaitClient"}
  <1>1. CASE held = {}
    BY <1>1 DEF ServeFirstWaiting, TypeOK
  <1>2. CASE held # {}
    <2>1. First(held) \in held
      BY <1>2, CallsAreIds, FirstIsSmallest
    <2>2. RunAuthDialog(First(held), TRUE, panels)
      BY <1>2 DEF ServeFirstWaiting
    <2>3. First(held) \in Ids /\ status[First(held)] = "WaitClient"
      BY <2>1, CallsAreIds
    <2> DEFINE id == First(held)
    <2> HIDE DEF id
    <2>4. RunAuthDialog(id, TRUE, panels) /\ id \in Ids /\ status[id] = "WaitClient"
      BY <2>2, <2>3 DEF id
    <2>5. /\ status' \in [Ids -> Statuses] /\ down' \in [Clients -> Seq(Ids)] /\ dialogs' \subseteq Ids
          /\ \A h \in Ids : status'[h] = IF h = id THEN "WaitDialog" ELSE status[h]
      BY <2>4, DialogTypeOK, Zenon
    <2>6. QED
      BY <2>4, <2>5
  <1>3. QED
    BY <1>1, <1>2

LEMMA GetSecretsTypeOK ==
  ASSUME TypeOK, NEW c \in Conns, NEW given \in MaybeSecret,
         NEW interact \in BOOLEAN, NEW new \in BOOLEAN, NEW soon \in BOOLEAN,
         GetSecrets(c, given, interact, new, soon)
  PROVE  TypeOK'
  <1> DEFINE id == last + 1
             r  == [conn |-> c, flag |-> flag[c], given |-> given,
                    interact |-> interact, new |-> new]
  <1>1. /\ id \in Ids /\ r \in Request /\ r.conn = c /\ last' = id
        /\ request' = [request EXCEPT ![id] = r]
        /\ timers' = timers \cup {id} /\ near' \subseteq near \cup {id}
        /\ UNCHANGED <<keyringVars, writeVars, ahead, clients, up, task, flag, typed, inputs>>
        /\ Idle
    BY CallBoundsAssumption DEF GetSecrets, NextId, TypeOK, Ids, Request
  <1>2. /\ last' \in 0..MaxCalls /\ request' \in [Ids -> Request \cup {<<>>}]
        /\ \A h \in Ids : h <= last' => request'[h] \in Request
        /\ timers' \subseteq 1..last' /\ near' \subseteq 1..last' /\ ahead' \subseteq 1..last'
        /\ written' = {} /\ lost' \subseteq 1..last'
    BY <1>1, CallBoundsAssumption DEF TypeOK, Ids, Idle, writeVars
  <1>3. /\ status' \in [Ids -> Statuses] /\ \A h \in Ids \ {id} : status'[h] = status[h]
        /\ waitTimer' \in BOOLEAN /\ down' \in [Clients -> Seq(Ids)]
        /\ dialogs' \subseteq Ids /\ waiting' \subseteq Ids /\ replies' \in [Ids -> Seq(Reply)]
    <2>1. CASE /\ status' = [status EXCEPT ![id] = "WaitDialog"]
               /\ dialogs' \in {dialogs, dialogs \cup {id}}
               /\ waiting' = waiting \cup {id}
               /\ UNCHANGED <<waitTimer, down, replies>>
      BY <1>1, <2>1 DEF TypeOK, Statuses
    <2>2. CASE /\ AskPasswords(id, Kind[c] = "wireless")
               /\ waiting' = waiting \cup {id} /\ UNCHANGED replies
      <3>1. waiting' \subseteq Ids /\ replies' \in [Ids -> Seq(Reply)]
        BY <1>1, <2>2 DEF TypeOK
      <3>2. CASE /\ status' = [status EXCEPT ![id] = "WaitClient"]
                 /\ waitTimer' = TRUE
                 /\ UNCHANGED <<down, dialogs>>
        BY <1>1, <3>1, <3>2 DEF TypeOK, Statuses
      <3>3. CASE RunAuthDialog(id, Kind[c] = "wireless", clients) /\ UNCHANGED waitTimer
        <4>1. /\ status' \in [Ids -> Statuses] /\ down' \in [Clients -> Seq(Ids)] /\ dialogs' \subseteq Ids
              /\ \A h \in Ids : status'[h] = IF h = id THEN "WaitDialog" ELSE status[h]
          BY <1>1, <3>3, DialogTypeOK, Zenon
        <4>2. QED
          BY <3>1, <3>3, <4>1 DEF TypeOK
      <3>4. QED
        BY <2>2, <3>2, <3>3 DEF AskPasswords
    <2>3. CASE Answer(id, TRUE, Known(r)) /\ UNCHANGED <<waiting, waitTimer, down, dialogs>>
      <3>1. Known(r) \in MaybeSecret
        BY <1>1, SecretTypes, NoSecretAssumption DEF MaybeSecret
      <3>2. /\ replies' \in [Ids -> Seq(Reply)] /\ status' \in [Ids -> Statuses]
            /\ \A h \in Ids : status'[h] = IF h = id THEN "End" ELSE status[h]
        BY <1>1, <2>3, <3>1, AnswerTypeOK
      <3>3. QED
        BY <2>3, <3>2 DEF TypeOK
    <2>4. QED
      BY <2>1, <2>2, <2>3 DEF GetSecrets, NextId
  <1>4. \A h \in Ids : h > last' => status'[h] = "Unused"
    BY <1>1, <1>3, CallBoundsAssumption DEF TypeOK, Ids
  <1>5. QED
    BY <1>1, <1>2, <1>3, <1>4 DEF TypeOK, keyringVars

LEMMA NextTypeOK ==
  ASSUME TypeOK, Next
  PROVE  TypeOK'
  <1> USE DEF keyringVars, agentVars, writeVars, clientVars, nmVars
  <1>0. \/ Idle /\ UNCHANGED <<last, writeVars>>
        \/ UNCHANGED <<last, status, writeVars>>
        => written' \subseteq [id: Calls', secret: Secrets] /\ lost' \subseteq 1..last'
    BY DEF TypeOK, Idle, Calls, Held
  <1>1. ASSUME NEW c \in Conns, NEW given \in MaybeSecret, NEW interact \in BOOLEAN,
               NEW new \in BOOLEAN, NEW soon \in BOOLEAN,
               GetSecrets(c, given, interact, new, soon)
        PROVE  TypeOK'
    BY <1>1, GetSecretsTypeOK
  <1>2. ASSUME NEW w \in 1..last, CancelGetSecrets(w)
        PROVE  TypeOK'
    <2> DEFINE same == {id \in Calls : request[id].conn = request[w].conn}
    <2>1. CASE same = {}
      BY <1>0, <1>2, <2>1 DEF CancelGetSecrets, TypeOK
    <2>2. CASE same # {}
      <3>1. First(same) \in same
        BY <2>2, CallsAreIds, FirstIsSmallest
      <3>2. PICK id \in Calls : Answer(id, FALSE, NoSecret)
        BY <1>2, <2>2, <3>1 DEF CancelGetSecrets
      <3>3. id \in Ids /\ Held(id) /\ id \in 1..last
        BY CallsAreIds DEF Calls
      <3>4. /\ replies' \in [Ids -> Seq(Reply)] /\ status' \in [Ids -> Statuses]
            /\ \A h \in Ids : status'[h] = IF h = id THEN "End" ELSE status[h]
        BY <3>2, <3>3, AnswerTypeOK DEF MaybeSecret
      <3>5. waiting' \subseteq Ids /\ \A h \in Ids : h > last => status'[h] = "Unused"
        BY <1>2, <3>3, <3>4 DEF CancelGetSecrets, TypeOK
      <3>6. Idle /\ UNCHANGED <<keyringVars, writeVars, last, request, timers, near, ahead, waitTimer, clientVars,
                                  dialogs, flag, typed, inputs>>
        BY <1>2 DEF CancelGetSecrets
      <3>7. QED
        BY <1>0, <3>4, <3>5, <3>6 DEF TypeOK
    <2>3. QED
      BY <2>1, <2>2
  <1>3. ASSUME NEW w \in 1..last, NmTimesOut(w)
        PROVE  TypeOK'
    BY <1>0, <1>3 DEF NmTimesOut, TypeOK
  <1>4. ASSUME NEW id \in 1..last, OnGetSecretsTimeout(id)
        PROVE  TypeOK'
    <2>1. CASE Expired(id) = {}
      BY <1>0, <1>4, <2>1 DEF OnGetSecretsTimeout, TypeOK
    <2>2. CASE Expired(id) # {}
      <3>1. First(Expired(id)) \in Calls
        BY <2>2, CallsAreIds, FirstIsSmallest DEF Expired
      <3>2. PICK h \in Calls : status' = [status EXCEPT ![h] = "TimedOut"]
        BY <1>4, <2>2, <3>1 DEF OnGetSecretsTimeout
      <3>3. h \in Ids /\ h \in 1..last
        BY CallsAreIds DEF Calls
      <3>4. status' \in [Ids -> Statuses] /\ \A i \in Ids : i > last => status'[i] = "Unused"
        BY <3>2, <3>3 DEF TypeOK, Statuses
      <3>5. QED
        BY <1>0, <1>4, <3>4 DEF OnGetSecretsTimeout, TypeOK
    <2>3. QED
      BY <2>1, <2>2
  <1>5. ASSUME NEW id \in 1..last, AuthDialogFinished(id)
        PROVE  TypeOK'
    <2>1. id \in Ids
      BY CallBoundsAssumption DEF TypeOK, Ids
    <2>2. DoSecretsResult(id, NoSecret) /\ NoSecret \in MaybeSecret /\ Idle /\ UNCHANGED last
      BY <1>5 DEF AuthDialogFinished, MaybeSecret
    <2>3. /\ keyring' \in [Conns -> MaybeSecret] /\ locked' \in BOOLEAN
          /\ replies' \in [Ids -> Seq(Reply)] /\ status' \in [Ids -> Statuses]
          /\ \A h \in Ids : status'[h] = status[h] \/ (h = id /\ Held(id) /\ status'[h] = "End")
          /\ written' \subseteq [id: Calls', secret: Secrets] /\ lost' \subseteq 1..last
      BY <2>1, <2>2, ResultTypeOK
    <2>4. \A h \in Ids : h > last => status'[h] = "Unused"
      BY <2>1, <2>3 DEF TypeOK, Held
    <2>5. QED
      BY <1>5, <2>3, <2>4 DEF AuthDialogFinished, TypeOK, Delivered
  <1>6. ASSUME NEW id \in 1..last, NEW secret \in Secrets, AuthDialogReadOutput(id, secret)
        PROVE  TypeOK'
    <2>1. id \in Ids /\ secret \in MaybeSecret
      BY CallBoundsAssumption DEF TypeOK, Ids, MaybeSecret
    <2>2. typed' \in [Ids -> SUBSET Secrets]
      BY <1>6, <2>1 DEF AuthDialogReadOutput, Types, TypeOK
    <2>3. DoSecretsResult(id, secret) /\ Idle /\ UNCHANGED last
      BY <1>6 DEF AuthDialogReadOutput
    <2>4. /\ keyring' \in [Conns -> MaybeSecret] /\ locked' \in BOOLEAN
          /\ replies' \in [Ids -> Seq(Reply)] /\ status' \in [Ids -> Statuses]
          /\ \A h \in Ids : status'[h] = status[h] \/ (h = id /\ Held(id) /\ status'[h] = "End")
          /\ written' \subseteq [id: Calls', secret: Secrets] /\ lost' \subseteq 1..last
      BY <2>1, <2>3, ResultTypeOK
    <2>5. \A h \in Ids : h > last => status'[h] = "Unused"
      BY <2>1, <2>4 DEF TypeOK, Held
    <2>6. QED
      BY <1>6, <2>2, <2>4, <2>5 DEF AuthDialogReadOutput, TypeOK, Delivered
  <1>7. ASSUME NEW id \in 1..last, NEW secret \in MaybeSecret, NEW isEnd \in BOOLEAN,
               VpnDialogReadAllOutput(id, secret, isEnd)
        PROVE  TypeOK'
    <2>1. id \in Ids
      BY CallBoundsAssumption DEF TypeOK, Ids
    <2>2. typed' \in [Ids -> SUBSET Secrets]
      BY <1>7, <2>1 DEF VpnDialogReadAllOutput, Types, TypeOK, MaybeSecret
    <2>3. /\ replies' \in [Ids -> Seq(Reply)] /\ status' \in [Ids -> Statuses]
          /\ \A h \in Ids : status'[h] = status[h] \/ (h = id /\ Held(id))
      BY <1>7, <2>1, AnswerTypeOK DEF VpnDialogReadAllOutput, TypeOK
    <2>4. QED
      BY <1>0, <1>7, <2>1, <2>2, <2>3 DEF VpnDialogReadAllOutput, TypeOK, Delivered, Held
  <1>8. ASSUME NEW c \in Conns, NEW f \in Flags, NEW secret \in MaybeSecret, SaveSecrets(c, f, secret)
        PROVE  TypeOK'
    <2>1. keyring' \in [Conns -> MaybeSecret] /\ locked' \in BOOLEAN
      BY <1>8 DEF SaveSecrets, SetData, TypeOK
    <2>2. flag' \in [Conns -> Flags] /\ inputs' \in Nat
      BY <1>8 DEF SaveSecrets, TypeOK
    <2>3. QED
      BY <1>0, <1>8, <2>1, <2>2 DEF SaveSecrets, TypeOK
  <1>9. CASE WaitClientTimeOut
    BY <1>0, <1>9, ServeTypeOK DEF WaitClientTimeOut, TypeOK
  <1>10. CASE LockOrUnlock
    BY <1>0, <1>10 DEF LockOrUnlock, ToggleLock, TypeOK
  <1>11. CASE SetClockBack
    BY <1>0, <1>11 DEF SetClockBack, TypeOK
  <1>12. ASSUME NEW c \in Clients, NewConnectionHandler(c)
         PROVE  TypeOK'
    <2>1. clients' \subseteq Clients /\ waitTimer' \in BOOLEAN
      BY <1>12 DEF NewConnectionHandler, TypeOK
    <2>2. PICK panels : ServeFirstWaiting(panels)
      BY <1>12 DEF NewConnectionHandler
    <2>3. QED
      BY <1>0, <1>12, <2>1, <2>2, ServeTypeOK DEF NewConnectionHandler, TypeOK
  <1>13. ASSUME NEW c \in Clients, DisconnectedHandler(c)
         PROVE  TypeOK'
    <2>1. down' \in [Clients -> Seq(Ids)] /\ up' \in [Clients -> Seq([id: Ids, secret: MaybeSecret])]
      <3>1. down \in [Clients -> Seq(Ids)] /\ up \in [Clients -> Seq([id: Ids, secret: MaybeSecret])]
        BY DEF TypeOK
      <3>2. down' = [down EXCEPT ![c] = <<>>] /\ up' = [up EXCEPT ![c] = <<>>]
        BY <1>13 DEF DisconnectedHandler
      <3>3. <<>> \in Seq(Ids) /\ <<>> \in Seq([id: Ids, secret: MaybeSecret])
        OBVIOUS
      <3>4. down' \in [Clients -> Seq(Ids)]
        BY <3>1, <3>2, <3>3
      <3>5. up' \in [Clients -> Seq([id: Ids, secret: MaybeSecret])]
        BY <3>1, <3>2, <3>3
      <3>6. QED
        BY <3>4, <3>5
    <2>2. task' \in [Clients -> 0..MaxCalls] /\ clients' \subseteq Clients /\ inputs' \in Nat
      <3>1. PICK t \in {0, task[c]} : task' = [task EXCEPT ![c] = t]
        BY <1>13 DEF DisconnectedHandler
      <3>2. t \in 0..MaxCalls
        BY <3>1, CallBoundsAssumption DEF TypeOK
      <3>3. QED
        BY <1>13, <3>1, <3>2 DEF DisconnectedHandler, TypeOK
    <2>3. QED
      BY <1>0, <1>13, <2>1, <2>2 DEF DisconnectedHandler, TypeOK
  <1>14. ASSUME NEW c \in Clients, RequestSecrets(c)
         PROVE  TypeOK'
    <2>1. Head(down[c]) \in Ids /\ Tail(down[c]) \in Seq(Ids)
      BY <1>14, TakeHead DEF RequestSecrets, TypeOK
    <2>2. task' = [task EXCEPT ![c] = Head(down[c])] /\ down' = [down EXCEPT ![c] = Tail(down[c])]
      BY <1>14 DEF RequestSecrets
    <2>4. task' \in [Clients -> 0..MaxCalls]
      BY <2>1, <2>2, CallBoundsAssumption DEF TypeOK, Ids
    <2>5. down' \in [Clients -> Seq(Ids)]
      BY <2>1, <2>2 DEF TypeOK
    <2>3. QED
      BY <1>0, <1>14, <2>4, <2>5 DEF RequestSecrets, TypeOK
  <1>15. ASSUME NEW c \in Clients, SecretsResult(c)
         PROVE  TypeOK'
    <2> DEFINE answer == Head(up[c])
    <2>1. answer \in [id: Ids, secret: MaybeSecret] /\ Tail(up[c]) \in Seq([id: Ids, secret: MaybeSecret])
      BY <1>15, TakeHead DEF SecretsResult, TypeOK
    <2>2. up' \in [Clients -> Seq([id: Ids, secret: MaybeSecret])]
      BY <1>15, <2>1 DEF SecretsResult, TypeOK
    <2>3. /\ DoSecretsResult(answer.id, answer.secret) /\ answer.id \in Ids
          /\ answer.secret \in MaybeSecret /\ Idle /\ UNCHANGED last
      BY <1>15, <2>1 DEF SecretsResult
    <2>4. /\ keyring' \in [Conns -> MaybeSecret] /\ locked' \in BOOLEAN
          /\ replies' \in [Ids -> Seq(Reply)] /\ status' \in [Ids -> Statuses]
          /\ \A h \in Ids : status'[h] = status[h] \/ Held(h)
          /\ written' \subseteq [id: Calls', secret: Secrets] /\ lost' \subseteq 1..last
      BY <2>3, ResultTypeOK
    <2>5. QED
      BY <1>15, <2>2, <2>4 DEF SecretsResult, TypeOK, Delivered, Held
  <1>16. ASSUME NEW c \in Clients, NEW secret \in MaybeSecret, SendSecretsResult(c, secret)
         PROVE  TypeOK'
    <2>1. task[c] \in Ids
      BY <1>16, CallBoundsAssumption DEF SendSecretsResult, TypeOK, Ids
    <2>2. typed' \in [Ids -> SUBSET Secrets]
      BY <1>16, <2>1 DEF SendSecretsResult, Types, TypeOK, MaybeSecret
    <2>3. Append(up[c], [id |-> task[c], secret |-> secret]) \in Seq([id: Ids, secret: MaybeSecret])
      BY <2>1, AppendIsSeq DEF TypeOK
    <2>4. up' \in [Clients -> Seq([id: Ids, secret: MaybeSecret])] /\ task' \in [Clients -> 0..MaxCalls]
      <3>1. up \in [Clients -> Seq([id: Ids, secret: MaybeSecret])] /\ task \in [Clients -> 0..MaxCalls]
        BY DEF TypeOK
      <3>2. /\ up' = [up EXCEPT ![c] = Append(up[c], [id |-> task[c], secret |-> secret])]
            /\ task' = [task EXCEPT ![c] = 0]
        BY <1>16 DEF SendSecretsResult
      <3>3. up' \in [Clients -> Seq([id: Ids, secret: MaybeSecret])]
        BY <2>3, <3>1, <3>2
      <3>4. task' \in [Clients -> 0..MaxCalls]
        BY <3>1, <3>2, CallBoundsAssumption
      <3>5. QED
        BY <3>3, <3>4
    <2>5. QED
      BY <1>0, <1>16, <2>2, <2>4 DEF SendSecretsResult, TypeOK
  <1>17. CASE ReadBack
    <2>1. PICK w \in written : Answer(w.id, TRUE, IF Saved(request[w.id].conn) # NoSecret
                                                  THEN Saved(request[w.id].conn) ELSE w.secret)
      BY <1>17 DEF ReadBack
    <2>2. w.id \in Ids /\ Held(w.id) /\ w.secret \in Secrets
      BY CallsAreIds DEF TypeOK, Calls
    <2>3. /\ replies' \in [Ids -> Seq(Reply)] /\ status' \in [Ids -> Statuses]
          /\ \A h \in Ids : status'[h] = IF h = w.id THEN "End" ELSE status[h]
      <3>1. Saved(request[w.id].conn) \in MaybeSecret
        BY <2>2, HeldIsMade DEF TypeOK, Saved, MaybeSecret
      <3>2. QED
        BY <2>1, <2>2, <3>1, AnswerTypeOK DEF MaybeSecret
    <2>4. QED
      BY <1>17, <2>2, <2>3 DEF ReadBack, TypeOK, Delivered, Held
  <1>18. QED
    BY <1>1, <1>2, <1>3, <1>4, <1>5, <1>6, <1>7, <1>8, <1>9, <1>10, <1>11, <1>12, <1>13,
       <1>14, <1>15, <1>16, <1>17 DEF Next

\* Every variable of the agent, the panels, the dialogs and the keyring keeps its type,
\* and only calls that have been made are anything but unused.
THEOREM TypeCorrect == Spec => []TypeOK
  <1>1. Init => TypeOK
    <2> SUFFICES ASSUME Init PROVE TypeOK
      OBVIOUS
    <2>1. /\ request \in [Ids -> Request \cup {<<>>}] /\ status \in [Ids -> Statuses]
          /\ replies \in [Ids -> Seq(Reply)] /\ typed \in [Ids -> SUBSET Secrets]
          /\ \A id \in Ids : status[id] = "Unused"
      BY DEF Init, Statuses
    <2>2. /\ down \in [Clients -> Seq(Ids)] /\ task \in [Clients -> 0..MaxCalls]
          /\ up \in [Clients -> Seq([id: Ids, secret: MaybeSecret])]
      BY CallBoundsAssumption DEF Init
    <2>3. \A id \in Ids : ~(id <= last)
      BY CallBoundsAssumption DEF Init, Ids
    <2>4. /\ keyring \in [Conns -> MaybeSecret] /\ locked \in BOOLEAN /\ last \in 0..MaxCalls
          /\ flag \in [Conns -> Flags] /\ inputs \in Nat
      BY CallBoundsAssumption DEF Init
    <2>5. /\ timers \subseteq 1..last /\ near \subseteq 1..last /\ ahead \subseteq 1..last
          /\ waitTimer \in BOOLEAN /\ clients \subseteq Clients
          /\ dialogs \subseteq Ids /\ waiting \subseteq Ids
          /\ written \subseteq [id: Calls, secret: Secrets] /\ lost \subseteq 1..last
      BY DEF Init
    <2>6. QED
      BY <2>1, <2>2, <2>3, <2>4, <2>5 DEF TypeOK
  <1>2. TypeOK /\ UNCHANGED vars => TypeOK'
    BY DEF TypeOK, vars, keyringVars, agentVars, writeVars, clientVars, nmVars, Calls, Held
  <1>3. QED
    BY <1>1, <1>2, NextTypeOK, PTL DEF Spec

-----------------------------------------------------------------------------
(* Answers and time-outs *)

\* What a step may do to the calls.
Makes(id) ==
  /\ id = last + 1 /\ last' = id /\ timers' = timers \cup {id} /\ UNCHANGED ahead
  /\ \A h \in Ids \ {id} : status'[h] = status[h]
  /\ \/ status'[id] \in {"WaitClient", "WaitDialog"} /\ UNCHANGED replies
     \/ \E secret \in MaybeSecret : Answer(id, TRUE, secret)

Ends(id) ==
  /\ Held(id) /\ UNCHANGED <<last, timers, ahead>>
  /\ \E ok \in BOOLEAN, secret \in MaybeSecret : Answer(id, ok, secret)

Serves ==
  /\ UNCHANGED <<last, timers, replies>> /\ ahead \subseteq ahead'
  /\ \A h \in Ids : \/ status'[h] = status[h]
                    \/ status[h] = "WaitClient" /\ status'[h] = "WaitDialog"

\* doSecretsResult ends the call, or finds none.
LEMMA ResultEnds ==
  ASSUME TypeOK, NEW id \in Ids, NEW secret \in MaybeSecret, DoSecretsResult(id, secret),
         UNCHANGED <<last, timers, ahead>>
  PROVE  Ends(id) \/ Serves
  <1>1. CASE ~Held(id)
    BY <1>1 DEF DoSecretsResult, Serves
  <1>2. CASE Held(id) /\ secret = NoSecret
    <2>1. Answer(id, FALSE, NoSecret) /\ NoSecret \in MaybeSecret
      BY <1>2 DEF DoSecretsResult, MaybeSecret
    <2>2. QED
      BY <1>2, <2>1 DEF Ends
  <1>3. CASE Held(id) /\ secret # NoSecret /\ ~Kept(id)
    <2>1. Answer(id, TRUE, Result(request[id], secret)) /\ Result(request[id], secret) \in MaybeSecret
      BY <1>3, HeldIsMade, SecretTypes DEF DoSecretsResult
    <2>2. QED
      BY <1>3, <2>1 DEF Ends
  <1>4. CASE Held(id) /\ secret # NoSecret /\ Kept(id)
    BY <1>4 DEF DoSecretsResult, WriteTyped, Serves
  <1>5. QED
    BY <1>1, <1>2, <1>3, <1>4

LEMMA GetSecretsMakes ==
  ASSUME TypeOK, NEW c \in Conns, NEW given \in MaybeSecret,
         NEW interact \in BOOLEAN, NEW new \in BOOLEAN, NEW soon \in BOOLEAN,
         GetSecrets(c, given, interact, new, soon)
  PROVE  last + 1 \in Ids /\ Makes(last + 1)
  <1> DEFINE id == last + 1
             r  == [conn |-> c, flag |-> flag[c], given |-> given,
                    interact |-> interact, new |-> new]
  <1>1. /\ id \in Ids /\ r \in Request /\ last' = id /\ timers' = timers \cup {id} /\ UNCHANGED ahead
    BY CallBoundsAssumption DEF GetSecrets, NextId, TypeOK, Ids, Request
  <1>2. CASE status' = [status EXCEPT ![id] = "WaitDialog"] /\ UNCHANGED replies
    BY <1>1, <1>2 DEF Makes, TypeOK
  <1>3. CASE AskPasswords(id, Kind[c] = "wireless") /\ UNCHANGED replies
    <2>1. \/ status' = [status EXCEPT ![id] = "WaitClient"]
          \/ status' = [status EXCEPT ![id] = "WaitDialog"]
      BY <1>3 DEF AskPasswords, RunAuthDialog
    <2>2. QED
      BY <1>1, <1>3, <2>1 DEF Makes, TypeOK
  <1>4. CASE Answer(id, TRUE, Known(r))
    <2>1. Known(r) \in MaybeSecret
      BY <1>1, SecretTypes, NoSecretAssumption DEF MaybeSecret
    <2>2. \A h \in Ids \ {id} : status'[h] = status[h]
      BY <1>1, <1>4 DEF Answer, TypeOK
    <2>3. QED
      BY <1>1, <1>4, <2>1, <2>2 DEF Makes
  <1>5. QED
    BY <1>1, <1>2, <1>3, <1>4 DEF GetSecrets, NextId

\* What is read back is the answer to a call that still waits.
LEMMA ReadBackAnswers ==
  ASSUME TypeOK, ReadBack
  PROVE  \E w \in written : \E secret \in MaybeSecret :
           /\ w.id \in Ids /\ Held(w.id) /\ Answer(w.id, TRUE, secret)
           /\ \/ secret = w.secret /\ Saved(request[w.id].conn) = NoSecret
              \/ secret = Saved(request[w.id].conn) /\ secret # NoSecret
  <1>1. PICK w \in written : Answer(w.id, TRUE, IF Saved(request[w.id].conn) # NoSecret
                                                THEN Saved(request[w.id].conn) ELSE w.secret)
    BY DEF ReadBack
  <1>2. w.id \in Ids /\ Held(w.id) /\ w.secret \in MaybeSecret
    BY CallsAreIds DEF TypeOK, Calls, MaybeSecret
  <1>3. Saved(request[w.id].conn) \in MaybeSecret
    BY <1>2, HeldIsMade DEF TypeOK, Saved, MaybeSecret
  <1>4. QED
    BY <1>1, <1>2, <1>3

\* Every step makes a call, ends one, lets one time out, or at most shows one.
LEMMA StepKinds ==
  ASSUME TypeOK, [Next]_vars
  PROVE  \/ \E id \in Ids : Makes(id) \/ Ends(id)
         \/ \E id \in 1..last : OnGetSecretsTimeout(id)
         \/ Serves
  <1> USE DEF keyringVars, agentVars, clientVars, nmVars
  <1>1. ASSUME NEW c \in Conns, NEW given \in MaybeSecret, NEW interact \in BOOLEAN,
               NEW new \in BOOLEAN, NEW soon \in BOOLEAN,
               GetSecrets(c, given, interact, new, soon)
        PROVE  \E id \in Ids : Makes(id)
    BY <1>1, GetSecretsMakes
  <1>2. ASSUME NEW w \in 1..last, CancelGetSecrets(w)
        PROVE  Serves \/ \E id \in Ids : Ends(id)
    <2> DEFINE same == {id \in Calls : request[id].conn = request[w].conn}
    <2>1. CASE same = {}
      BY <1>2, <2>1 DEF CancelGetSecrets, Serves
    <2>2. CASE same # {}
      <3>1. First(same) \in same
        BY <2>2, CallsAreIds, FirstIsSmallest
      <3>2. PICK id \in Calls : Answer(id, FALSE, NoSecret)
        BY <1>2, <2>2, <3>1 DEF CancelGetSecrets
      <3>3. id \in Ids /\ Held(id)
        BY CallsAreIds DEF Calls
      <3>4. Ends(id)
        BY <1>2, <3>2, <3>3 DEF CancelGetSecrets, Ends, MaybeSecret
      <3>5. QED
        BY <3>3, <3>4
    <2>3. QED
      BY <2>1, <2>2
  <1>3. ASSUME NEW w \in 1..last, NmTimesOut(w)
        PROVE  Serves
    BY <1>3 DEF NmTimesOut, Serves
  <1>4. ASSUME NEW id \in 1..last, AuthDialogFinished(id)
        PROVE  Serves \/ \E h \in Ids : Ends(h)
    <2>1. id \in Ids /\ NoSecret \in MaybeSecret
      BY CallBoundsAssumption DEF TypeOK, Ids, MaybeSecret
    <2>2. DoSecretsResult(id, NoSecret) /\ UNCHANGED <<last, timers, ahead>>
      BY <1>4 DEF AuthDialogFinished
    <2>3. QED
      BY <2>1, <2>2, ResultEnds
  <1>5. ASSUME NEW id \in 1..last, NEW secret \in Secrets, AuthDialogReadOutput(id, secret)
        PROVE  Serves \/ \E h \in Ids : Ends(h)
    <2>1. id \in Ids /\ secret \in MaybeSecret
      BY CallBoundsAssumption DEF TypeOK, Ids, MaybeSecret
    <2>2. DoSecretsResult(id, secret) /\ UNCHANGED <<last, timers, ahead>>
      BY <1>5 DEF AuthDialogReadOutput
    <2>3. QED
      BY <2>1, <2>2, ResultEnds
  <1>6. ASSUME NEW id \in 1..last, NEW secret \in MaybeSecret, NEW isEnd \in BOOLEAN,
               VpnDialogReadAllOutput(id, secret, isEnd)
        PROVE  Serves \/ \E h \in Ids : Ends(h)
    <2>1. id \in Ids
      BY CallBoundsAssumption DEF TypeOK, Ids
    <2>2. UNCHANGED <<last, timers, ahead>>
      BY <1>6 DEF VpnDialogReadAllOutput
    <2>3. CASE Held(id)
      <3>1. Answer(id, TRUE, secret)
        BY <1>6, <2>3 DEF VpnDialogReadAllOutput
      <3>2. QED
        BY <2>1, <2>2, <2>3, <3>1 DEF Ends
    <2>4. CASE ~Held(id)
      BY <1>6, <2>2, <2>4 DEF VpnDialogReadAllOutput, Serves
    <2>5. QED
      BY <2>3, <2>4
  <1>7. ASSUME NEW c \in Conns, NEW f \in Flags, NEW secret \in MaybeSecret, SaveSecrets(c, f, secret)
        PROVE  Serves
    BY <1>7 DEF SaveSecrets, Serves
  <1>8. ASSUME NEW panels, ServeFirstWaiting(panels), UNCHANGED <<last, timers, ahead, replies>>
        PROVE  Serves
    BY <1>8, ServeTypeOK DEF Serves
  <1>9. CASE WaitClientTimeOut
    BY <1>8, <1>9 DEF WaitClientTimeOut
  <1>10. CASE LockOrUnlock \/ SetClockBack
    BY <1>10 DEF LockOrUnlock, SetClockBack, Serves, TypeOK, agentVars, nmVars
  <1>11. ASSUME NEW c \in Clients, NewConnectionHandler(c)
         PROVE  Serves
    <2>1. PICK panels : ServeFirstWaiting(panels)
      BY <1>11 DEF NewConnectionHandler
    <2>2. QED
      BY <1>8, <1>11, <2>1 DEF NewConnectionHandler
  <1>12. ASSUME NEW c \in Clients, DisconnectedHandler(c)
         PROVE  Serves
    BY <1>12 DEF DisconnectedHandler, Serves
  <1>13. ASSUME NEW c \in Clients, RequestSecrets(c)
         PROVE  Serves
    BY <1>13 DEF RequestSecrets, Serves
  <1>14. ASSUME NEW c \in Clients, NEW secret \in MaybeSecret, SendSecretsResult(c, secret)
         PROVE  Serves
    BY <1>14 DEF SendSecretsResult, Serves
  <1>15. ASSUME NEW c \in Clients, SecretsResult(c)
         PROVE  Serves \/ \E h \in Ids : Ends(h)
    <2>1. Head(up[c]) \in [id: Ids, secret: MaybeSecret]
      BY <1>15, TakeHead DEF SecretsResult, TypeOK
    <2>2. PICK id \in Ids, secret \in MaybeSecret : DoSecretsResult(id, secret)
      BY <1>15, <2>1 DEF SecretsResult
    <2>3. UNCHANGED <<last, timers, ahead>>
      BY <1>15 DEF SecretsResult
    <2>4. QED
      BY <2>2, <2>3, ResultEnds
  <1>16. CASE ReadBack
    BY <1>16, ReadBackAnswers DEF ReadBack, Ends
  <1>17. CASE UNCHANGED vars
    BY <1>17 DEF vars, Serves
  <1>18. CASE Next
    BY <1>18, <1>1, <1>2, <1>3, <1>4, <1>5, <1>6, <1>7, <1>9, <1>10, <1>11, <1>12, <1>13,
       <1>14, <1>15, <1>16 DEF Next
  <1>19. QED
    BY <1>17, <1>18

\* A call has as many answers as its status says, those not yet made included.
AnsweredOnce ==
  \A id \in Ids : Len(replies[id]) = IF status[id] = "End" THEN 1 ELSE 0

LEMMA AnswerKeepsOnce ==
  ASSUME TypeOK, AnsweredOnce, NEW id \in Ids, status[id] # "End",
         NEW ok \in BOOLEAN, NEW secret \in MaybeSecret, Answer(id, ok, secret)
  PROVE  AnsweredOnce'
  <1>1. replies \in [Ids -> Seq(Reply)] /\ Len(replies[id]) = 0
    BY DEF TypeOK, AnsweredOnce
  <1>2. Len(Append(replies[id], [ok |-> ok, secret |-> secret])) = 1
    <2>1. [ok |-> ok, secret |-> secret] \in Reply
      BY DEF Reply
    <2>2. QED
      BY <1>1, <2>1
  <1>3. Len(replies'[id]) = 1 /\ \A h \in Ids \ {id} : replies'[h] = replies[h]
    BY <1>1, <1>2 DEF Answer
  <1>4. \A h \in Ids : status'[h] = IF h = id THEN "End" ELSE status[h]
    BY AnswerTypeOK
  <1>5. QED
    BY <1>3, <1>4 DEF AnsweredOnce

LEMMA StepKeepsOnce ==
  ASSUME TypeOK, AnsweredOnce, [Next]_vars
  PROVE  AnsweredOnce'
  <1>1. ASSUME NEW id \in Ids, Makes(id)
        PROVE  AnsweredOnce'
    <2>1. status[id] = "Unused"
      BY <1>1, CallBoundsAssumption DEF Makes, TypeOK, Ids
    <2>2. CASE \E secret \in MaybeSecret : Answer(id, TRUE, secret)
      BY <2>1, <2>2, AnswerKeepsOnce
    <2>3. CASE status'[id] \in {"WaitClient", "WaitDialog"} /\ UNCHANGED replies
      BY <1>1, <2>1, <2>3 DEF Makes, AnsweredOnce
    <2>4. QED
      BY <1>1, <2>2, <2>3 DEF Makes
  <1>2. ASSUME NEW id \in Ids, Ends(id)
        PROVE  AnsweredOnce'
    BY <1>2, AnswerKeepsOnce DEF Ends, Held
  <1>3. ASSUME NEW id \in 1..last, OnGetSecretsTimeout(id)
        PROVE  AnsweredOnce'
    <2>1. \A h \in Calls : h \in Ids /\ status[h] # "End"
      BY CallsAreIds DEF Calls, Held
    <2>2. Expired(id) # {} => First(Expired(id)) \in Calls
      BY CallsAreIds, FirstIsSmallest DEF Expired
    <2>3. \A h \in Ids : status'[h] = status[h] \/ (status[h] # "End" /\ status'[h] = "TimedOut")
      BY <1>3, <2>1, <2>2 DEF OnGetSecretsTimeout, TypeOK
    <2>4. UNCHANGED replies
      BY <1>3 DEF OnGetSecretsTimeout, nmVars
    <2>5. QED
      BY <2>3, <2>4 DEF AnsweredOnce
  <1>4. CASE Serves
    BY <1>4 DEF Serves, AnsweredOnce
  <1>5. QED
    BY <1>1, <1>2, <1>3, <1>4, StepKinds

\* A call is answered exactly once, and until then it is in m_calls: for any number of
\* panels and dialogs that answer late or twice, cancellations and time-outs.
THEOREM AnswersExactlyOnce == Spec => []ExactlyOnce
  <1>1. Init => AnsweredOnce
    BY DEF Init, AnsweredOnce
  <1>2. TypeOK /\ AnsweredOnce => ExactlyOnce
    <2>1. TypeOK => 1..last \subseteq Ids
      BY CallBoundsAssumption DEF TypeOK, Ids
    <2>2. QED
      BY <2>1 DEF AnsweredOnce, ExactlyOnce
  <1>3. QED
    BY <1>1, <1>2, StepKeepsOnce, TypeCorrect, PTL DEF Spec

-----------------------------------------------------------------------------
(* Time-outs *)

\* A call that is held has its timer running, unless the clock was set back.
TimerRuns == \A id \in Ids : Held(id) => id \in timers \cup ahead

LEMMA StepKeepsTimers ==
  ASSUME TypeOK, TimerRuns, [Next]_vars
  PROVE  TimerRuns'
  <1>1. ASSUME NEW id \in Ids, Makes(id)
        PROVE  TimerRuns'
    BY <1>1 DEF Makes, TimerRuns, Held
  <1>2. ASSUME NEW id \in Ids, Ends(id)
        PROVE  TimerRuns'
    <2>1. \A h \in Ids : status'[h] = status[h] \/ status'[h] = "End"
      BY <1>2, AnswerTypeOK DEF Ends
    <2>2. QED
      BY <1>2, <2>1 DEF Ends, TimerRuns, Held
  <1>3. ASSUME NEW id \in 1..last, OnGetSecretsTimeout(id)
        PROVE  TimerRuns'
    <2>1. /\ id \in Ids /\ timers' = timers \ {id} /\ UNCHANGED ahead
          /\ \A t \in timers : id <= t
      BY <1>3, CallBoundsAssumption DEF OnGetSecretsTimeout, TypeOK, Ids
    <2>2. \A h \in Calls \ ahead : h \in Ids /\ h \in Nat /\ id <= h
      BY <2>1, CallsAreIds DEF TimerRuns, Calls
    <2>3. CASE Held(id) /\ id \notin ahead
      <3>1. id \in Expired(id)
        BY <2>1, <2>3, CallBoundsAssumption DEF Expired, Calls, TimerRuns, TypeOK, Ids
      <3>2. First(Expired(id)) \in Expired(id) /\ First(Expired(id)) <= id
        BY <3>1, CallsAreIds, FirstIsSmallest DEF Expired
      <3>3. First(Expired(id)) = id
        BY <2>1, <2>2, <3>2, CallBoundsAssumption DEF Expired, Ids
      <3>4. status' = [status EXCEPT ![id] = "TimedOut"]
        BY <1>3, <3>1, <3>3 DEF OnGetSecretsTimeout
      <3>5. \A h \in Ids : status'[h] = IF h = id THEN "TimedOut" ELSE status[h]
        BY <3>4 DEF TypeOK
      <3>6. QED
        BY <2>1, <3>5 DEF TimerRuns, Held
    <2>4. CASE ~Held(id) \/ id \in ahead
      <3>1. Expired(id) # {} => First(Expired(id)) \in Calls
        BY CallsAreIds, FirstIsSmallest DEF Expired
      <3>2. \A h \in Ids : status'[h] = status[h] \/ status'[h] = "TimedOut"
        BY <1>3, <2>2, <3>1 DEF OnGetSecretsTimeout, TypeOK
      <3>3. QED
        BY <2>1, <2>4, <3>2 DEF TimerRuns, Held
    <2>5. QED
      BY <2>3, <2>4
  <1>4. CASE Serves
    BY <1>4 DEF Serves, TimerRuns, Held
  <1>5. QED
    BY <1>1, <1>2, <1>3, <1>4, StepKinds

\* Every timer drops one call at most, the oldest that has expired, and yet no call is
\* left in m_calls after its own timer has fired, but one over which the clock was set
\* back: for any number of calls, and however the timers of calls run early.
THEOREM CallsTimeOut == Spec => []NoneLeftBehind
  <1>1. Init => TimerRuns
    BY DEF Init, TimerRuns, Held
  <1>2. TypeOK /\ TimerRuns => NoneLeftBehind
    BY CallBoundsAssumption DEF TypeOK, TimerRuns, NoneLeftBehind, Ids
  <1>3. TypeOK /\ TimerRuns /\ [Next]_vars => TimerRuns'
    BY StepKeepsTimers
  <1>4. QED
    BY <1>1, <1>2, <1>3, TypeCorrect, PTL DEF Spec

-----------------------------------------------------------------------------
(* What is typed, what is sent and what is kept *)

\* A reply that a call for which something was typed may have.
Sent(id, reply) ==
  \/ reply.secret \in typed[id]
  \/ reply.secret = NoSecret /\ request[id].flag # "AgentOwned"
  \/ request[id].flag = "AgentOwned" /\ id \in lost

\* A panel has the call, or will have it, or a dialog is open for it.
Shown(id) ==
  \/ id \in dialogs
  \/ \E c \in Clients : task[c] = id \/ \E i \in 1..Len(down[c]) : down[c][i] = id

\* What a panel sends back was typed for the call it names.
MessagesTyped ==
  \A c \in Clients : \A i \in 1..Len(up[c]) :
    up[c][i].secret # NoSecret => up[c][i].secret \in typed[up[c][i].id]

\* Only calls that have been made are shown, and at panels only those for a wireless
\* network.
ShownAreMade ==
  /\ dialogs \subseteq 1..last
  /\ \A id \in 1..last : status[id] = "WaitClient" => KindOf(id) = "wireless"
  /\ \A c \in Clients :
       /\ task[c] # 0 => task[c] \in 1..last /\ KindOf(task[c]) = "wireless"
       /\ \A i \in 1..Len(down[c]) : down[c][i] \in 1..last /\ KindOf(down[c][i]) = "wireless"
  /\ \A id \in Ids : id > last => typed[id] = {}

\* The first thing that is typed in the dialog of a VPN plugin ends the call.
PluginTypesOnce ==
  \A id \in 1..last : KindOf(id) = "openconnect" /\ typed[id] # {} => ~Held(id)

\* A call has the reply it should have, or nothing was and nothing will be typed for it.
RightReply(id, reply) ==
  KindOf(id) # "vpn" /\ reply.ok => Sent(id, reply) \/ (typed[id] = {} /\ ~Shown(id))

RepliesRight == \A id \in 1..last : \A i \in 1..Len(replies[id]) : RightReply(id, replies[id][i])

SentInv == MessagesTyped /\ ShownAreMade /\ PluginTypesOnce /\ RepliesRight

\* What waits in a channel is of the channel's type.
LEMMA ElementOfSeq ==
  ASSUME NEW S, NEW s \in Seq(S), NEW i \in 1..Len(s)
  PROVE  s[i] \in S
  OBVIOUS

\* The answer to a call is its only one.
LEMMA AnswerIsFirst ==
  ASSUME TypeOK, AnsweredOnce, NEW id \in Ids, status[id] # "End",
         NEW ok \in BOOLEAN, NEW secret \in MaybeSecret, Answer(id, ok, secret)
  PROVE  /\ replies'[id] = <<[ok |-> ok, secret |-> secret]>>
         /\ \A h \in Ids \ {id} : replies'[h] = replies[h]
         /\ \A h \in Ids : status'[h] = IF h = id THEN "End" ELSE status[h]
  <1>1. replies \in [Ids -> Seq(Reply)] /\ Len(replies[id]) = 0
    BY DEF TypeOK, AnsweredOnce
  <1>2. replies[id] = <<>>
    BY <1>1
  <1>3. replies' = [replies EXCEPT ![id] = Append(@, [ok |-> ok, secret |-> secret])]
    BY DEF Answer
  <1>4. Append(<<>>, [ok |-> ok, secret |-> secret]) = <<[ok |-> ok, secret |-> secret]>>
    OBVIOUS
  <1>5. \A h \in Ids : status'[h] = IF h = id THEN "End" ELSE status[h]
    BY AnswerTypeOK
  <1>6. QED
    BY <1>1, <1>2, <1>3, <1>4, <1>5

\* A call whose reply stays is as right as before, if what is typed and shown allows.
LEMMA RepliesStayRight ==
  ASSUME TypeOK, AnsweredOnce, RepliesRight, UNCHANGED <<last, request>>, lost \subseteq lost',
         \A h \in Ids : typed[h] \subseteq typed'[h],
         \A h \in 1..last : status[h] = "End" /\ ~Shown(h) /\ typed[h] = {}
                            => ~Shown(h)' /\ typed'[h] = {},
         \A h \in 1..last :
           \/ replies'[h] = replies[h]
           \/ \E reply \in Reply : replies'[h] = <<reply>> /\ RightReply(h, reply)'
  PROVE  RepliesRight'
  <1>1. 1..last \subseteq Ids
    BY CallBoundsAssumption DEF TypeOK, Ids
  <1>2. ASSUME NEW h \in 1..last, NEW i \in 1..Len(replies'[h])
        PROVE  RightReply(h, replies[h][i])'
    <2>1. CASE replies'[h] = replies[h]
      <3>1. replies[h] \in Seq(Reply) /\ Len(replies[h]) \in Nat
        BY <1>1 DEF TypeOK
      <3>2. status[h] = "End"
        BY <1>1, <2>1, <3>1 DEF AnsweredOnce
      <3>3. PICK reply \in Reply : reply = replies[h][i]
        BY <1>2, <2>1, <3>1
      <3>4. RightReply(h, reply)
        BY <1>2, <2>1, <3>3 DEF RepliesRight
      <3>5. Sent(h, reply) => Sent(h, reply)'
        BY <1>1 DEF Sent
      <3>6. typed[h] = {} /\ ~Shown(h) => typed'[h] = {} /\ ~Shown(h)'
        BY <3>2
      <3>7. KindOf(h)' = KindOf(h)
        BY DEF KindOf
      <3>8. RightReply(h, reply)'
        BY <3>4, <3>5, <3>6, <3>7 DEF RightReply
      <3>9. QED
        BY <2>1, <3>3, <3>8
    <2>2. CASE \E reply \in Reply : replies'[h] = <<reply>> /\ RightReply(h, reply)'
      <3>1. PICK reply \in Reply : replies'[h] = <<reply>> /\ RightReply(h, reply)'
        BY <2>2
      <3>2. replies'[h][i] = reply
        BY <3>1
      <3>3. QED
        BY <3>1, <3>2
    <2>3. QED
      BY <2>1, <2>2
  <1>3. QED
    BY <1>2 DEF RepliesRight

\* A step that shows no call anew, and types at most for one whose dialog is open.
LEMMA NothingShown ==
  ASSUME TypeOK, AnsweredOnce, SentInv, UNCHANGED <<last, request, task, down>>,
         dialogs' \subseteq dialogs, lost \subseteq lost',
         \A h \in Ids : typed[h] \subseteq typed'[h],
         \A h \in Ids : h \in dialogs \/ typed'[h] = typed[h],
         \A c \in Clients : \A i \in 1..Len(up'[c]) : \E j \in 1..Len(up[c]) : up'[c][i] = up[c][j],
         \A h \in Ids : status'[h] = status[h] \/ status'[h] \in {"End", "TimedOut"},
         \A h \in 1..last : KindOf(h) = "openconnect" /\ typed'[h] # typed[h]
                            => status'[h] \notin {"WaitClient", "WaitDialog"},
         \A h \in 1..last :
           \/ replies'[h] = replies[h]
           \/ \E reply \in Reply : replies'[h] = <<reply>> /\ RightReply(h, reply)'
  PROVE  SentInv'
  <1>1. 1..last \subseteq Ids /\ \A h \in Ids : h \in Nat
    BY CallBoundsAssumption DEF TypeOK, Ids
  <1>2. \A h \in Ids : KindOf(h)' = KindOf(h)
    BY DEF KindOf
  <1>3. \A h \in Ids : Shown(h)' => Shown(h)
    BY DEF Shown
  <1>4. MessagesTyped'
    <2>1. ASSUME NEW c \in Clients, NEW i \in 1..Len(up'[c]), up'[c][i].secret # NoSecret
          PROVE  up'[c][i].secret \in typed'[up'[c][i].id]
      <3>1. PICK j \in 1..Len(up[c]) : up'[c][i] = up[c][j]
        BY <2>1
      <3>2. up[c][j] \in [id: Ids, secret: MaybeSecret]
        <4>1. up[c] \in Seq([id: Ids, secret: MaybeSecret])
          BY DEF TypeOK
        <4>2. QED
          BY <4>1, ElementOfSeq
      <3>3. up[c][j].secret \in typed[up[c][j].id]
        BY <2>1, <3>1 DEF SentInv, MessagesTyped
      <3>4. QED
        BY <3>1, <3>2, <3>3
    <2>2. QED
      BY <2>1 DEF MessagesTyped
  <1>5. ShownAreMade'
    <2>1. dialogs' \subseteq 1..last'
      BY DEF SentInv, ShownAreMade
    <2>2. \A h \in 1..last' : status'[h] = "WaitClient" => KindOf(h)' = "wireless"
      BY <1>1, <1>2 DEF SentInv, ShownAreMade
    <2>3. \A c \in Clients :
            /\ task'[c] # 0 => task'[c] \in 1..last' /\ KindOf(task[c])' = "wireless"
            /\ \A i \in 1..Len(down'[c]) :
                 down'[c][i] \in 1..last' /\ KindOf(down[c][i])' = "wireless"
      BY DEF SentInv, ShownAreMade, KindOf
    <2>4. \A h \in Ids : h > last' => typed'[h] = {}
      <3>1. SUFFICES ASSUME NEW h \in Ids, h > last PROVE typed'[h] = {}
        OBVIOUS
      <3>2. typed[h] = {} /\ h \notin dialogs
        <4>1. dialogs \subseteq 1..last /\ typed[h] = {}
          BY <3>1 DEF SentInv, ShownAreMade
        <4>2. last \in Nat /\ h \in Nat /\ h > last
          BY <1>1, <3>1, CallBoundsAssumption DEF TypeOK
        <4>3. QED
          BY ONLY <4>1, <4>2
      <3>3. typed'[h] = typed[h]
        BY ONLY <3>1, <3>2, \A g \in Ids : g \in dialogs \/ typed'[g] = typed[g]
      <3>4. QED
        BY <3>2, <3>3
    <2>5. QED
      BY <2>1, <2>2, <2>3, <2>4 DEF ShownAreMade
  <1>6. PluginTypesOnce'
    <2>1. ASSUME NEW h \in 1..last, KindOf(h) = "openconnect", typed'[h] # {}
          PROVE  ~Held(h)'
      BY <1>1, <2>1 DEF SentInv, PluginTypesOnce, Held
    <2>2. QED
      BY <1>1, <1>2, <2>1 DEF PluginTypesOnce
  <1>7. RepliesRight'
    <2>1. \A h \in 1..last : status[h] = "End" /\ ~Shown(h) /\ typed[h] = {}
                             => ~Shown(h)' /\ typed'[h] = {}
      BY <1>1, <1>3 DEF Shown
    <2>2. QED
      BY <2>1, RepliesStayRight DEF SentInv
  <1>8. QED
    BY <1>4, <1>5, <1>6, <1>7 DEF SentInv

\* What doSecretsResult sends back at once was typed, and no other call is concerned.
LEMMA ResultIsRight ==
  ASSUME TypeOK, AnsweredOnce, UNCHANGED <<last, request>>,
         NEW id \in Ids, NEW secret \in MaybeSecret, DoSecretsResult(id, secret),
         secret # NoSecret => secret \in typed'[id]
  PROVE  /\ lost \subseteq lost'
         /\ \A h \in Ids : status'[h] = status[h] \/ status'[h] = "End"
         /\ \A h \in Ids :
              \/ replies'[h] = replies[h]
              \/ \E reply \in Reply : replies'[h] = <<reply>> /\ RightReply(h, reply)'
  <1>1. CASE ~Held(id)
    BY <1>1 DEF DoSecretsResult, writeVars
  <1>2. CASE Held(id) /\ secret = NoSecret
    <2> DEFINE reply == [ok |-> FALSE, secret |-> NoSecret]
    <2>1. /\ status[id] # "End" /\ Answer(id, FALSE, NoSecret) /\ NoSecret \in MaybeSecret
          /\ UNCHANGED lost
      BY <1>2 DEF DoSecretsResult, Held, MaybeSecret, writeVars
    <2>2. /\ replies'[id] = <<reply>> /\ \A h \in Ids \ {id} : replies'[h] = replies[h]
          /\ \A h \in Ids : status'[h] = IF h = id THEN "End" ELSE status[h]
      BY <2>1, AnswerIsFirst
    <2>3. reply \in Reply /\ RightReply(id, reply)'
      BY DEF Reply, MaybeSecret, RightReply
    <2>4. QED
      BY <2>1, <2>2, <2>3
  <1>3. CASE Held(id) /\ secret # NoSecret /\ ~Kept(id)
    <2> DEFINE sent == Result(request[id], secret)
    <2>1. status[id] # "End" /\ Answer(id, TRUE, sent) /\ sent \in MaybeSecret /\ UNCHANGED lost
      BY <1>3, HeldIsMade, SecretTypes DEF DoSecretsResult, Held, writeVars
    <2>2. PICK s \in MaybeSecret : s = sent
      BY <2>1
    <2> DEFINE reply == [ok |-> TRUE, secret |-> s]
    <2>3. /\ replies'[id] = <<reply>> /\ \A h \in Ids \ {id} : replies'[h] = replies[h]
          /\ \A h \in Ids : status'[h] = IF h = id THEN "End" ELSE status[h]
      BY <2>1, <2>2, AnswerIsFirst
    <2>4. reply \in Reply
      BY DEF Reply
    <2>5. KindOf(id) # "vpn" => s = secret \/ (s = NoSecret /\ request[id].flag = "None")
      BY <2>2 DEF Result, KindOf
    <2>6. RightReply(id, reply)'
      BY <1>3, <2>5 DEF RightReply, Sent, KindOf
    <2>7. QED
      BY <2>1, <2>3, <2>4, <2>6
  <1>4. CASE Held(id) /\ secret # NoSecret /\ Kept(id)
    BY <1>4 DEF DoSecretsResult, WriteTyped
  <1>5. QED
    BY <1>1, <1>2, <1>3, <1>4

\* A call that waits for a panel is shown, and nothing else changes.
LEMMA ServeKeepsSent ==
  ASSUME TypeOK, AnsweredOnce, SentInv, NEW panels, ServeFirstWaiting(panels),
         UNCHANGED <<last, request, up, task, replies, typed, lost>>
  PROVE  SentInv'
  <1> DEFINE held == {id \in Calls : status[id] = "WaitClient"}
  <1>1. CASE held = {}
    <2>1. UNCHANGED <<status, down, dialogs>>
      BY <1>1 DEF ServeFirstWaiting
    <2>2. QED
      BY <2>1, NothingShown DEF TypeOK
  <1>2. CASE held # {}
    <2>1. First(held) \in held /\ RunAuthDialog(First(held), TRUE, panels)
      BY <1>2, CallsAreIds, FirstIsSmallest DEF ServeFirstWaiting
    <2>2. PICK id \in Ids : id \in held /\ RunAuthDialog(id, TRUE, panels)
      BY <2>1, CallsAreIds
    <2>3. id \in 1..last /\ status[id] = "WaitClient" /\ KindOf(id) = "wireless"
      BY <2>2 DEF Calls, SentInv, ShownAreMade
    <2>4. \A h \in Ids : status'[h] = IF h = id THEN "WaitDialog" ELSE status[h]
      BY <2>2, DialogTypeOK, Zenon
    <2>5. \A h : KindOf(h)' = KindOf(h)
      BY DEF KindOf
    <2>6. 1..last \subseteq Ids
      BY CallBoundsAssumption DEF TypeOK, Ids
    <2>7. dialogs' \subseteq dialogs \cup {id}
      BY <2>2 DEF RunAuthDialog
    <2>8. ASSUME NEW c \in Clients, NEW i \in 1..Len(down'[c])
          PROVE  down'[c][i] = id \/ \E j \in 1..Len(down[c]) : down'[c][i] = down[c][j]
      <3>1. down[c] \in Seq(Ids) /\ down \in [Clients -> Seq(Ids)]
        BY DEF TypeOK
      <3>2. down'[c] = down[c] \/ down'[c] = Append(down[c], id)
        BY <2>2, <3>1 DEF RunAuthDialog
      <3>3. CASE down'[c] = down[c]
        BY <2>8, <3>3
      <3>4. CASE down'[c] = Append(down[c], id)
        <4>1. Len(down[c]) \in Nat /\ Len(down'[c]) = Len(down[c]) + 1
          BY <3>1, <3>4
        <4>2. CASE i = Len(down[c]) + 1
          BY <3>1, <3>4, <4>2
        <4>3. CASE i # Len(down[c]) + 1
          <5>1. i \in 1..Len(down[c]) /\ down'[c][i] = down[c][i]
            BY <2>8, <3>1, <3>4, <4>1, <4>3
          <5>2. QED
            BY <5>1
        <4>4. QED
          BY <4>2, <4>3
      <3>5. QED
        BY <3>2, <3>3, <3>4
    <2>9. ASSUME NEW h \in Ids \ {id}, Shown(h)'
          PROVE  Shown(h)
      <3>1. UNCHANGED task
        BY <2>2 DEF RunAuthDialog
      <3>2. CASE h \in dialogs' \/ \E c \in Clients : task'[c] = h
        BY <2>7, <3>1, <3>2 DEF Shown
      <3>3. ASSUME NEW c \in Clients, NEW i \in 1..Len(down'[c]), down'[c][i] = h
            PROVE  Shown(h)
        BY <2>8, <3>3 DEF Shown
      <3>4. QED
        BY <2>9, <3>2, <3>3 DEF Shown
    <2>10. MessagesTyped'
      BY DEF SentInv, MessagesTyped
    <2>11. ShownAreMade'
      <3>1. \A c \in Clients : \A i \in 1..Len(down'[c]) :
              down'[c][i] \in 1..last /\ KindOf(down[c][i])' = "wireless"
        <4>1. ASSUME NEW c \in Clients, NEW i \in 1..Len(down'[c])
              PROVE  down'[c][i] \in 1..last /\ KindOf(down[c][i])' = "wireless"
          <5>1. CASE down'[c][i] = id
            BY <2>3, <5>1 DEF KindOf
          <5>2. CASE \E j \in 1..Len(down[c]) : down'[c][i] = down[c][j]
            BY <5>2 DEF KindOf, SentInv, ShownAreMade
          <5>3. QED
            BY <2>8, <5>1, <5>2
        <4>2. QED
          BY <4>1
      <3>2. \A h \in 1..last : status'[h] = "WaitClient" => KindOf(h)' = "wireless"
        BY <2>4, <2>5, <2>6 DEF SentInv, ShownAreMade
      <3>3. dialogs' \subseteq 1..last /\ \A h \in Ids : h > last => typed'[h] = {}
        BY <2>3, <2>7 DEF SentInv, ShownAreMade
      <3>4. \A c \in Clients : task'[c] # 0 => task'[c] \in 1..last /\ KindOf(task[c])' = "wireless"
        BY DEF SentInv, ShownAreMade, KindOf
      <3>5. QED
        BY <3>1, <3>2, <3>3, <3>4 DEF ShownAreMade
    <2>12. PluginTypesOnce'
      <3>1. ASSUME NEW h \in 1..last, KindOf(h) = "openconnect", typed[h] # {}
            PROVE  ~Held(h)'
        BY <2>3, <2>4, <2>6, <3>1 DEF SentInv, PluginTypesOnce, Held
      <3>2. QED
        BY <2>5, <3>1 DEF PluginTypesOnce
    <2>13. RepliesRight'
      <3>1. \A h \in 1..last : status[h] = "End" /\ ~Shown(h) /\ typed[h] = {}
                               => ~Shown(h)' /\ typed'[h] = {}
        BY <2>3, <2>6, <2>9
      <3>2. QED
        BY <3>1, RepliesStayRight DEF SentInv
    <2>14. QED
      BY <2>10, <2>11, <2>12, <2>13 DEF SentInv
  <1>3. QED
    BY <1>1, <1>2

\* The steps of a panel move what it is shown, and type only for what it shows.
LEMMA PanelKeepsSent ==
  ASSUME TypeOK, AnsweredOnce, SentInv, NEW c \in Clients,
         \/ DisconnectedHandler(c) \/ RequestSecrets(c)
         \/ \E secret \in MaybeSecret : SendSecretsResult(c, secret)
  PROVE  SentInv'
  <1>1. /\ UNCHANGED <<last, request, status, replies, dialogs, lost>>
    BY DEF DisconnectedHandler, RequestSecrets, SendSecretsResult, agentVars, writeVars, nmVars
  <1>2. /\ 1..last \subseteq Ids /\ \A h : KindOf(h)' = KindOf(h)
        /\ task \in [Clients -> 0..MaxCalls] /\ down \in [Clients -> Seq(Ids)]
        /\ up \in [Clients -> Seq([id: Ids, secret: MaybeSecret])]
        /\ typed \in [Ids -> SUBSET Secrets]
    <2>1. 1..last \subseteq Ids
      BY CallBoundsAssumption DEF TypeOK, Ids
    <2>2. \A h : KindOf(h)' = KindOf(h)
      BY <1>1 DEF KindOf
    <2>3. QED
      BY <2>1, <2>2 DEF TypeOK
  <1>3. ASSUME NEW d \in Clients, NEW i \in 1..Len(down'[d])
        PROVE  \E j \in 1..Len(down[d]) : down'[d][i] = down[d][j]
    <2>1. CASE down'[d] = down[d]
      BY <1>3, <2>1
    <2>2. CASE down'[d] = <<>>
      BY <1>3, <2>2
    <2>3. CASE down'[d] = Tail(down[d]) /\ down[d] # <<>>
      <3>1. down[d] \in Seq(Ids)
        BY <1>2
      <3>2. i + 1 \in 1..Len(down[d]) /\ down'[d][i] = down[d][i + 1]
        BY <1>3, <2>3, <3>1
      <3>3. QED
        BY <3>2
    <2>4. down'[d] = down[d] \/ down'[d] = <<>> \/ (down'[d] = Tail(down[d]) /\ down[d] # <<>>)
      BY <1>2 DEF DisconnectedHandler, RequestSecrets, SendSecretsResult
    <2>5. QED
      BY <2>1, <2>2, <2>3, <2>4
  <1>4. ASSUME NEW d \in Clients, task'[d] # 0
        PROVE  task'[d] = task[d] \/ \E j \in 1..Len(down[d]) : task'[d] = down[d][j]
    <2>1. CASE RequestSecrets(c)
      <3>1. down[c] \in Seq(Ids) /\ down[c] # <<>> /\ task' = [task EXCEPT ![c] = Head(down[c])]
        BY <1>2, <2>1 DEF RequestSecrets
      <3>2. 1 \in 1..Len(down[c]) /\ Head(down[c]) = down[c][1]
        BY <3>1
      <3>3. QED
        BY <1>2, <3>1, <3>2
    <2>2. CASE DisconnectedHandler(c) \/ \E secret \in MaybeSecret : SendSecretsResult(c, secret)
      BY <1>2, <1>4, <2>2 DEF DisconnectedHandler, SendSecretsResult
    <2>3. QED
      BY <2>1, <2>2
  <1>5. \A h \in Ids : Shown(h)' => Shown(h)
    <2>1. ASSUME NEW h \in Ids, Shown(h)'
          PROVE  Shown(h)
      <3>1. CASE h \in dialogs'
        BY <1>1, <3>1 DEF Shown
      <3>2. ASSUME NEW d \in Clients, task'[d] = h
            PROVE  Shown(h)
        <4>1. task'[d] # 0
          BY <3>2 DEF Ids
        <4>2. QED
          BY <1>4, <3>2, <4>1 DEF Shown
      <3>3. ASSUME NEW d \in Clients, NEW i \in 1..Len(down'[d]), down'[d][i] = h
            PROVE  Shown(h)
        BY <1>3, <3>3 DEF Shown
      <3>4. QED
        BY <2>1, <3>1, <3>2, <3>3 DEF Shown
    <2>2. QED
      BY <2>1
  <1>6. /\ \A h \in Ids : typed[h] \subseteq typed'[h]
        /\ \A h \in Ids : typed'[h] = typed[h] \/ (h = task[c] /\ task[c] # 0)
    <2>1. CASE UNCHANGED typed
      BY <2>1
    <2>2. ASSUME NEW secret \in MaybeSecret, SendSecretsResult(c, secret)
          PROVE  /\ \A h \in Ids : typed[h] \subseteq typed'[h]
                 /\ \A h \in Ids : typed'[h] = typed[h] \/ (h = task[c] /\ task[c] # 0)
      BY <1>2, <2>2 DEF SendSecretsResult, Types
    <2>3. QED
      BY <2>1, <2>2 DEF DisconnectedHandler, RequestSecrets
  <1>7. MessagesTyped'
    <2>1. ASSUME NEW d \in Clients, NEW i \in 1..Len(up[d]), up[d][i].secret # NoSecret
          PROVE  up[d][i].secret \in typed'[up[d][i].id]
      <3>1. up[d] \in Seq([id: Ids, secret: MaybeSecret])
        BY <1>2
      <3>2. up[d][i].id \in Ids
        <4>1. up[d][i] \in [id: Ids, secret: MaybeSecret]
          BY <3>1, ElementOfSeq
        <4>2. QED
          BY <4>1
      <3>3. QED
        BY <1>6, <2>1, <3>2 DEF SentInv, MessagesTyped
    <2>2. CASE UNCHANGED up
      BY <2>1, <2>2 DEF MessagesTyped
    <2>3. CASE up' = [up EXCEPT ![c] = <<>>]
      BY <1>2, <2>1, <2>3 DEF MessagesTyped
    <2>4. ASSUME NEW secret \in MaybeSecret, SendSecretsResult(c, secret)
          PROVE  MessagesTyped'
      <3> DEFINE m == [id |-> task[c], secret |-> secret]
      <3>1. task[c] \in Ids /\ task[c] # 0 /\ up' = [up EXCEPT ![c] = Append(@, m)]
        BY <1>2, <2>4, CallBoundsAssumption DEF SendSecretsResult, Ids
      <3>2. m.secret # NoSecret => m.secret \in typed'[m.id]
        BY <1>2, <2>4, <3>1 DEF SendSecretsResult, Types
      <3>3. ASSUME NEW d \in Clients, NEW i \in 1..Len(up'[d])
            PROVE  up'[d][i] = m \/ (i \in 1..Len(up[d]) /\ up'[d][i] = up[d][i])
        <4>1. up[d] \in Seq([id: Ids, secret: MaybeSecret])
          BY <1>2
        <4>2. up'[d] = up[d] \/ up'[d] = Append(up[d], m)
          BY <1>2, <3>1
        <4> HIDE DEF m
        <4>3. CASE up'[d] = up[d]
          BY <3>3, <4>3
        <4>4. CASE up'[d] = Append(up[d], m)
          <5>1. i = Len(up[d]) + 1 \/ i \in 1..Len(up[d])
            BY <3>3, <4>1, <4>4
          <5>2. QED
            BY <4>1, <4>4, <5>1
        <4>5. QED
          BY <4>2, <4>3, <4>4
      <3>4. QED
        BY <2>1, <3>2, <3>3 DEF MessagesTyped
    <2>5. QED
      BY <2>2, <2>3, <2>4 DEF DisconnectedHandler, RequestSecrets
  <1>8. ShownAreMade'
    <2>1. \A d \in Clients : \A i \in 1..Len(down'[d]) :
            down'[d][i] \in 1..last /\ KindOf(down[d][i])' = "wireless"
      BY <1>1, <1>3 DEF SentInv, ShownAreMade, KindOf
    <2>2. \A d \in Clients : task'[d] # 0 => task'[d] \in 1..last /\ KindOf(task[d])' = "wireless"
      BY <1>1, <1>4 DEF SentInv, ShownAreMade, KindOf
    <2>3. \A h \in Ids : h > last => typed'[h] = {}
      <3>1. task[c] # 0 => task[c] \in 1..last
        BY DEF SentInv, ShownAreMade
      <3>2. QED
        BY <1>2, <1>6, <3>1, CallBoundsAssumption DEF SentInv, ShownAreMade, Ids, TypeOK
    <2>4. QED
      BY <1>1, <1>2, <2>1, <2>2, <2>3 DEF SentInv, ShownAreMade
  <1>9. PluginTypesOnce'
    <2>1. ASSUME NEW h \in 1..last, KindOf(h) = "openconnect"
          PROVE  typed'[h] = typed[h] /\ Held(h)' = Held(h)
      BY <1>1, <1>2, <1>6, <2>1 DEF SentInv, ShownAreMade, Held
    <2>2. QED
      BY <1>1, <1>2, <2>1 DEF SentInv, PluginTypesOnce
  <1>10. RepliesRight'
    <2>1. ASSUME NEW h \in 1..last, ~Shown(h)
          PROVE  ~Shown(h)' /\ typed'[h] = typed[h]
      BY <1>2, <1>5, <1>6, <2>1 DEF Shown
    <2>2. QED
      BY <1>1, <1>6, <2>1, RepliesStayRight DEF SentInv
  <1>11. QED
    BY <1>7, <1>8, <1>9, <1>10 DEF SentInv

\* A new call is not shown before it is made, and is answered at once only when nobody is
\* asked.
LEMMA GetSecretsKeepsSent ==
  ASSUME TypeOK, AnsweredOnce, SentInv, NEW c \in Conns, NEW given \in MaybeSecret,
         NEW interact \in BOOLEAN, NEW new \in BOOLEAN, NEW soon \in BOOLEAN,
         GetSecrets(c, given, interact, new, soon)
  PROVE  SentInv'
  <1> DEFINE r  == [conn |-> c, flag |-> flag[c], given |-> given,
                    interact |-> interact, new |-> new]
  <1>1. PICK id \in Ids : id = last + 1
    BY CallBoundsAssumption DEF GetSecrets, TypeOK, Ids
  <1>2. /\ r \in Request /\ last' = id /\ request' = [request EXCEPT ![id] = r]
        /\ UNCHANGED <<up, task, typed, lost>>
    BY <1>1 DEF GetSecrets, NextId, TypeOK, Request, writeVars
  <1>3. /\ 1..last \subseteq Ids \ {id} /\ id \notin 1..last /\ 1..last' = 1..last \cup {id}
        /\ \A h \in 1..last : KindOf(h)' = KindOf(h) /\ request'[h] = request[h]
        /\ KindOf(id)' = Kind[c] /\ request'[id] = r /\ status[id] = "Unused" /\ typed[id] = {}
    <2>1. /\ 1..last \subseteq Ids \ {id} /\ id \notin 1..last /\ 1..last' = 1..last \cup {id}
      <3>1. last \in Nat /\ last' = last + 1
        BY <1>1, <1>2, CallBoundsAssumption DEF TypeOK
      <3>2. QED
        BY <1>1, <3>1, CallBoundsAssumption DEF Ids
    <2>2. request'[id] = r /\ \A h \in 1..last : request'[h] = request[h]
      BY <1>2, <2>1 DEF TypeOK
    <2>3. status[id] = "Unused" /\ typed[id] = {}
      BY <1>1, CallBoundsAssumption DEF TypeOK, Ids, SentInv, ShownAreMade
    <2>4. QED
      BY <2>1, <2>2, <2>3 DEF KindOf
  <1>4. /\ \A h \in Ids \ {id} : status'[h] = status[h] /\ replies'[h] = replies[h]
        /\ dialogs' \subseteq dialogs \cup {id}
        /\ \A d \in Clients : down'[d] = down[d] \/ (down'[d] = Append(down[d], id) /\ Kind[c] = "wireless")
        /\ status'[id] = "WaitClient" => Kind[c] = "wireless"
        /\ \/ replies'[id] = <<>>
           \/ /\ \E reply \in Reply : replies'[id] = <<reply>>
              /\ UNCHANGED <<down, dialogs>>
    <2>1. replies[id] = <<>> /\ replies \in [Ids -> Seq(Reply)] /\ down \in [Clients -> Seq(Ids)]
      BY <1>3 DEF TypeOK, AnsweredOnce
    <2>2. status \in [Ids -> Statuses]
      BY DEF TypeOK
    <2>3. CASE /\ status' = [status EXCEPT ![id] = "WaitDialog"]
               /\ dialogs' \in {dialogs, dialogs \cup {id}} /\ UNCHANGED <<down, replies>>
      BY <2>1, <2>2, <2>3
    <2>4. CASE AskPasswords(id, Kind[c] = "wireless") /\ UNCHANGED replies
      <3>1. CASE Kind[c] = "wireless"
        BY <2>1, <2>2, <2>4, <3>1 DEF AskPasswords, RunAuthDialog
      <3>2. CASE Kind[c] # "wireless"
        BY <2>1, <2>2, <2>4, <3>2 DEF AskPasswords, RunAuthDialog
      <3>3. QED
        BY <3>1, <3>2
    <2>5. CASE Answer(id, TRUE, Known(r)) /\ UNCHANGED <<down, dialogs>>
      <3>1. Known(r) \in MaybeSecret
        BY <1>2, SecretTypes
      <3>2. /\ replies'[id] = <<[ok |-> TRUE, secret |-> Known(r)]>>
            /\ \A h \in Ids \ {id} : replies'[h] = replies[h]
            /\ \A h \in Ids : status'[h] = IF h = id THEN "End" ELSE status[h]
        BY <1>3, <2>5, <3>1, AnswerIsFirst
      <3>3. [ok |-> TRUE, secret |-> Known(r)] \in Reply
        BY <3>1 DEF Reply
      <3>4. QED
        BY <2>5, <3>2, <3>3
    <2>6. \/ /\ status' = [status EXCEPT ![id] = "WaitDialog"]
             /\ dialogs' \in {dialogs, dialogs \cup {id}} /\ UNCHANGED <<down, replies>>
          \/ AskPasswords(id, Kind[c] = "wireless") /\ UNCHANGED replies
          \/ Answer(id, TRUE, Known(r)) /\ UNCHANGED <<down, dialogs>>
      BY <1>1 DEF GetSecrets, NextId
    <2>7. QED
      BY <2>3, <2>4, <2>5, <2>6
  <1>5. ~Shown(id)
    BY <1>3 DEF Shown, SentInv, ShownAreMade, Ids
  <1>6. ASSUME NEW d \in Clients, NEW i \in 1..Len(down'[d])
        PROVE  \/ down'[d][i] = id /\ Kind[c] = "wireless"
               \/ \E j \in 1..Len(down[d]) : down'[d][i] = down[d][j]
    <2>1. down[d] \in Seq(Ids)
      BY DEF TypeOK
    <2>2. QED
      BY <1>4, <1>6, <2>1
  <1>7. ASSUME NEW h \in 1..last, Shown(h)'
        PROVE  Shown(h)
    <2>1. h # id
      BY <1>3
    <2>2. CASE h \in dialogs'
      BY <1>4, <2>1, <2>2 DEF Shown
    <2>3. CASE \E d \in Clients : task'[d] = h
      BY <1>2, <2>3 DEF Shown
    <2>4. CASE \E d \in Clients : \E i \in 1..Len(down'[d]) : down'[d][i] = h
      BY <1>6, <2>1, <2>4 DEF Shown
    <2>5. QED
      BY <1>7, <2>2, <2>3, <2>4 DEF Shown
  <1>8. MessagesTyped'
    BY <1>2 DEF SentInv, MessagesTyped
  <1>9. ShownAreMade'
    <2>1. dialogs' \subseteq 1..last'
      BY <1>3, <1>4 DEF SentInv, ShownAreMade
    <2>2. \A h \in 1..last' : status'[h] = "WaitClient" => KindOf(h)' = "wireless"
      BY <1>3, <1>4 DEF SentInv, ShownAreMade
    <2>3. ASSUME NEW d \in Clients, NEW i \in 1..Len(down'[d])
          PROVE  down'[d][i] \in 1..last' /\ KindOf(down[d][i])' = "wireless"
      <3>1. CASE down'[d][i] = id /\ Kind[c] = "wireless"
        BY <1>3, <3>1 DEF KindOf
      <3>2. CASE \E j \in 1..Len(down[d]) : down'[d][i] = down[d][j]
        BY <1>3, <3>2 DEF KindOf, SentInv, ShownAreMade
      <3>3. QED
        BY <1>6, <2>3, <3>1, <3>2
    <2>4. \A d \in Clients : task'[d] # 0 => task'[d] \in 1..last' /\ KindOf(task[d])' = "wireless"
      BY <1>2, <1>3 DEF SentInv, ShownAreMade, KindOf
    <2>5. \A h \in Ids : h > last' => typed'[h] = {}
      BY <1>1, <1>2, CallBoundsAssumption DEF SentInv, ShownAreMade, TypeOK, Ids
    <2>6. QED
      BY <2>1, <2>2, <2>3, <2>4, <2>5 DEF ShownAreMade
  <1>10. PluginTypesOnce'
    <2>1. \A h \in 1..last : typed'[h] = typed[h] /\ (Held(h)' <=> Held(h))
      BY <1>2, <1>3, <1>4 DEF Held
    <2>2. \A h \in 1..last' : KindOf(h)' = "openconnect" /\ typed'[h] # {} => ~Held(h)'
      BY <1>2, <1>3, <2>1 DEF SentInv, PluginTypesOnce
    <2>3. QED
      BY <2>2 DEF PluginTypesOnce
  <1>11. RepliesRight'
    <2>1. ASSUME NEW h \in 1..last, NEW i \in 1..Len(replies'[h])
          PROVE  RightReply(h, replies[h][i])'
      <3>1. replies'[h] = replies[h] /\ replies[h] \in Seq(Reply)
        BY <1>3, <1>4 DEF TypeOK
      <3>2. PICK reply \in Reply : reply = replies[h][i]
        BY <2>1, <3>1, ElementOfSeq
      <3>3. RightReply(h, reply)
        BY <2>1, <3>1, <3>2 DEF SentInv, RepliesRight
      <3>4. Sent(h, reply) => Sent(h, reply)'
        BY <1>2, <1>3 DEF Sent
      <3>5. KindOf(h)' = KindOf(h) /\ typed'[h] = typed[h] /\ (Shown(h)' => Shown(h))
        BY <1>2, <1>3, <1>7
      <3>6. RightReply(h, reply)'
        BY <3>3, <3>4, <3>5 DEF RightReply
      <3>7. QED
        BY <3>1, <3>2, <3>6
    <2>2. ASSUME NEW i \in 1..Len(replies'[id])
          PROVE  RightReply(id, replies[id][i])'
      <3>1. replies'[id] # <<>>
        BY <2>2
      <3>2. UNCHANGED <<down, dialogs>>
        BY <1>4, <3>1
      <3>3. ~Shown(id)' /\ typed'[id] = {}
        BY <1>2, <1>3, <1>5, <3>2 DEF Shown
      <3>4. QED
        BY <3>3 DEF RightReply
    <2>3. QED
      BY <1>3, <2>1, <2>2 DEF RepliesRight
  <1>12. QED
    BY <1>8, <1>9, <1>10, <1>11 DEF SentInv

\* Steps that cancel, drop or time out calls, or are no concern of them.
LEMMA QuietKeepsSent ==
  ASSUME TypeOK, AnsweredOnce, SentInv,
         \/ \E w \in 1..last : CancelGetSecrets(w) \/ NmTimesOut(w) \/ OnGetSecretsTimeout(w)
         \/ \E c \in Conns, f \in Flags, secret \in MaybeSecret : SaveSecrets(c, f, secret)
         \/ LockOrUnlock \/ SetClockBack \/ UNCHANGED vars
  PROVE  SentInv'
  <1>1. UNCHANGED <<last, request, task, down, up, dialogs, typed, lost>>
    BY DEF CancelGetSecrets, NmTimesOut, OnGetSecretsTimeout, SaveSecrets, LockOrUnlock,
           SetClockBack, vars, agentVars, writeVars, clientVars
  <1>2. ASSUME NEW w \in 1..last, CancelGetSecrets(w)
        PROVE  /\ \A h \in Ids : status'[h] = status[h] \/ status'[h] \in {"End", "TimedOut"}
               /\ \A h \in 1..last :
                    \/ replies'[h] = replies[h]
                    \/ \E reply \in Reply : replies'[h] = <<reply>> /\ RightReply(h, reply)'
    <2> DEFINE same == {id \in Calls : request[id].conn = request[w].conn}
               reply == [ok |-> FALSE, secret |-> NoSecret]
    <2>1. CASE same = {}
      BY <1>2, <2>1 DEF CancelGetSecrets
    <2>2. CASE same # {}
      <3>1. First(same) \in same
        BY <2>2, CallsAreIds, FirstIsSmallest
      <3>2. PICK id \in Calls : Answer(id, FALSE, NoSecret)
        BY <1>2, <2>2, <3>1 DEF CancelGetSecrets
      <3>3. id \in Ids /\ status[id] # "End" /\ NoSecret \in MaybeSecret
        BY CallsAreIds DEF Calls, Held, MaybeSecret
      <3>4. /\ replies'[id] = <<reply>> /\ \A h \in Ids \ {id} : replies'[h] = replies[h]
            /\ \A h \in Ids : status'[h] = IF h = id THEN "End" ELSE status[h]
        BY <3>2, <3>3, AnswerIsFirst
      <3>5. reply \in Reply /\ RightReply(id, reply)'
        BY <3>3 DEF Reply, RightReply
      <3>6. 1..last \subseteq Ids
        BY CallBoundsAssumption DEF TypeOK, Ids
      <3>7. QED
        BY <3>4, <3>5, <3>6
    <2>3. QED
      BY <2>1, <2>2
  <1>3. ASSUME NEW w \in 1..last, OnGetSecretsTimeout(w)
        PROVE  /\ \A h \in Ids : status'[h] = status[h] \/ status'[h] \in {"End", "TimedOut"}
               /\ UNCHANGED replies
    BY <1>3 DEF OnGetSecretsTimeout, TypeOK, nmVars
  <1>4. /\ \A h \in Ids : status'[h] = status[h] \/ status'[h] \in {"End", "TimedOut"}
        /\ \A h \in 1..last :
             \/ replies'[h] = replies[h]
             \/ \E reply \in Reply : replies'[h] = <<reply>> /\ RightReply(h, reply)'
    BY <1>2, <1>3 DEF NmTimesOut, SaveSecrets, LockOrUnlock, SetClockBack, vars, agentVars, nmVars
  <1>5. QED
    <2>1. dialogs' \subseteq dialogs /\ \A h \in Ids : typed'[h] = typed[h]
      BY <1>1
    <2>2. \A c \in Clients : \A i \in 1..Len(up'[c]) : \E j \in 1..Len(up[c]) : up'[c][i] = up[c][j]
      BY <1>1
    <2>3. UNCHANGED <<last, request, task, down, lost>>
      BY <1>1
    <2>4. 1..last \subseteq Ids
      BY CallBoundsAssumption DEF TypeOK, Ids
    <2>5. \A h \in 1..last : KindOf(h) = "openconnect" /\ typed'[h] # typed[h]
                             => status'[h] \notin {"WaitClient", "WaitDialog"}
      BY <2>1, <2>4
    <2>6. QED
      BY <1>4, <2>1, <2>2, <2>3, <2>5, NothingShown

\* What panels and dialogs say is right for the call they say it about.
LEMMA AnswersKeepSent ==
  ASSUME TypeOK, AnsweredOnce, SentInv,
         \/ \E w \in 1..last :
              \/ AuthDialogFinished(w)
              \/ \E secret \in Secrets : AuthDialogReadOutput(w, secret)
              \/ \E secret \in MaybeSecret, isEnd \in BOOLEAN : VpnDialogReadAllOutput(w, secret, isEnd)
         \/ \E c \in Clients : SecretsResult(c)
  PROVE  SentInv'
  <1>1. 1..last \subseteq Ids
    BY CallBoundsAssumption DEF TypeOK, Ids
  <1>2. ASSUME NEW w \in 1..last, AuthDialogFinished(w)
        PROVE  SentInv'
    <2>1. /\ UNCHANGED <<last, request, task, down, up, typed>> /\ dialogs' \subseteq dialogs
          /\ DoSecretsResult(w, NoSecret) /\ NoSecret \in MaybeSecret
      BY <1>2 DEF AuthDialogFinished, clientVars, MaybeSecret
    <2>2. /\ lost \subseteq lost'
          /\ \A h \in Ids : status'[h] = status[h] \/ status'[h] = "End"
          /\ \A h \in Ids :
               \/ replies'[h] = replies[h]
               \/ \E reply \in Reply : replies'[h] = <<reply>> /\ RightReply(h, reply)'
      BY <1>1, <2>1, ResultIsRight
    <2>3. QED
      BY <1>1, <2>1, <2>2, NothingShown
  <1>3. ASSUME NEW w \in 1..last, NEW secret \in Secrets, AuthDialogReadOutput(w, secret)
        PROVE  SentInv'
    <2>1. /\ UNCHANGED <<last, request, task, down, up, dialogs>>
          /\ DoSecretsResult(w, secret) /\ secret \in MaybeSecret /\ secret # NoSecret
          /\ w \in dialogs /\ KindOf(w) # "openconnect"
      BY <1>3, NoSecretAssumption DEF AuthDialogReadOutput, clientVars, MaybeSecret
    <2>2. typed' = [typed EXCEPT ![w] = @ \cup {secret}] /\ typed \in [Ids -> SUBSET Secrets]
      BY <1>3, <2>1 DEF AuthDialogReadOutput, Types, TypeOK
    <2>3. secret \in typed'[w]
      BY <1>1, <2>2
    <2>4. /\ lost \subseteq lost'
          /\ \A h \in Ids : status'[h] = status[h] \/ status'[h] = "End"
          /\ \A h \in Ids :
               \/ replies'[h] = replies[h]
               \/ \E reply \in Reply : replies'[h] = <<reply>> /\ RightReply(h, reply)'
      BY <1>1, <2>1, <2>3, ResultIsRight
    <2>5. /\ \A h \in Ids : typed[h] \subseteq typed'[h]
          /\ \A h \in Ids : h = w \/ typed'[h] = typed[h]
      BY <2>2
    <2>6. QED
      BY <1>1, <2>1, <2>4, <2>5, NothingShown
  <1>4. ASSUME NEW w \in 1..last, NEW secret \in MaybeSecret, NEW isEnd \in BOOLEAN,
               VpnDialogReadAllOutput(w, secret, isEnd)
        PROVE  SentInv'
    <2>1. /\ UNCHANGED <<last, request, task, down, up, lost>> /\ dialogs' \subseteq dialogs
          /\ w \in dialogs /\ KindOf(w) = "openconnect" /\ w \in Ids
          /\ secret = NoSecret => w \notin dialogs'
      BY <1>1, <1>4 DEF VpnDialogReadAllOutput, clientVars, writeVars
    <2>2. /\ secret = NoSecret => typed' = typed
          /\ secret # NoSecret => secret \in typed'[w]
          /\ \A h \in Ids : typed[h] \subseteq typed'[h]
          /\ \A h \in Ids : h = w \/ typed'[h] = typed[h]
      BY <1>4, <2>1 DEF VpnDialogReadAllOutput, Types, TypeOK
    <2>3. CASE ~Held(w)
      <3>1. UNCHANGED <<status, replies>>
        BY <1>4, <2>3 DEF VpnDialogReadAllOutput
      <3>2. \A h \in 1..last : KindOf(h) = "openconnect" /\ typed'[h] # typed[h]
                               => status'[h] \notin {"WaitClient", "WaitDialog"}
        BY <1>1, <2>2, <2>3, <3>1 DEF Held
      <3>3. QED
        BY <2>1, <2>2, <3>1, <3>2, NothingShown
    <2>4. CASE Held(w)
      <3> DEFINE reply == [ok |-> TRUE, secret |-> secret]
      <3>1. Answer(w, TRUE, secret) /\ status[w] # "End"
        BY <1>4, <2>4 DEF VpnDialogReadAllOutput, Held
      <3>2. /\ replies'[w] = <<reply>> /\ \A h \in Ids \ {w} : replies'[h] = replies[h]
            /\ \A h \in Ids : status'[h] = IF h = w THEN "End" ELSE status[h]
        BY <2>1, <3>1, AnswerIsFirst
      <3>3. reply \in Reply
        BY DEF Reply
      <3>4. RightReply(w, reply)'
        <4>1. CASE secret # NoSecret
          BY <2>2, <4>1 DEF RightReply, Sent
        <4>2. CASE secret = NoSecret
          <5>1. typed'[w] = {}
            BY <2>1, <2>2, <2>4, <4>2 DEF SentInv, PluginTypesOnce
          <5>2. ~Shown(w)'
            BY <2>1, <4>2 DEF Shown, SentInv, ShownAreMade, Ids
          <5>3. QED
            BY <5>1, <5>2 DEF RightReply
        <4>3. QED
          BY <4>1, <4>2
      <3>5. QED
        BY <1>1, <2>1, <2>2, <3>2, <3>3, <3>4, NothingShown
    <2>5. QED
      BY <2>3, <2>4
  <1>5. ASSUME NEW c \in Clients, SecretsResult(c)
        PROVE  SentInv'
    <2>1. /\ up[c] \in Seq([id: Ids, secret: MaybeSecret]) /\ up[c] # <<>>
          /\ up \in [Clients -> Seq([id: Ids, secret: MaybeSecret])]
          /\ up' = [up EXCEPT ![c] = Tail(up[c])]
          /\ UNCHANGED <<last, request, task, down, dialogs, typed>>
      BY <1>5 DEF SecretsResult, TypeOK
    <2>2. PICK id \in Ids, secret \in MaybeSecret :
            id = Head(up[c]).id /\ secret = Head(up[c]).secret
      <3>1. Head(up[c]) \in [id: Ids, secret: MaybeSecret]
        BY <2>1, TakeHead
      <3>2. QED
        BY <3>1
    <2>3. DoSecretsResult(id, secret)
      BY <1>5, <2>2 DEF SecretsResult
    <2>4. 1 \in 1..Len(up[c]) /\ Head(up[c]) = up[c][1]
      BY <2>1
    <2>5. secret # NoSecret => secret \in typed'[id]
      BY <2>1, <2>2, <2>4 DEF SentInv, MessagesTyped
    <2>6. /\ lost \subseteq lost'
          /\ \A h \in Ids : status'[h] = status[h] \/ status'[h] = "End"
          /\ \A h \in Ids :
               \/ replies'[h] = replies[h]
               \/ \E reply \in Reply : replies'[h] = <<reply>> /\ RightReply(h, reply)'
      BY <2>1, <2>3, <2>5, ResultIsRight
    <2>7. ASSUME NEW d \in Clients, NEW i \in 1..Len(up'[d])
          PROVE  \E j \in 1..Len(up[d]) : up'[d][i] = up[d][j]
      <3>1. CASE d = c
        <4>1. i + 1 \in 1..Len(up[c]) /\ up'[c][i] = up[c][i + 1]
          BY <2>1, <2>7, <3>1
        <4>2. QED
          BY <3>1, <4>1
      <3>2. CASE d # c
        BY <2>1, <2>7, <3>2
      <3>3. QED
        BY <3>1, <3>2
    <2>8. QED
      BY <1>1, <2>1, <2>6, <2>7, NothingShown
  <1>6. QED
    BY <1>2, <1>3, <1>4, <1>5

\* What is written and not yet read back was typed, and is in the keyring or lost.
WrittenInv ==
  \A w \in written :
    /\ Kept(w.id) /\ w.secret \in typed[w.id]
    /\ w.id \in lost \/ keyring[request[w.id].conn] = w.secret

\* doSecretsResult leaves the keyring, or writes what was typed.
LEMMA ResultWrites ==
  ASSUME TypeOK, WrittenInv, Idle, NEW id \in Ids, NEW secret \in MaybeSecret,
         DoSecretsResult(id, secret), UNCHANGED request,
         secret # NoSecret => secret \in typed'[id]
  PROVE  WrittenInv'
  <1>1. CASE UNCHANGED written
    BY <1>1 DEF Idle, WrittenInv
  <1>2. CASE Held(id) /\ secret # NoSecret /\ Kept(id) /\ WriteTyped(id, secret)
    <2>1. PICK ok \in BOOLEAN : /\ SetData(request[id].conn, secret, ok)
                                /\ lost' = IF ok THEN lost ELSE lost \cup {id}
      BY <1>2 DEF WriteTyped
    <2>2. keyring \in [Conns -> MaybeSecret] /\ request[id].conn \in Conns
      BY <1>2, HeldIsMade DEF TypeOK
    <2>3. id \in lost' \/ keyring'[request[id].conn] = secret
      BY <2>1, <2>2 DEF SetData
    <2>4. written' = {[id |-> id, secret |-> secret]}
      BY <1>2 DEF WriteTyped
    <2>5. Kept(id)' /\ secret \in typed'[id]
      BY <1>2 DEF Kept, KindOf
    <2>6. QED
      BY <2>3, <2>4, <2>5 DEF WrittenInv
  <1>3. QED
    BY <1>1, <1>2 DEF DoSecretsResult, writeVars

LEMMA StepKeepsWritten ==
  ASSUME TypeOK, SentInv, WrittenInv, [Next]_vars
  PROVE  WrittenInv'
  <1>1. CASE written' = {}
    BY <1>1 DEF WrittenInv
  <1>2. ASSUME UNCHANGED <<keyring, request, written, lost>>, \A h \in Ids : typed[h] \subseteq typed'[h]
        PROVE  WrittenInv'
    <2>1. \A w \in written : w.id \in Ids
      BY CallsAreIds DEF TypeOK
    <2>2. QED
      BY <1>2, <2>1 DEF WrittenInv, Kept, KindOf
  <1>3. CASE Idle /\ UNCHANGED writeVars
    BY <1>1, <1>3 DEF Idle, writeVars
  <1>4. 1..last \subseteq Ids /\ NoSecret \in MaybeSecret /\ typed \in [Ids -> SUBSET Secrets]
    BY CallBoundsAssumption DEF TypeOK, Ids, MaybeSecret
  <1>5. ASSUME NEW w \in 1..last, AuthDialogFinished(w)
        PROVE  WrittenInv'
    BY <1>4, <1>5, ResultWrites DEF AuthDialogFinished
  <1>6. ASSUME NEW w \in 1..last, NEW secret \in Secrets, AuthDialogReadOutput(w, secret)
        PROVE  WrittenInv'
    <2>1. w \in Ids /\ secret \in MaybeSecret /\ secret # NoSecret
      BY <1>4, NoSecretAssumption DEF MaybeSecret
    <2>2. secret \in typed'[w]
      BY <1>4, <1>6, <2>1 DEF AuthDialogReadOutput, Types
    <2>3. Idle /\ DoSecretsResult(w, secret) /\ UNCHANGED request
      BY <1>6 DEF AuthDialogReadOutput
    <2>4. QED
      BY <2>1, <2>2, <2>3, ResultWrites
  <1>7. ASSUME NEW c \in Clients, SecretsResult(c)
        PROVE  WrittenInv'
    <2>1. /\ up[c] \in Seq([id: Ids, secret: MaybeSecret]) /\ up[c] # <<>>
          /\ Idle /\ UNCHANGED <<request, typed>>
      BY <1>7 DEF SecretsResult, TypeOK
    <2>2. PICK id \in Ids, secret \in MaybeSecret :
            id = Head(up[c]).id /\ secret = Head(up[c]).secret
      <3>1. Head(up[c]) \in [id: Ids, secret: MaybeSecret]
        BY <2>1, TakeHead
      <3>2. QED
        BY <3>1
    <2>3. DoSecretsResult(id, secret)
      BY <1>7, <2>2 DEF SecretsResult
    <2>4. 1 \in 1..Len(up[c]) /\ Head(up[c]) = up[c][1]
      BY <2>1
    <2>5. secret # NoSecret => secret \in typed'[id]
      BY <2>1, <2>2, <2>4 DEF SentInv, MessagesTyped
    <2>6. QED
      BY <2>1, <2>3, <2>5, ResultWrites
  <1>8. ASSUME NEW c \in Clients, NEW secret \in MaybeSecret, SendSecretsResult(c, secret)
        PROVE  WrittenInv'
    <2>1. \A h \in Ids : typed[h] \subseteq typed'[h]
      BY <1>4, <1>8 DEF SendSecretsResult, Types
    <2>2. QED
      BY <1>2, <1>8, <2>1 DEF SendSecretsResult, keyringVars, agentVars, writeVars
  <1>9. CASE ReadBack
    BY <1>1, <1>9 DEF ReadBack
  <1>10. CASE \/ \E w \in 1..last : NmTimesOut(w)
              \/ \E c \in Clients : RequestSecrets(c)
              \/ LockOrUnlock \/ SetClockBack \/ UNCHANGED vars
    <2>1. UNCHANGED <<keyring, request, written, lost, typed>>
      BY <1>10 DEF NmTimesOut, RequestSecrets, LockOrUnlock, ToggleLock, SetClockBack, vars,
                   keyringVars, agentVars, writeVars
    <2>2. QED
      BY <1>2, <2>1
  <1>11. CASE \/ \E c \in Conns, given \in MaybeSecret, interact, new, soon \in BOOLEAN :
                   GetSecrets(c, given, interact, new, soon)
              \/ \E w \in 1..last :
                   \/ CancelGetSecrets(w) \/ OnGetSecretsTimeout(w)
                   \/ \E secret \in MaybeSecret, isEnd \in BOOLEAN :
                        VpnDialogReadAllOutput(w, secret, isEnd)
              \/ \E c \in Conns, f \in Flags, secret \in MaybeSecret : SaveSecrets(c, f, secret)
              \/ WaitClientTimeOut
              \/ \E c \in Clients : NewConnectionHandler(c) \/ DisconnectedHandler(c)
    <2>1. CASE \E c \in Conns, given \in MaybeSecret, interact, new, soon \in BOOLEAN :
                 GetSecrets(c, given, interact, new, soon)
      BY <1>3, <2>1 DEF GetSecrets, writeVars
    <2>2. CASE \E w \in 1..last : CancelGetSecrets(w) \/ OnGetSecretsTimeout(w)
      BY <1>3, <2>2 DEF CancelGetSecrets, OnGetSecretsTimeout, writeVars
    <2>3. CASE \E w \in 1..last, secret \in MaybeSecret, isEnd \in BOOLEAN :
                 VpnDialogReadAllOutput(w, secret, isEnd)
      BY <1>3, <2>3 DEF VpnDialogReadAllOutput, writeVars
    <2>4. CASE \E c \in Conns, f \in Flags, secret \in MaybeSecret : SaveSecrets(c, f, secret)
      BY <1>3, <2>4 DEF SaveSecrets, agentVars, writeVars
    <2>5. CASE WaitClientTimeOut
      BY <1>3, <2>5 DEF WaitClientTimeOut, writeVars
    <2>6. CASE \E c \in Clients : NewConnectionHandler(c) \/ DisconnectedHandler(c)
      BY <1>3, <2>6 DEF NewConnectionHandler, DisconnectedHandler, agentVars, writeVars
    <2>7. QED
      BY <1>11, <2>1, <2>2, <2>3, <2>4, <2>5, <2>6
  <1>12. QED
    BY <1>5, <1>6, <1>7, <1>8, <1>9, <1>10, <1>11 DEF Next

\* What is read back is what was typed, unless that was lost.
LEMMA ReadBackKeepsSent ==
  ASSUME TypeOK, AnsweredOnce, SentInv, WrittenInv, ReadBack
  PROVE  SentInv'
  <1>1. PICK w \in written, secret \in MaybeSecret :
          /\ w.id \in Ids /\ Held(w.id) /\ Answer(w.id, TRUE, secret)
          /\ \/ secret = w.secret /\ Saved(request[w.id].conn) = NoSecret
             \/ secret = Saved(request[w.id].conn) /\ secret # NoSecret
    BY ReadBackAnswers
  <1> DEFINE id    == w.id
             reply == [ok |-> TRUE, secret |-> secret]
  <1>2. status[id] # "End" /\ id \in Ids
    BY <1>1 DEF Held
  <1>3. /\ replies'[id] = <<reply>> /\ \A h \in Ids \ {id} : replies'[h] = replies[h]
        /\ \A h \in Ids : status'[h] = IF h = id THEN "End" ELSE status[h]
    BY <1>1, <1>2, AnswerIsFirst
  <1>4. reply \in Reply
    BY DEF Reply
  <1>5. UNCHANGED <<last, request, task, down, up, dialogs, typed, lost, keyring>>
    BY DEF ReadBack, clientVars, keyringVars
  <1>6. RightReply(id, reply)'
    <2>1. secret \in typed[id] \/ (request[id].flag = "AgentOwned" /\ id \in lost)
      BY <1>1 DEF WrittenInv, Kept, Saved
    <2>2. QED
      BY <1>5, <2>1 DEF RightReply, Sent
  <1>7. 1..last \subseteq Ids
    BY CallBoundsAssumption DEF TypeOK, Ids
  <1>8. QED
    BY <1>3, <1>4, <1>5, <1>6, <1>7, NothingShown

LEMMA StepKeepsSent ==
  ASSUME TypeOK, AnsweredOnce, SentInv, WrittenInv, [Next]_vars
  PROVE  SentInv'
  <1>1. CASE WaitClientTimeOut \/ \E c \in Clients : NewConnectionHandler(c)
    <2>1. PICK panels : ServeFirstWaiting(panels)
      BY <1>1 DEF WaitClientTimeOut, NewConnectionHandler
    <2>2. UNCHANGED <<last, request, up, task, replies, typed, lost>>
      BY <1>1 DEF WaitClientTimeOut, NewConnectionHandler, nmVars, writeVars
    <2>3. QED
      BY <2>1, <2>2, ServeKeepsSent
  <1>2. CASE UNCHANGED vars
    BY <1>2, QuietKeepsSent
  <1>3. CASE Next
    BY <1>1, <1>3, GetSecretsKeepsSent, QuietKeepsSent, AnswersKeepSent, ReadBackKeepsSent,
       PanelKeepsSent DEF Next
  <1>4. QED
    BY <1>2, <1>3

\* NetworkManager gets what the user has typed for the call, and not what was typed for
\* another, for any number of panels that show it at once, quit and answer late, and of
\* dialogs.  An older secret goes out only where the keyring refused the new one, however
\* it is locked and unlocked between the write and the read; in a VPN, where one was saved.
THEOREM SendsWhatIsTyped == Spec => []TypedIsSent
  <1>1. Init => AnsweredOnce
    BY DEF Init, AnsweredOnce
  <1>2. Init => SentInv
    <2>1. Init => MessagesTyped
      BY DEF Init, MessagesTyped
    <2>2. Init => ShownAreMade
      BY DEF Init, ShownAreMade
    <2>3. Init => PluginTypesOnce /\ RepliesRight
      BY DEF Init, PluginTypesOnce, RepliesRight
    <2>4. QED
      BY <2>1, <2>2, <2>3 DEF SentInv
  <1>3. Init => WrittenInv
    BY DEF Init, WrittenInv
  <1>4. SentInv => TypedIsSent
    BY DEF SentInv, RepliesRight, RightReply, Sent, TypedIsSent
  <1>5. QED
    BY <1>1, <1>2, <1>3, <1>4, TypeCorrect, StepKeepsOnce, StepKeepsSent, StepKeepsWritten, PTL
       DEF Spec

-----------------------------------------------------------------------------
(* The keyring *)

LEMMA SavedInStep ==
  ASSUME TypeOK, AnsweredOnce, [Next]_vars, NEW id \in 1..last', id > last, status'[id] = "End",
         Kind[request'[id].conn] # "vpn",
         request'[id].flag = "AgentOwned", ~request'[id].new,
         Saved(request'[id].conn) # NoSecret
  PROVE  replies'[id][1].secret = Saved(request'[id].conn)
  <1>1. last' # last
    BY CallBoundsAssumption DEF TypeOK
  <1>2. PICK c \in Conns, given \in MaybeSecret, interact \in BOOLEAN, new \in BOOLEAN,
             soon \in BOOLEAN : GetSecrets(c, given, interact, new, soon)
    <2>1. ~UNCHANGED last
      BY <1>1
    <2>2. QED
      BY <2>1 DEF Next, CancelGetSecrets, NmTimesOut, OnGetSecretsTimeout, AuthDialogFinished,
             AuthDialogReadOutput, VpnDialogReadAllOutput, SaveSecrets, WaitClientTimeOut,
             LockOrUnlock, SetClockBack, ReadBack, NewConnectionHandler, DisconnectedHandler,
             RequestSecrets, SecretsResult, SendSecretsResult, vars, agentVars
  <1> DEFINE r == [conn |-> c, flag |-> flag[c], given |-> given,
                   interact |-> interact, new |-> new]
  <1>3. /\ last' = last + 1 /\ request' = [request EXCEPT ![last + 1] = r]
        /\ r \in Request /\ last + 1 \in Ids
    BY <1>2, CallBoundsAssumption DEF GetSecrets, NextId, TypeOK, Ids, Request
  <1>4. id = last + 1 /\ id \in Ids /\ status[id] = "Unused"
    BY <1>3, CallBoundsAssumption DEF TypeOK, Ids
  <1>5. request'[id] = r
    BY <1>3, <1>4 DEF TypeOK
  <1>6. Kind[c] # "vpn" /\ flag[c] = "AgentOwned" /\ ~new /\ Saved(c) # NoSecret
    BY <1>5
  <1>7. Answer(id, TRUE, Known(r))
    <2>1. status \in [Ids -> Statuses]
      BY DEF TypeOK
    <2>2. status' # [status EXCEPT ![id] = "WaitDialog"] /\ status' # [status EXCEPT ![id] = "WaitClient"]
      BY <1>4, <2>1
    <2>3. ~AskPasswords(id, Kind[c] = "wireless")
      BY <2>2 DEF AskPasswords, RunAuthDialog
    <2>4. QED
      BY <1>2, <1>4, <2>2, <2>3 DEF GetSecrets, NextId
  <1>8. Known(r) = Saved(c) /\ Known(r) \in MaybeSecret
    <2>1. Known(r) \in MaybeSecret
      BY <1>3, SecretTypes
    <2>2. QED
      BY <1>6, <2>1 DEF Known
  <1>9. replies'[id] = <<[ok |-> TRUE, secret |-> Known(r)]>>
    BY <1>4, <1>7, <1>8, AnswerIsFirst
  <1>10. QED
    BY <1>5, <1>8, <1>9

LEMMA KeptInStep ==
  ASSUME TypeOK, AnsweredOnce, WrittenInv, [Next]_vars, NEW id \in 1..last,
         status[id] = "WaitDialog", status'[id] = "End", replies'[id][1].ok,
         request[id].flag = "AgentOwned", Kind[request[id].conn] \in {"wireless", "wired"}
  PROVE  \/ keyring'[request[id].conn] = replies'[id][1].secret
         \/ id \in lost /\ Saved(request[id].conn) = NoSecret
  <1> DEFINE Goal == \/ keyring'[request[id].conn] = replies'[id][1].secret
                     \/ id \in lost /\ Saved(request[id].conn) = NoSecret
  <1>1. id \in Ids /\ Held(id) /\ status[id] # "End" /\ id # last + 1 /\ request[id].conn \in Conns
    <2>1. id \in Ids /\ status[id] # "End" /\ id # last + 1
      BY CallBoundsAssumption DEF TypeOK, Ids
    <2>2. Held(id)
      BY DEF Held
    <2>3. request[id] \in Request
      BY <2>1, <2>2, HeldIsMade
    <2>4. QED
      BY <2>1, <2>2, <2>3 DEF Request
  <1>2. status \in [Ids -> Statuses]
    BY DEF TypeOK
  <1>3. \A h \in Ids, ok \in BOOLEAN, secret \in MaybeSecret :
          Answer(h, ok, secret) => h = id
    <2>1. ASSUME NEW h \in Ids, status' = [status EXCEPT ![h] = "End"]
          PROVE  h = id
      BY <1>1, <1>2, <2>1
    <2>2. QED
      BY <2>1 DEF Answer
  <1>4. \A secret \in MaybeSecret : ~Answer(id, FALSE, secret)
    <2>1. ASSUME NEW secret \in MaybeSecret, Answer(id, FALSE, secret)
          PROVE  FALSE
      <3>1. replies'[id] = <<[ok |-> FALSE, secret |-> secret]>>
        BY <1>1, <2>1, AnswerIsFirst
      <3>2. QED
        BY <3>1
    <2>2. QED
      BY <2>1
  <1>5. ASSUME NEW h \in Ids, NEW secret \in MaybeSecret, DoSecretsResult(h, secret)
        PROVE  FALSE
    <2>1. ~UNCHANGED status /\ NoSecret \in MaybeSecret /\ Kept(id)
      BY <1>1 DEF MaybeSecret, Kept, KindOf
    <2>2. CASE Held(h) /\ secret = NoSecret
      BY <1>3, <1>4, <1>5, <2>1, <2>2 DEF DoSecretsResult
    <2>3. CASE Held(h) /\ secret # NoSecret /\ ~Kept(h)
      <3>1. Answer(h, TRUE, Result(request[h], secret)) /\ Result(request[h], secret) \in MaybeSecret
        BY <1>5, <2>3, HeldIsMade, SecretTypes DEF DoSecretsResult
      <3>2. QED
        BY <1>3, <2>1, <2>3, <3>1
    <2>4. QED
      BY <1>5, <2>1, <2>2, <2>3 DEF DoSecretsResult, WriteTyped
  <1>6. 1..last \subseteq Ids /\ NoSecret \in MaybeSecret
    BY CallBoundsAssumption DEF TypeOK, Ids, MaybeSecret
  <1>7. ASSUME NEW w \in 1..last, AuthDialogFinished(w)
        PROVE  FALSE
    BY <1>5, <1>6, <1>7 DEF AuthDialogFinished
  <1>8. ASSUME NEW w \in 1..last, NEW secret \in Secrets, AuthDialogReadOutput(w, secret)
        PROVE  FALSE
    BY <1>5, <1>6, <1>8 DEF AuthDialogReadOutput, MaybeSecret
  <1>9. ASSUME NEW c \in Clients, SecretsResult(c)
        PROVE  FALSE
    <2>1. Head(up[c]) \in [id: Ids, secret: MaybeSecret]
      BY <1>9, TakeHead DEF SecretsResult, TypeOK
    <2>2. QED
      BY <1>5, <1>9, <2>1 DEF SecretsResult
  <1>10. ASSUME NEW w \in 1..last, CancelGetSecrets(w)
         PROVE  FALSE
    <2> DEFINE same == {h \in Calls : request[h].conn = request[w].conn}
    <2>1. same # {}
      BY <1>1, <1>10 DEF CancelGetSecrets
    <2>2. First(same) \in Ids /\ Answer(First(same), FALSE, NoSecret)
      BY <1>10, <2>1, CallsAreIds, FirstIsSmallest DEF CancelGetSecrets
    <2>3. QED
      BY <1>3, <1>4, <1>6, <2>2
  <1>11. ASSUME NEW w \in 1..last, NEW secret \in MaybeSecret, NEW isEnd \in BOOLEAN,
                VpnDialogReadAllOutput(w, secret, isEnd)
         PROVE  FALSE
    <2>1. Held(w) /\ Answer(w, TRUE, secret) /\ KindOf(w) = "openconnect"
      BY <1>1, <1>11 DEF VpnDialogReadAllOutput
    <2>2. QED
      BY <1>3, <1>6, <2>1 DEF KindOf
  <1>12. ASSUME NEW w \in 1..last, OnGetSecretsTimeout(w)
         PROVE  FALSE
    BY <1>1, <1>2, <1>12 DEF OnGetSecretsTimeout
  <1>13. ASSUME NEW panels, ServeFirstWaiting(panels)
         PROVE  FALSE
    BY <1>1, <1>13, ServeTypeOK
  <1>14. ASSUME NEW c \in Conns, NEW given \in MaybeSecret, NEW interact \in BOOLEAN,
                NEW new \in BOOLEAN, NEW soon \in BOOLEAN, GetSecrets(c, given, interact, new, soon)
         PROVE  FALSE
    <2>1. Makes(last + 1)
      BY <1>14, GetSecretsMakes
    <2>2. QED
      BY <1>1, <2>1 DEF Makes
  <1>15. UNCHANGED status => FALSE
    BY <1>1
  <1>16. CASE ReadBack
    <2>1. PICK w \in written, secret \in MaybeSecret :
            /\ w.id \in Ids /\ Held(w.id) /\ Answer(w.id, TRUE, secret)
            /\ \/ secret = w.secret /\ Saved(request[w.id].conn) = NoSecret
               \/ secret = Saved(request[w.id].conn) /\ secret # NoSecret
      BY <1>16, ReadBackAnswers
    <2>2. w.id = id
      BY <1>3, <2>1
    <2>3. replies'[id] = <<[ok |-> TRUE, secret |-> secret]>> /\ UNCHANGED keyring
      BY <1>1, <1>16, <2>1, <2>2, AnswerIsFirst DEF ReadBack, keyringVars
    <2>4. id \in lost \/ keyring[request[id].conn] = w.secret
      BY <2>2 DEF WrittenInv
    <2>5. CASE secret = w.secret /\ Saved(request[id].conn) = NoSecret
      BY <2>3, <2>4, <2>5
    <2>6. CASE secret = Saved(request[id].conn) /\ secret # NoSecret
      BY <2>3, <2>6 DEF Saved
    <2>7. QED
      BY <2>1, <2>2, <2>5, <2>6
  <1>17. CASE Next
    BY <1>7, <1>8, <1>9, <1>10, <1>11, <1>12, <1>13, <1>14, <1>15, <1>16, <1>17
    DEF Next, NmTimesOut, SaveSecrets, WaitClientTimeOut, LockOrUnlock, SetClockBack,
        NewConnectionHandler, DisconnectedHandler, RequestSecrets, SendSecretsResult, agentVars
  <1>18. QED
    BY <1>15, <1>17 DEF vars, agentVars

\* An agent-owned secret that was saved comes back at once where no new one is asked for,
\* whatever the profile is, but a VPN.
THEOREM SavedComesBack == Spec => SavedIsReturned
  <1>1. Init => AnsweredOnce
    BY DEF Init, AnsweredOnce
  <1>2. TypeOK /\ AnsweredOnce /\ [Next]_vars
        => [\A id \in 1..last' :
              (/\ id > last /\ status'[id] = "End" /\ Kind[request'[id].conn] # "vpn"
               /\ request'[id].flag = "AgentOwned" /\ ~request'[id].new
               /\ Saved(request'[id].conn) # NoSecret)
              => replies'[id][1].secret = Saved(request'[id].conn)]_vars
    BY SavedInStep
  <1>3. QED
    BY <1>1, <1>2, TypeCorrect, StepKeepsOnce, PTL DEF Spec, SavedIsReturned

\* What NetworkManager is told of an agent-owned wireless or wired profile is what the
\* keyring holds, locked or not: of several answers in a row the one that is sent is the
\* one that is kept.  Only where the keyring refused it is one sent that it does not show.
THEOREM TypedStays == Spec => TypedIsKept
  <1>1. Init => AnsweredOnce
    BY DEF Init, AnsweredOnce
  <1>2. Init => MessagesTyped /\ ShownAreMade /\ PluginTypesOnce /\ RepliesRight /\ WrittenInv
    BY DEF Init, MessagesTyped, ShownAreMade, PluginTypesOnce, RepliesRight, WrittenInv
  <1>3. TypeOK /\ AnsweredOnce /\ WrittenInv /\ [Next]_vars
        => [\A id \in 1..last :
              (/\ status[id] = "WaitDialog" /\ status'[id] = "End" /\ replies'[id][1].ok
               /\ request[id].flag = "AgentOwned" /\ Kind[request[id].conn] \in {"wireless", "wired"})
              => LET conn == request[id].conn IN
                 \/ keyring'[conn] = replies'[id][1].secret
                 \/ id \in lost /\ Saved(conn) = NoSecret]_vars
    BY KeptInStep
  <1>4. QED
    BY <1>1, <1>2, <1>3, TypeCorrect, StepKeepsOnce, StepKeepsSent, StepKeepsWritten, PTL
       DEF Spec, SentInv, TypedIsKept
=============================================================================
