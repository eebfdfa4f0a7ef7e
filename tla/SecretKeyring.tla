------------------------------ MODULE SecretKeyring ------------------------------
(***************************************************************************)
(* The keyring as the session's secret agent uses it                       *)
(* (session/secretservice.cpp).  Every call blocks until the secret service *)
(* answers, so an operation is one step.  A connection has one secret: the  *)
(* code keeps one item per connection, setting and key.  The session with   *)
(* the secret service and the default collection are open.                 *)
(*                                                                         *)
(* A locked collection stays locked: getDefaultCollection unlocks it only   *)
(* where getDefaultCollectionAux makes no interface object, and it always   *)
(* makes one.                                                              *)
(***************************************************************************)
CONSTANTS
  Conns,         \* connections, by UUID
  Secrets,       \* passwords
  NoSecret       \* no password

ASSUME NoSecretAssumption == NoSecret \notin Secrets

VARIABLES
  keyring,       \* the item of each connection in the default collection
  locked         \* the default collection is locked, or the service does not answer

keyringVars == <<keyring, locked>>

MaybeSecret == Secrets \cup {NoSecret}

\* getAll: what can be read of a connection.
Saved(c) == IF locked THEN NoSecret ELSE keyring[c]

\* CreateItem without its argument "replace".
SetData_NoReplace(c, secret, ok) ==
  /\ ok => ~locked
  /\ keyring' = IF ok /\ (secret = NoSecret \/ keyring[c] = NoSecret)
                THEN [keyring EXCEPT ![c] = secret] ELSE keyring
  /\ UNCHANGED locked

\* setData replaces the item, or, with NoSecret, deleteAll and deleteData remove it.
\* They fail on a locked collection, and wherever the service answers with an error.
SetData(c, secret, ok) ==
  /\ ok => ~locked
  /\ keyring' = IF ok THEN [keyring EXCEPT ![c] = secret] ELSE keyring
  /\ UNCHANGED locked

\* The user or the session manager locks and unlocks the keyring.
ToggleLock == locked' = ~locked /\ UNCHANGED keyring
=============================================================================
