----------------------------- MODULE MCSecretAgent -----------------------------
(* Instances of SecretAgent for TLC. *)
EXTENDS SecretAgent, TLC

CONSTANTS c1, c2, p1, s1, s2, none

\* Requests go to panels and dialogs, or to the dialog of a VPN plugin.
PanelOrPlugin == c1 :> "wireless" @@ c2 :> "openconnect"

Symmetry == Permutations({s1, s2})

\* One network is used and the other left alone.  With that of the plugin's
\* dialog, NetworkManager has no password yet, there is no panel and nothing is
\* edited; with the other, the clock is not set, and the keyring is unlocked and every
\* secret written once a panel has gone or the profile was saved.
OneNetwork ==
    /\ keyring[c2] = NoSecret /\ flag[c2] = "None"
    /\ \/ /\ \A id \in 1 .. last : request[id].conn = c1
          /\ ahead = {} /\ (inputs = 0 \/ (~locked /\ lost = {}))
       \/ /\ \A id \in 1 .. last : request[id].conn = c2 /\ request[id].given = NoSecret
          /\ keyring[c1] = NoSecret /\ flag[c1] = "None"
          /\ clients = {} /\ inputs = 0 /\ ~locked
=============================================================================
