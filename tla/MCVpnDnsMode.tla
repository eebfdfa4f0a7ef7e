------------------------------ MODULE MCVpnDnsMode ------------------------------
(* Model values for the runs of VpnDnsMode. *)
EXTENDS VpnDnsMode

CONSTANTS p1, p2, a1, a2

\* One profile, activated once.
OneProfile == {p1}
OneActivation == {a1}
OwnerOneActivation == [a \in OneActivation |-> p1]

\* Two profiles, one connection each: they share the worker.
TwoProfiles == {p1, p2}
TwoActivations == {a1, a2}
OwnerTwoProfiles == [a \in TwoActivations |-> IF a = a1 THEN p1 ELSE p2]

ThreePriorities == {-1, 0, 1}
AllReplies == {"ok", "ServiceUnavailable", "DbusError"}
Dns(prio) == [neverDefault |-> TRUE, dns4 |-> prio, dns6 |-> prio]
Preferred == {Dns(-1)}
PreferredOrNot == {Dns(-1), Dns(0)}
=============================================================================
