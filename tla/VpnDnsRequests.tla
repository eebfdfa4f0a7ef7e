----------------------------- MODULE VpnDnsRequests -----------------------------
(***************************************************************************)
(* What the DNS mode worker promises its handler, whatever happens to       *)
(* profiles and connections meanwhile.  Requests are numbered in the order  *)
(* they are made.  Each is carried out at most once and alone, in that      *)
(* order, unless it is dropped before it starts; one that has started ends   *)
(* either with exactly one answer or, once it is called off, with none.     *)
(***************************************************************************)
EXTENDS Naturals

VARIABLES
  made,       \* how many requests have been made
  waiting,    \* requests that have not started
  running,    \* the request in progress, if any
  calledOff,  \* the request in progress has been called off
  answered    \* requests whose answer has not been read yet

vars == <<made, waiting, running, calledOff, answered>>

Oldest(n, S) == n \in S /\ \A m \in S : n <= m

Init ==
  /\ made = 0 /\ waiting = {} /\ running = {} /\ calledOff = FALSE /\ answered = {}

Make ==
  /\ made' = made + 1 /\ waiting' = waiting \cup {made + 1}
  /\ UNCHANGED <<running, calledOff, answered>>

\* Requests are replaced by newer ones or lose their profile or connection;
\* a removal may call off the one in progress at the same time.
Drop ==
  /\ waiting' \subseteq waiting
  /\ calledOff' \in {calledOff, running # {}}
  /\ UNCHANGED <<made, running, answered>>

Start ==
  /\ running = {}
  /\ \E n \in waiting : Oldest(n, waiting) /\ running' = {n} /\ waiting' = waiting \ {n}
  /\ calledOff' = FALSE /\ UNCHANGED <<made, answered>>

\* The service is not there: the request fails before it starts.
Refuse ==
  /\ running = {}
  /\ \E n \in waiting :
       Oldest(n, waiting) /\ waiting' = waiting \ {n} /\ answered' \in {answered, answered \cup {n}}
  /\ UNCHANGED <<made, running, calledOff>>

\* Nobody may be listening any more.
End ==
  /\ running # {} /\ running' = {} /\ calledOff' = FALSE
  /\ answered' \in {answered} \cup (IF calledOff THEN {} ELSE {answered \cup running})
  /\ UNCHANGED <<made, waiting>>

Read ==
  /\ \E n \in answered : Oldest(n, answered) /\ answered' = answered \ {n}
  /\ UNCHANGED <<made, waiting, running, calledOff>>

\* The handler goes away, and then the worker stops.
Disconnect == answered' = {} /\ UNCHANGED <<made, waiting, running, calledOff>>
Stop ==
  /\ waiting' = {} /\ running' = {} /\ calledOff' = FALSE
  /\ UNCHANGED <<made, answered>>

Next == Make \/ Drop \/ Start \/ Refuse \/ End \/ Read \/ Disconnect \/ Stop

Spec == Init /\ [][Next]_vars
=============================================================================
