-------------------------------- MODULE Link --------------------------------
(***************************************************************************)
(* What the connection component promises the rest of the web client: one  *)
(* link that is idle, being dialled or up, and a set of driver panels that *)
(* may be shown as connected only while the link is up.                    *)
(***************************************************************************)
CONSTANT Nodes      \* identifiers of the LedX drivers

VARIABLES phase,    \* what the client believes about the link
          live      \* the drivers shown as connected

vars == <<phase, live>>

Init == phase = "DISCONNECTED" /\ live = {}

Dial == phase = "DISCONNECTED" /\ phase' = "CONNECTING" /\ UNCHANGED live

Establish == phase = "CONNECTING" /\ phase' = "CONNECTED" /\ UNCHANGED live

Identify(n) == phase = "CONNECTED" /\ live' = live \cup {n} /\ UNCHANGED phase

Drop == phase # "DISCONNECTED" /\ phase' = "DISCONNECTED" /\ live' = {}

Next == Dial \/ Establish \/ Drop \/ \E n \in Nodes : Identify(n)

Spec == Init /\ [][Next]_vars
=============================================================================
