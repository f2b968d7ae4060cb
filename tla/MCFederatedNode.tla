--------------------------- MODULE MCFederatedNode ----------------------------
(***************************************************************************)
(* A federation for TLC: three nodes, all of them peers.                   *)
(***************************************************************************)
EXTENDS FederatedNode

CONSTANTS a, b, c

OwnerA == [x \in Capabilities |-> a]
AllPeers == [n \in Nodes |-> Nodes \ {n}]
===============================================================================
