-------------------------- MODULE MCThreatPipeline --------------------------
(* Small instances of ThreatPipeline for TLC. *)
EXTENDS ThreatPipeline, TLC

CONSTANTS a, b, i, w1, p1, p2, node

(* A web hit and a hit on a trap from one address, and a hit on the same    *)
(* trap from an internal address that a session of the first has reached.   *)
TwoAttackers == (w1 :> a) @@ (p1 :> b) @@ (p2 :> i)
SameTrap == (p1 :> node) @@ (p2 :> node)
OnlyFirst == [ip \in Ip |-> IF ip = a THEN Check ELSE {}]
OneOrigin == (p1 :> {a}) @@ (p2 :> {a})
=============================================================================
