--------------------------- MODULE MCGatewayLock ---------------------------
(***************************************************************************)
(* Two gateways contend for one port, or one finds what the other left,    *)
(* and a command probes the lock at any time, at their port or at another. *)
(***************************************************************************)
EXTENDS GatewayLock, TLC

CONSTANTS g1, g2, q1

MCGateway == {g1, g2}
MCCommand == {q1}
MCPort    == {1, 2}

MCPortOf    == g1 :> 1 @@ g2 :> 1 @@ q1 :> 1
MCOtherPort == g1 :> 1 @@ g2 :> 1 @@ q1 :> 2
MCHostOf    == g1 :> "any" @@ g2 :> "loopback"
=============================================================================
