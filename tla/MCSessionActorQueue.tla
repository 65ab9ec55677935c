------------------------ MODULE MCSessionActorQueue ------------------------
(***************************************************************************)
(* Two sessions and five calls: three under the first key, so that a call  *)
(* can wait behind a waiting one, and two under the second.                *)
(***************************************************************************)
EXTENDS SessionActorQueue, TLC

CONSTANTS k1, k2, a1, a2, a3, b1, b2

MCKey   == {k1, k2}
MCOp    == {a1, a2, a3, b1, b2}
MCKeyOf == a1 :> k1 @@ a2 :> k1 @@ a3 :> k1 @@ b1 :> k2 @@ b2 :> k2
=============================================================================
