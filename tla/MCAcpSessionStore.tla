------------------------- MODULE MCAcpSessionStore -------------------------
(***************************************************************************)
(* Four calls on two sessions: enough for a change, another that undoes or *)
(* overtakes it, a change of the other session, and a reader.              *)
(***************************************************************************)
EXTENDS AcpSessionStore, TLC

CONSTANTS s1, s2, c1, c2, c3, c4

MCSession   == {s1, s2}
MCCall      == {c1, c2, c3, c4}
MCSessionOf == c1 :> s1 @@ c2 :> s1 @@ c3 :> s2 @@ c4 :> s2
=============================================================================
