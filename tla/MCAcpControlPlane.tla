------------------------- MODULE MCAcpControlPlane -------------------------
(***************************************************************************)
(* Three calls on two sessions, the first of them used before in this      *)
(* process: its handle is cached and its transcript is not empty.  Its     *)
(* stored state is the "running" that an earlier process left.             *)
(***************************************************************************)
EXTENDS AcpControlPlane, TLC

CONSTANTS s1, s2, c1, c2, c3

MCSession == {s1, s2}
MCCall    == {c1, c2, c3}
MCWarm    == {s1}
MCTalked  == {s1}
MCKept    == s1 :> "running" @@ s2 :> "idle"
MCKeptIdle == s1 :> "idle" @@ s2 :> "idle"

\* Two calls on the warm session, one of them a turn and the other anything,
\* and a call on the other session, which evicts from outside.
MCSessionOf == c1 :> s1 @@ c2 :> s1 @@ c3 :> s2
MCKindsOf   == c1 :> {"turn"} @@ c2 :> Kind @@ c3 :> {"status"}

\* Two turns on the warm session, and the evicting call.
MCTurnsOf == c1 :> {"turn"} @@ c2 :> {"turn"} @@ c3 :> {"status"}
=============================================================================
