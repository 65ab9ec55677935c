-------------------------- MODULE MCHeartbeatWake --------------------------
(***************************************************************************)
(* Two requests, two calls of the handler that could overlap, a            *)
(* configuration with a target and one without, two texts.                 *)
(***************************************************************************)
EXTENDS HeartbeatWake

CONSTANTS q1, q2, h1, h2, c1, c2, t1, t2

MCRequest  == {q1, q2}
MCHandler  == {h1, h2}
MCConfig   == {c1, c2}
MCTargeted == {c1}
MCText     == {t1, t2}
=============================================================================
