--------------------------- MODULE MCAgentRunRelay -------------------------
(***************************************************************************)
(* Three subscribers, a buffer of three events, and a stream of up to four *)
(* with the first, and one more when it fails.                             *)
(***************************************************************************)
EXTENDS AgentRunRelay

CONSTANTS s1, s2, s3

MCReader == {s1, s2, s3}
=============================================================================
