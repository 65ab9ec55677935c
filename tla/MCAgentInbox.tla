---------------------------- MODULE MCAgentInbox ---------------------------
(***************************************************************************)
(* Two messages, the second of them the answer to the one request; two     *)
(* loops and one crash.                                                    *)
(***************************************************************************)
EXTENDS AgentInbox, TLC

CONSTANTS r1, l1, l2

MCMessage == 1 .. 2
MCRequest == {r1}
MCReplyTo == 1 :> NoRequest @@ 2 :> r1
MCLoop    == {l1, l2}
=============================================================================
