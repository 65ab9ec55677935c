---------------------------- MODULE MCAgentTurn ----------------------------
(***************************************************************************)
(* Two runs, one after the other ended: what is left of the first may      *)
(* still be under way when the second is accepted.  Two models, one retry, *)
(* one fault, which is a crash or a save that fails; a session that holds  *)
(* a turn, and is empty once a save of it is torn.                         *)
(***************************************************************************)
EXTENDS AgentTurn

MCHistories == {<<Msg(Nobody, "user"), Msg(Nobody, "answer")>>}
=============================================================================
