------------------------ MODULE MCChannelLifecycle -------------------------
(***************************************************************************)
(* A channel with a heartbeat and one without, two restarts, and up to     *)
(* three calls of the manager's methods.                                   *)
(***************************************************************************)
EXTENDS ChannelLifecycle

CONSTANTS monitored, plain

MCChannel == {monitored, plain}
MCMonitored == {monitored}
=============================================================================
