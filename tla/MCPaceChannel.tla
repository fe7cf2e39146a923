---------------------------- MODULE MCPaceChannel ----------------------------
(* TLC instance of PaceChannel: the configurations give every constant its   *)
(* value themselves.                                                         *)
EXTENDS PaceChannel
=============================================================================
