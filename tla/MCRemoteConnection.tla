------------------------- MODULE MCRemoteConnection -------------------------
(* RemoteConnection with the constants of RemoteConnection.cfg for TLC. *)
EXTENDS RemoteConnection
=============================================================================
