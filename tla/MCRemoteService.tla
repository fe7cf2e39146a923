--------------------------- MODULE MCRemoteService ---------------------------
(* TLC instance of RemoteService: the configurations give every constant its *)
(* value themselves.                                                         *)
EXTENDS RemoteService
=============================================================================
