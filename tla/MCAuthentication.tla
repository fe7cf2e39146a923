-------------------------- MODULE MCAuthentication --------------------------
(* TLC instance of Authentication: the configurations give every constant its *)
(* value themselves.                                                          *)
EXTENDS Authentication
=============================================================================
