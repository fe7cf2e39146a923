--------------------------- MODULE MCAppController ---------------------------
(* TLC instance of AppController: the configuration gives every constant its *)
(* value itself.                                                             *)
EXTENDS AppController
=============================================================================
