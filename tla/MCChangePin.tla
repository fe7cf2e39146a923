----------------------------- MODULE MCChangePin -----------------------------
(* TLC instance of ChangePin: the configurations give every constant its     *)
(* value themselves.                                                         *)
EXTENDS ChangePin
=============================================================================
