------------------------------- MODULE MCUpdates -------------------------------
(* TLC instance of Updates. *)
EXTENDS Updates

\* One icon, named by the providers.
IconOfProviders == [i \in {"icon"} |-> "providers"]

\* The providers, and with them the icon, change once.
ProvidersChange == [c \in {"providers", "readers"} |-> IF c = "providers" THEN 2 ELSE 1]
=============================================================================
