------------------------------- MODULE MCServer -------------------------------
(* Instances of Server for TLC; the configurations give every constant its    *)
(* value.                                                                     *)
EXTENDS Server
==============================================================================
