---------------------------- MODULE MCAlertStream ---------------------------
(* AlertStream for TLC; the cfg files give the bounds.                      *)
EXTENDS AlertStream
=============================================================================
