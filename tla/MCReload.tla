------------------------------ MODULE MCReload ------------------------------
(* Reload for TLC; the cfg files give the bounds.                           *)
EXTENDS Reload
=============================================================================
