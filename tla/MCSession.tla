----------------------------- MODULE MCSession -----------------------------
(* An instance of Session for TLC: two servers over SSH. *)
EXTENDS Session
CONSTANTS s1, s2
MCOrder == <<s1, s2>>
=============================================================================
