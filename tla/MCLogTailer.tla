---------------------------- MODULE MCLogTailer -----------------------------
(* LogTailer for TLC; the cfg files give the bounds.                        *)
EXTENDS LogTailer
=============================================================================
