----------------------------- MODULE MCNotifier -----------------------------
(* Notifier for TLC; the cfg file gives the bounds.                         *)
EXTENDS Notifier
=============================================================================
