----------------------------- MODULE MCShutdown -----------------------------
(* Shutdown on a small instance.                                           *)
EXTENDS Shutdown
=============================================================================
