---------------------------- MODULE MCSessionUse ----------------------------
(***************************************************************************)
(* SessionUse on a small instance without admins: two clients, one thread  *)
(* and two chat requests.                                                  *)
(***************************************************************************)
EXTENDS SessionUse, TLC

CONSTANTS c1, c2, t1, r1, r2

ClientVal == {c1, c2}
WriterVal == {c1}
AdminVal == {}
ThreadVal == {t1}
RunVal == {r1, r2}

=============================================================================
