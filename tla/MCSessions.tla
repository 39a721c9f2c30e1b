----------------------------- MODULE MCSessions -----------------------------
(***************************************************************************)
(* Sessions on a small instance: two clients (one may delete), an admin,   *)
(* one thread they all name, two chat requests.                            *)
(***************************************************************************)
EXTENDS Sessions, TLC

CONSTANTS c1, c2, a1, t1, r1, r2

ClientVal == {c1, c2}
WriterVal == {c1}
AdminVal == {a1}
ThreadVal == {t1}
RunVal == {r1, r2}

=============================================================================
