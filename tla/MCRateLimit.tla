---------------------------- MODULE MCRateLimit -----------------------------
(***************************************************************************)
(* RateLimit on a small instance: one client, whose reads and writes are   *)
(* two keys that one sweep goes over, and one address.  The clock runs for *)
(* two sweeps, and a Retry-After can be 1 or 2.                            *)
(***************************************************************************)
EXTENDS RateLimit

CONSTANTS c1, a1

ClientVal == {c1}
AddressVal == {a1}

=============================================================================
