----------------------------- MODULE MCDelivery -----------------------------
(* Delivery on small instances.                                            *)
EXTENDS Delivery

CONSTANTS c1, c2, group, box

CallVal == {c1, c2}
ToVal == {group, box}
=============================================================================
