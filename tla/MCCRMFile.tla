----------------------------- MODULE MCCRMFile ------------------------------
(* CRMFile on a small instance: the event loop and two worker threads.     *)
EXTENDS CRMFile, TLC

CONSTANTS a1, a2, a3, e1, e2

SaverVal == {a1, a2, a3}
EntryVal == {e1, e2}

\* Actors and entries are only told apart.
Symmetry == Permutations(SaverVal) \cup Permutations(EntryVal)
=============================================================================
