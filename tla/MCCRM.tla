------------------------------- MODULE MCCRM --------------------------------
(* CRM on a small instance: the event loop and one worker thread.          *)
EXTENDS CRM, TLC

CONSTANTS t1, r1, r2, r3, active, lost

ToolVal == {t1}
RecordVal == {r1, r2, r3}
StatusVal == {active, lost}
AddedAsVal == {lost}
RequestedVal == {Archived}

\* Records are only told apart.
Symmetry == Permutations(RecordVal)
=============================================================================
