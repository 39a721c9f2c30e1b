---------------------------- MODULE MCKnowledge ----------------------------
(* A small instance of Knowledge: the event loop and one worker thread.    *)
EXTENDS Knowledge, TLC

CONSTANTS t1, s1, s2, d1, d2, q1

ToolVal == {t1}
SourceVal == {s1, s2}
DocVal == {d1, d2}
QueryVal == {q1}

\* Ids are uuids and sources are only compared: both may be permuted.
Symmetry == Permutations(SourceVal) \cup Permutations(DocVal)
=============================================================================
