--------------------------- MODULE MCFlushControl ---------------------------
(* FlushControl on small instances for TLC.                                *)
EXTENDS FlushControl, TLC

CONSTANTS t1, t2, d1, d2, d3

ThreadSet == {t1, t2}
DwptSet == {d1, d2, d3}
DwptSet2 == {d1, d2}
Symm == Permutations(ThreadSet) \cup Permutations(DwptSet)
=============================================================================
