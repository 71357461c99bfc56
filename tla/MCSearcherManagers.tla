------------------------- MODULE MCSearcherManagers -------------------------
(* An instance of SearcherManagers for TLC.                                *)
EXTENDS SearcherManagers, TLC

CONSTANTS t1, t2, t3

ThreadSet == {t1, t2, t3}
Symm == Permutations(ThreadSet)
=============================================================================
