--------------------------- MODULE MCWriterLocks ---------------------------
(* WriterLocks with three threads.                                         *)
EXTENDS WriterLocks, TLC

CONSTANTS t1, t2, t3

Three == {t1, t2, t3}

Symm == Permutations(Three)
=============================================================================
