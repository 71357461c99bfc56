---------------------------- MODULE MCFlushQueue ----------------------------
(* FlushQueue on small instances for TLC.                                  *)
EXTENDS FlushQueue, TLC

CONSTANTS t1, t2, t3

ThreadSet == {t1, t2, t3}
Symm == Permutations(ThreadSet)
=============================================================================
