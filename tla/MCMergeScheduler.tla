-------------------------- MODULE MCMergeScheduler --------------------------
(* An instance of MergeScheduler for TLC.                                  *)
EXTENDS MergeScheduler

CONSTANTS p1, p2

ProducerSet == {p1, p2}

(* One merge at a time, the second larger and the third too small to be    *)
(* paused; and two at a time of which one runs, the first the largest.     *)
LoadSet == {[threads |-> 1, merges |-> 1, size |-> <<2, 3, 1>>],
            [threads |-> 1, merges |-> 2, size |-> <<3, 2, 2>>]}
=============================================================================
