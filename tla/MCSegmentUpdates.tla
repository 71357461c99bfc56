-------------------------- MODULE MCSegmentUpdates --------------------------
(* SegmentUpdates on small instances for TLC.                              *)
EXTENDS SegmentUpdates

CONSTANT w1

DwptSet == {w1}
=============================================================================
