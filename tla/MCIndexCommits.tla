--------------------------- MODULE MCIndexCommits ---------------------------
(* Small instances of IndexCommits for TLC. *)
EXTENDS IndexCommits

\* Two states that differ only in the following have the same future: change
\* counts are only compared for equality, and what is recorded of names that no
\* listing holds is overwritten before it is read.
Known == UNION recent
Live(g) == \/ Segments(g) \in Known
           \/ g = ci.gen /\ ci.phase \notin {"idle", "await", "start", "failed"}
SameCounts ==
  <<iw.changeCount = iw.lastCommitCC,
    ci.phase # "idle" /\ ci.cc = iw.lastCommitCC,
    ci.phase # "idle" /\ ci.cc = iw.changeCount>>
View ==
  <<names, recent, synced \intersect Known,
    [g \in Gens |-> IF Live(g) THEN content[g].segs ELSE {}],
    [g \in Gens |-> IF Live(g) THEN content[g].counter ELSE 0],
    [iw EXCEPT !.changeCount = 0, !.lastCommitCC = 0], [ci EXCEPT !.cc = 0], SameCounts,
    flushing, merging, deleter, deleting, policy, nrt,
    [dr EXCEPT !.gen = IF dr.pc \in {"read", "open"} THEN @ ELSE 0], history>>
=============================================================================
