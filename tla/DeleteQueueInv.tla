--------------------------- MODULE DeleteQueueInv ---------------------------
(***************************************************************************)
(* The inductive invariant of DeleteQueue.                                 *)
(*                                                                         *)
(* UpdateConsistency is not inductive: a delete that a DWPT has not        *)
(* applied yet will be applied to all documents the DWPT holds at that     *)
(* time.  SliceInv adds what makes that right, namely that such a delete   *)
(* is newer than each of these documents (every finished document moves    *)
(* the slice to the tail), and QueueInv relates the sequence numbers       *)
(* handed out so far to next_seq_no.                                       *)
(***************************************************************************)
EXTENDS DeleteQueue

(* The sequence numbers of queue g. *)
NodesInv(g) ==
  \A i \in Idx : i <= tail[g] => /\ startSeq[g] <= nodeSeq[g][i]
                                 /\ nodeSeq[g][i] < nextSeq[g]
                                 /\ nodeSeq[g][i] <= maxSeq[g]

WindowInv(g) ==
  /\ advanced[g] <=> g < gen
  /\ closed[g] => advanced[g]
  /\ ~advanced[g] => maxSeq[g] = MaxLong
  /\ advanced[g] => maxSeq[g] < MaxLong
  /\ g <= gen => startSeq[g] <= nextSeq[g]
  /\ nextSeq[g] <= maxSeq[g] + 1
  /\ ~closed[g] => nextSeq[g] <= maxSeq[g]
  /\ advanced[g] /\ ~closed[g] => nextSeq[g] + budget[g] <= maxSeq[g]
  /\ g < gen => maxSeq[g] < startSeq[g + 1]
  /\ g > gen => tail[g] = 0

QueueInv == \A g \in Gen : WindowInv(g) /\ NodesInv(g)

(* The documents and the slice of a DWPT that exists, in its queue g. *)
SliceInvFor(s, g) ==
  /\ g <= gen
  /\ sHead[s] <= tail[g]
  /\ \A j \in Idx : Indexed(s, j) => /\ startSeq[g] <= docSeq[s][j]
                                     /\ docSeq[s][j] < nextSeq[g]
                                     /\ docSeq[s][j] <= maxSeq[g]
  /\ \A i \in Idx : limit[s][i] <= nDocs[s]
  /\ \A i \in Idx : i > sHead[s] => limit[s][i] = 0
  /\ \A i, j \in Idx : i <= sHead[s] /\ Indexed(s, j)
        => (j <= limit[s][i] <=> docSeq[s][j] < nodeSeq[g][i])
  /\ \A i, j \in Idx : sHead[s] < i /\ i <= tail[g] /\ Indexed(s, j)
        => docSeq[s][j] < nodeSeq[g][i]

FreshSlice(s) == s \notin done /\ nDocs[s] = 0 /\ \A i \in Idx : limit[s][i] = 0

OneSlice(s) ==
  /\ sGen[s] # NoGen => SliceInvFor(s, sGen[s])
  /\ sGen[s] = NoGen => FreshSlice(s)

SliceInv == \A s \in Slices : OneSlice(s)

(* The global slice of queue g: its nodes are buffered, frozen or dropped. *)
PacketsInv(g) ==
  /\ gHead[g] <= tail[g]
  /\ closed[g] => gBuf[g] = {} /\ gHead[g] = tail[g]
  /\ \A i \in Idx : i \in gBuf[g] \/ i \in frozen[g] \/ i \in dropped[g] <=> i <= gHead[g]
  /\ \A i \in Idx : /\ ~(i \in gBuf[g] /\ i \in frozen[g])
                    /\ ~(i \in dropped[g] /\ i \in gBuf[g])
                    /\ ~(i \in dropped[g] /\ i \in frozen[g])

(* Where the flush of DWPT s has cut the global slice. *)
CutInv(s) ==
  s \in done => /\ sGen[s] # NoGen
                /\ sHead[s] <= gHead[sGen[s]]
                /\ \A i \in gBuf[sGen[s]] : sHead[s] < i

GlobalInv == (\A g \in Gen : PacketsInv(g)) /\ (\A s \in Slices : CutInv(s))

IndInv == TypeOK /\ QueueInv /\ SliceInv /\ GlobalInv

=============================================================================
