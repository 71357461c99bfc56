--------------------------- MODULE SegmentUpdates ---------------------------
(***************************************************************************)
(* Frozen packets of deletes and doc-values updates on their way into the  *)
(* segments, while merges replace those segments.                          *)
(*                                                                         *)
(* A flush publishes a segment together with the packets frozen for it;    *)
(* BufferedUpdatesStream gives packets and segments their delete           *)
(* generation.  Any thread may then resolve a packet against all segments  *)
(* of a smaller generation (IndexWriter::force_apply).  It does so without *)
(* keeping the IndexWriter lock, notices merges that committed meanwhile   *)
(* and starts over.  A merge in turn carries deletes and updates that      *)
(* arrived while it ran over to the merged segment.                        *)
(*                                                                         *)
(* Documents and operations are named by their sequence numbers: operation *)
(* o concerns every document d < o and no other (one key suffices, since   *)
(* only the order matters).  One action is one critical section of the     *)
(* IndexWriter lock or one step outside of it.                             *)
(***************************************************************************)
EXTENDS Naturals, Sequences, FiniteSets, FiniteSetsExt

CONSTANTS
  Dwpts,         \* in-memory segments
  Kinds,         \* the operations used, a subset of AllKinds
  CanAbort,      \* merges may be aborted
  MaxDocs,       \* bound: documents
  MaxDeletes,    \* bound: deletes
  MaxUpdates,    \* bound: doc-values updates
  MaxMerges,     \* bound: merges
  MaxMergeWidth, \* bound: segments in one merge
  MaxLoad        \* bound: deletes, updates and merges together

AllKinds == {"term", "query", "dv"}

ASSUME ConstantsAssumption ==
  /\ Kinds \subseteq AllKinds
  /\ CanAbort \in BOOLEAN
  /\ {MaxDocs, MaxDeletes, MaxUpdates, MaxMerges, MaxMergeWidth,
      MaxLoad} \subseteq Nat

VARIABLES
  hist,      \* what was done under each sequence number: "doc" or a kind
  ram,       \* [Dwpts -> SUBSET documents], not flushed yet
  buffer,    \* operations in the global buffer of the delete queue
  packets,   \* one entry per delete generation; no operations: a segment's own
  finished,  \* finished_del_gens
  completed, \* completed_del_gen
  segs,      \* all segments ever published, by number
  pool,      \* pool_readers: the reader pool keeps readers nobody uses
  merging,   \* merging_segments
  mergeGen,  \* merge_finished_gen
  merges     \* merges ever registered

vars == <<hist, ram, buffer, packets, finished, completed, segs, pool,
          merging, mergeGen, merges>>

Seqs == DOMAIN hist
OfKind(K) == {n \in Seqs : hist[n] \in K}
Deletes == {"term", "query"}
Gens == DOMAIN packets
Ids == DOMAIN segs

(***************************************************************************)
(* Segments.  A record holds the SegmentCommitInfo and what is on disk     *)
(* (docs, gen, live, val), the ReadersAndUpdates of the pool (rlive, pend, *)
(* isMerging, mdv) and where both are listed.  A value is the operation    *)
(* that wrote it, 0 the indexed one.                                       *)
(***************************************************************************)
Updates == [gen : Gens, doc : Seqs, op : Seqs]

NewSegment(docs, live, val, gen) ==
  [docs |-> docs, gen |-> gen, live |-> live, val |-> val, rlive |-> live,
   pend |-> {}, isMerging |-> FALSE, mdv |-> {}, listed |-> "infos",
   pooled |-> FALSE]

(* A segment nothing refers to any more.                                   *)
Gone == [NewSegment({}, {}, <<>>, 0) EXCEPT !.listed = "gone"]

Listed == {s \in Ids : segs[s].listed = "infos"}

(* References to the ReadersAndUpdates of s, the pool's not counted.       *)
Holders(s) ==
  Cardinality({g \in Gens : s \in packets[g].open})
    + Cardinality({m \in DOMAIN merges : s \in merges[m].held})
RefCount(s) == Holders(s) + IF segs[s].pooled THEN 1 ELSE 0

Forget(r) == IF r.listed = "dropped" THEN Gone ELSE r

(* The pool lets the ReadersAndUpdates go, with what was not written.      *)
Unpool(r, holders) ==
  LET u == [r EXCEPT !.pooled = FALSE, !.rlive = r.live, !.pend = {},
                     !.isMerging = FALSE, !.mdv = {}]
  IN IF holders = 0 THEN Forget(u) ELSE u

WriteLiveDocs(r) == [r EXCEPT !.live = r.rlive]

Newest(U) == CHOOSE u \in U : \A v \in U : v.gen <= u.gen

(* Pending updates up to generation max go to disk, the newest wins.       *)
WriteFieldUpdates(r, max) ==
  LET due == {u \in r.pend : u.gen <= max}
      of(d) == {u \in due : u.doc = d}
  IN [r EXCEPT !.val = [d \in r.docs |-> IF of(d) = {} THEN r.val[d]
                                                       ELSE Newest(of(d)).op],
               !.pend = @ \ due]

(* ReaderPool::release; holders are the references left besides the pool's. *)
Release(r, holders) ==
  LET w == WriteFieldUpdates(WriteLiveDocs(r), completed)
  IN CASE holders = 0 /\ ~r.pooled -> Forget(r)
       [] holders = 0 /\ r.pooled /\ ~pool ->
            IF w.pend = {} THEN Unpool(w, 0) ELSE w
       [] OTHER -> r

(* IndexWriter::drop_deleted_segment.                                      *)
DropDeletedSegment(s, r, holders) ==
  IF s \in merging THEN r
  ELSE LET d == [r EXCEPT !.listed = IF @ = "infos" THEN "dropped" ELSE @]
       IN IF d.pooled THEN Unpool(d, holders) ELSE d

(***************************************************************************)
(* BufferedUpdatesStream.                                                  *)
(***************************************************************************)
Packet(priv, ops, pc) ==
  [priv |-> priv, ops |-> ops, pc |-> pc, start |-> 0, seen |-> {}, open |-> {}]

Running(g) == packets[g].pc \notin {"done", "left"}

still_running(g) == g > completed /\ g \notin finished

(* The largest generation up to which all generations are in F.            *)
Frontier(F, from) ==
  CHOOSE n \in from..(from + Cardinality(F)) :
    (from + 1)..n \subseteq F /\ n + 1 \notin F

finished_segment(g) ==
  LET F == finished \cup {g}
  IN /\ completed' = Frontier(F, completed)
     /\ finished' = {k \in F : k > completed'}

Init ==
  /\ hist = <<>>
  /\ ram = [w \in Dwpts |-> {}]
  /\ buffer = {}
  /\ packets = <<>>
  /\ finished = {}
  /\ completed = 0
  /\ segs = <<>>
  /\ pool = FALSE
  /\ merging = {}
  /\ mergeGen = 0
  /\ merges = <<>>

stream == <<packets, finished, completed>>
mergeVars == <<merging, mergeGen, merges>>
indexing == <<hist, ram, buffer, pool>>

(***************************************************************************)
(* Indexing, as far as the packets are concerned.  The delete queue makes  *)
(* a delete known to every DWPT that has documents and to the global       *)
(* buffer; tickets are published in the order their packets were frozen,   *)
(* so that freezing and publishing can be one step here.                   *)
(***************************************************************************)
AddDocument(w) ==
  /\ Cardinality(OfKind({"doc"})) < MaxDocs
  /\ hist' = Append(hist, "doc")
  /\ ram' = [ram EXCEPT ![w] = @ \cup {Len(hist')}]
  /\ UNCHANGED <<buffer, stream, segs, pool, mergeVars>>

Load == Cardinality(OfKind(AllKinds)) + Len(merges)

BufferUpdate(k) ==
  /\ Load < MaxLoad
  /\ IF k \in Deletes THEN Cardinality(OfKind(Deletes)) < MaxDeletes
                       ELSE Cardinality(OfKind({"dv"})) < MaxUpdates
  /\ hist' = Append(hist, k)
  /\ buffer' = buffer \cup {Len(hist')}
  /\ UNCHANGED <<ram, stream, segs, pool, mergeVars>>

(* A DWPT's own updates; it resolves the terms among them when it flushes. *)
Own(w) == {o \in OfKind(AllKinds) : o > Min(ram[w])}
PrivateOps(w) == {o \in Own(w) : hist[o] # "term"}
LiveAtFlush(w) == {d \in ram[w] : \A o \in Own(w) : hist[o] = "term" => o < d}

GlobalPacket == IF buffer = {} THEN <<>> ELSE <<Packet(0, buffer, "load")>>

(* The global packet gets the smaller generation, the segment that of its  *)
(* private packet.                                                         *)
publish_flushed_segment(w) ==
  LET id == Len(segs) + 1
      live == LiveAtFlush(w)
      own == Packet(id, PrivateOps(w), IF PrivateOps(w) = {} THEN "done" ELSE "load")
      seg == NewSegment(ram[w], live, [d \in ram[w] |-> 0], Len(packets'))
  IN /\ ram[w] # {}
     /\ packets' = packets \o GlobalPacket \o <<own>>
     /\ IF own.pc = "done" THEN finished_segment(Len(packets'))
                           ELSE UNCHANGED <<finished, completed>>
     /\ segs' = Append(segs, IF live = {} THEN Gone ELSE seg)
     /\ buffer' = {}
     /\ ram' = [ram EXCEPT ![w] = {}]
     /\ UNCHANGED <<hist, pool, mergeVars>>

publish_frozen_updates ==
  /\ buffer # {}
  /\ packets' = packets \o GlobalPacket
  /\ buffer' = {}
  /\ UNCHANGED <<hist, ram, finished, completed, segs, pool, mergeVars>>
(***************************************************************************)
(* Resolving packet g: IndexWriter::force_apply.  The packet's apply_lock  *)
(* admits one thread, so the packet itself is the process.                 *)
(***************************************************************************)
Matching(g) ==
  {s \in Listed : /\ packets[g].priv \in {0, s}
                  /\ segs[s].gen <= g
                  /\ s \notin packets[g].seen}

load_merge_gen(g) ==
  /\ packets[g].pc = "load"
  /\ packets' = [packets EXCEPT ![g].pc = "open", ![g].start = mergeGen]
  /\ UNCHANGED <<indexing, finished, completed, segs, mergeVars>>

open_segment_states(g) ==
  LET S == Matching(g)
  IN /\ packets[g].pc = "open"
     /\ packets' = [packets EXCEPT ![g].pc = IF S = {} THEN "exit" ELSE "apply",
                                   ![g].seen = @ \cup S, ![g].open = S]
     /\ segs' = [s \in Ids |-> IF s \in S THEN [segs[s] EXCEPT !.pooled = TRUE]
                                          ELSE segs[s]]
     /\ UNCHANGED <<indexing, finished, completed, mergeVars>>

(* Mutant: the limit of a segment-private packet is ignored.               *)
HitsAll(r, g, o) == r.docs

(* The documents of r an operation is resolved to: those up to its limit   *)
(* when r is the packet's private segment, all of them otherwise.          *)
Hits(r, g, o) == {d \in r.docs : r.gen = g => d < o}

Deleted(r, g) ==
  UNION {Hits(r, g, o) : o \in packets[g].ops \cap OfKind(Deletes)}

(* Doc-values updates of the packet for documents that are still live.     *)
Resolved(r, g) ==
  LET ops(d) == {o \in packets[g].ops \cap OfKind({"dv"}) : d \in Hits(r, g, o)}
  IN {[gen |-> g, doc |-> d, op |-> Max(ops(d))] :
        d \in {x \in r.rlive \ Deleted(r, g) : ops(x) # {}}}

AddDvUpdates(r, U) ==
  [r EXCEPT !.pend = @ \cup U, !.mdv = IF r.isMerging THEN @ \cup U ELSE @]

(* FrozenBufferedUpdates::apply on one segment.                            *)
ApplyTo(r, g) ==
  [AddDvUpdates(r, Resolved(r, g)) EXCEPT !.rlive = @ \ Deleted(r, g)]

(* A segment that only this packet refers to was merged away.              *)
apply(g) ==
  /\ packets[g].pc = "apply"
  /\ segs' = [s \in Ids |-> IF s \in packets[g].open /\ RefCount(s) # 1
                            THEN ApplyTo(segs[s], g) ELSE segs[s]]
  /\ packets' = [packets EXCEPT ![g].pc = "close"]
  /\ UNCHANGED <<indexing, finished, completed, mergeVars>>

finish_apply(g) ==
  LET close(s) ==
        LET r == Release(segs[s], Holders(s) - 1)
        IN IF segs[s].rlive = {} THEN DropDeletedSegment(s, r, Holders(s) - 1) ELSE r
  IN /\ packets[g].pc = "close"
     /\ segs' = [s \in Ids |-> IF s \in packets[g].open THEN close(s) ELSE segs[s]]
     /\ packets' = [packets EXCEPT ![g].pc = "write", ![g].open = {}]
     /\ UNCHANGED <<indexing, finished, completed, mergeVars>>

(* Segments are written one by one, when the pool holds too many bytes.    *)
write_some_doc_values_updates(g, s) ==
  /\ packets[g].pc = "write"
  /\ segs[s].pooled
  /\ segs' = [segs EXCEPT ![s] = WriteFieldUpdates(@, completed)]
  /\ segs' # segs
  /\ UNCHANGED <<indexing, stream, mergeVars>>

leave_private(g) ==
  /\ packets[g].pc = "write"
  /\ packets[g].priv # 0
  /\ packets' = [packets EXCEPT ![g].pc = "exit"]
  /\ UNCHANGED <<indexing, finished, completed, segs, mergeVars>>

End(g, pc) ==
  packets' = [packets EXCEPT ![g] = Packet(@.priv, @.ops, pc)]

(* Mutant: merges that committed meanwhile are not noticed.                *)
check_no_merges(g) ==
  /\ packets[g].pc = "write"
  /\ packets[g].priv = 0
  /\ End(g, "done") /\ finished_segment(g)
  /\ UNCHANGED <<indexing, segs, mergeVars>>

(* The check for merges and, if there was none, the end of the packet are  *)
(* one critical section.                                                   *)
check_merges(g) ==
  /\ packets[g].pc = "write"
  /\ packets[g].priv = 0
  /\ IF packets[g].start = mergeGen
     THEN End(g, "done") /\ finished_segment(g)
     ELSE /\ packets' = [packets EXCEPT ![g].pc = "load"]
          /\ UNCHANGED <<finished, completed>>
  /\ UNCHANGED <<indexing, segs, mergeVars>>

(* The other way out: nothing (more) to apply to; the lock was given up.   *)
(* "left" tells a packet that got here in a later round.                   *)
finish_unlocked(g) ==
  /\ packets[g].pc = "exit"
  /\ End(g, IF packets[g].priv = 0 /\ packets[g].seen # {} THEN "left" ELSE "done")
  /\ finished_segment(g)
  /\ UNCHANGED <<indexing, segs, mergeVars>>

(* The first near-real-time reader is opened.                              *)
enable_reader_pooling ==
  /\ ~pool
  /\ pool' = TRUE
  /\ UNCHANGED <<hist, ram, buffer, stream, segs, mergeVars>>

(* What the pool holds goes to disk, with the deletes or, for some near-   *)
(* real-time readers, without; then segments without live documents go.    *)
write_reader_pool(write_deletes) ==
  LET written(r) == WriteFieldUpdates(IF write_deletes THEN WriteLiveDocs(r) ELSE r,
                                      completed)
      kept(s) == IF segs[s].rlive = {}
                 THEN DropDeletedSegment(s, written(segs[s]), Holders(s))
                 ELSE written(segs[s])
  IN /\ segs' = [s \in Ids |-> IF s \in Listed /\ segs[s].pooled THEN kept(s) ELSE segs[s]]
     /\ segs' # segs
     /\ UNCHANGED <<indexing, stream, mergeVars>>

(***************************************************************************)
(* Merges.                                                                 *)
(***************************************************************************)
Merge(src) == [src |-> src, pc |-> "init", held |-> {}, read |-> {},
               docs |-> {}, val |-> <<>>]

register_merge(S) ==
  /\ Len(merges) < MaxMerges /\ Load < MaxLoad
  /\ S # {} /\ Cardinality(S) <= MaxMergeWidth
  /\ S \cap merging = {}
  /\ merging' = merging \cup S
  /\ merges' = Append(merges, Merge(S))
  /\ UNCHANGED <<indexing, stream, segs, mergeGen>>

(* wait_apply_for_merge: no packet that a source may still need is running. *)
Waited(S) == \A g \in Gens : Running(g) => \A s \in S : segs[s].gen < g

merge_init(m) ==
  LET S == merges[m].src
  IN /\ merges[m].pc = "init"
     /\ Waited(S)
     /\ segs' = [s \in Ids |->
                   IF s \in S /\ segs[s].pooled
                   THEN [WriteFieldUpdates(segs[s], completed) EXCEPT !.isMerging = TRUE]
                   ELSE segs[s]]
     /\ merges' = [merges EXCEPT ![m].pc = "read"]
     /\ UNCHANGED <<indexing, stream, merging, mergeGen>>

(* Sources are opened one after the other; first the updates that arrive   *)
(* from now on are kept for the merge, then the reader is taken.           *)
set_is_merging(m) ==
  LET M == merges[m]
      s == Min(M.src \ M.held)
  IN /\ M.pc = "read"
     /\ M.held = M.read /\ M.read # M.src
     /\ segs' = [segs EXCEPT ![s].pooled = TRUE, ![s].isMerging = TRUE]
     /\ merges' = [merges EXCEPT ![m].held = @ \cup {s}]
     /\ UNCHANGED <<indexing, stream, merging, mergeGen>>

(* Mutant: updates not written yet are not kept for the merge.             *)
KeepNone(r) == r

KeepPending(r) == [r EXCEPT !.mdv = @ \cup r.pend]

get_reader_for_merge(m) ==
  LET M == merges[m]
      s == CHOOSE x \in M.held \ M.read : TRUE
      r == segs[s]
  IN /\ M.pc = "read"
     /\ M.held # M.read
     /\ segs' = [segs EXCEPT ![s] = KeepPending(@)]
     /\ merges' = [merges EXCEPT
          ![m] = [M EXCEPT !.read = @ \cup {s},
                           !.docs = @ \cup r.rlive,
                           !.val = [d \in M.docs \cup r.rlive |->
                                      IF d \in r.rlive THEN r.val[d] ELSE M.val[d]]]]
     /\ UNCHANGED <<indexing, stream, merging, mergeGen>>

(* What arrived at the sources while the merge was running.                *)
CarriedOverLive(M) == {d \in M.docs : \E s \in M.src : d \in segs[s].rlive}
(* Mutant: updates that arrived during the merge are not carried over.     *)
CarriedOverNone(M) == {}
CarriedOverUpdates(M) ==
  {u \in UNION {segs[s].mdv : s \in M.src} : ~still_running(u.gen) /\ u.doc \in M.docs}
MergedGen(M) == Min({segs[s].gen : s \in M.src})

Merged(M) ==
  [NewSegment(M.docs, M.docs, M.val, MergedGen(M)) EXCEPT
     !.rlive = CarriedOverLive(M), !.pend = CarriedOverUpdates(M), !.pooled = TRUE]

MergedAway(r, holders) == Unpool([r EXCEPT !.listed = "dropped"], holders)

commit_merge(m) ==
  LET M == merges[m]
      drop == CarriedOverLive(M) = {}
      away(s) == IF s \in M.src THEN MergedAway(segs[s], Holders(s) - 1) ELSE segs[s]
      rest == [s \in Ids |-> away(s)]
  IN /\ M.pc = "read" /\ M.read = M.src
     /\ mergeGen' = IF M.docs = {} THEN mergeGen ELSE mergeGen + 1
     /\ segs' = IF drop THEN rest ELSE Append(rest, Release(Merged(M), 0))
     /\ merges' = [merges EXCEPT ![m] = [Merge(M.src) EXCEPT !.pc = "finish"]]
     /\ UNCHANGED <<indexing, stream, merging>>

abort_merge(m) ==
  LET M == merges[m]
      close(s) == Release([segs[s] EXCEPT !.mdv = {}, !.isMerging = FALSE], Holders(s) - 1)
  IN /\ CanAbort
     /\ M.pc \in {"init", "read"} /\ M.read \in {{}, M.src} /\ M.held = M.read
     /\ segs' = [s \in Ids |-> IF s \in M.held THEN close(s) ELSE segs[s]]
     /\ merges' = [merges EXCEPT ![m] = [Merge(M.src) EXCEPT !.pc = "finish"]]
     /\ UNCHANGED <<indexing, stream, merging, mergeGen>>

merge_finish(m) ==
  /\ merges[m].pc = "finish"
  /\ merging' = merging \ merges[m].src
  /\ merges' = [merges EXCEPT ![m].pc = "done"]
  /\ UNCHANGED <<indexing, stream, segs, mergeGen>>

(* No packet is being resolved and no merge runs.                          *)
Idle ==
  /\ \A g \in Gens : ~Running(g)
  /\ \A m \in DOMAIN merges : merges[m].pc = "done"
  /\ UNCHANGED vars

ApplySteps(g) ==
  \/ load_merge_gen(g) \/ open_segment_states(g) \/ apply(g) \/ finish_apply(g)
  \/ \E s \in Ids : write_some_doc_values_updates(g, s)
  \/ leave_private(g) \/ check_merges(g) \/ finish_unlocked(g)

MergeSteps(m) ==
  \/ merge_init(m) \/ set_is_merging(m) \/ get_reader_for_merge(m)
  \/ commit_merge(m) \/ abort_merge(m) \/ merge_finish(m)

Next ==
  \/ \E w \in Dwpts : AddDocument(w) \/ publish_flushed_segment(w)
  \/ \E k \in Kinds : BufferUpdate(k)
  \/ publish_frozen_updates
  \/ \E g \in Gens : ApplySteps(g)
  \/ enable_reader_pooling
  \/ \E write_deletes \in BOOLEAN : write_reader_pool(write_deletes)
  \/ \E S \in SUBSET Listed : register_merge(S)
  \/ \E m \in DOMAIN merges : MergeSteps(m)
  \/ Idle

Spec == Init /\ [][Next]_vars

-----------------------------------------------------------------------------
(***************************************************************************)
(* Properties.                                                             *)
(***************************************************************************)

(* Types of all variables.                                                 *)
TypeOK ==
  /\ hist \in Seq(AllKinds \cup {"doc"})
  /\ ram \in [Dwpts -> SUBSET Seqs] /\ buffer \subseteq Seqs
  /\ \A g \in Gens :
       packets[g] \in [priv : Ids \cup {0}, ops : SUBSET Seqs, start : 0..mergeGen,
                       seen : SUBSET Ids, open : SUBSET Ids,
                       pc : {"load", "open", "apply", "close", "write", "exit",
                             "done", "left"}]
  /\ finished \subseteq Gens /\ completed \in Gens \cup {0}
  /\ \A s \in Ids :
       /\ segs[s].docs \subseteq Seqs /\ segs[s].gen \in Gens \cup {0}
       /\ segs[s].live \subseteq segs[s].docs /\ segs[s].rlive \subseteq segs[s].live
       /\ segs[s].val \in [segs[s].docs -> Seqs \cup {0}]
       /\ segs[s].pend \cup segs[s].mdv \subseteq Updates
       /\ segs[s].isMerging \in BOOLEAN /\ segs[s].pooled \in BOOLEAN
       /\ segs[s].listed \in {"infos", "dropped", "gone"}
  /\ pool \in BOOLEAN
  /\ merging \subseteq Ids /\ mergeGen \in 0..MaxMerges
  /\ \A m \in DOMAIN merges :
       /\ merges[m].pc \in {"init", "read", "finish", "done"}
       /\ merges[m].read \subseteq merges[m].held
       /\ merges[m].held \subseteq merges[m].src
       /\ merges[m].src \subseteq Ids
       /\ merges[m].val \in [merges[m].docs -> Seqs \cup {0}]

(* All packets with operation o are finished and none is to come.          *)
Settled(o) ==
  /\ o \notin buffer
  /\ \A g \in Gens : o \in packets[g].ops => ~Running(g)

(* A deleted document stays in no segment once the delete's packets are    *)
(* finished, whatever merges went on (force_apply and its retry,           *)
(* carry_over_hard_deletes).                                               *)
DeletesReach ==
  \A s \in Listed : \A d \in segs[s].rlive :
    \A o \in OfKind(Deletes) : d < o => ~Settled(o)

(* What a doc-values reader of r will see for d when all is written.       *)
Value(r, d) ==
  LET P == {u \in r.pend : u.doc = d}
  IN IF P = {} THEN r.val[d] ELSE Newest(P).op

Reached(r, d, o) == d < o => Value(r, d) >= o

(* Once all packets with a doc-values update are finished, every older     *)
(* document has its value or a newer one: "Must do this while still        *)
(* holding IW lock else a merge could finish and skip carrying over our    *)
(* updates".                                                               *)
UpdatesReach ==
  \A s \in Listed : \A d \in segs[s].rlive : \A o \in OfKind({"dv"}) :
    Settled(o) => Reached(segs[s], d, o)

(* Once all packets with a doc-values update are finished, and none of     *)
(* them outside of the IndexWriter lock after a retry, no older document   *)
(* has its indexed value any more: the update, or another one, is in every *)
(* segment the document was merged to.                                     *)
LockedUpdatesReach ==
  \A s \in Listed : \A d \in segs[s].rlive : \A o \in OfKind({"dv"}) :
    /\ d < o /\ Settled(o)
    /\ \A g \in Gens : o \in packets[g].ops => packets[g].pc # "left"
    => Value(segs[s], d) # 0

(* An operation never touches a document added after it: no such document  *)
(* is lost, in a merge or otherwise, and none gets an older update's value *)
(* (delete generations, the limit of segment-private packets).             *)
NewerUntouched ==
  /\ \A d \in OfKind({"doc"}) :
       \/ \E o \in OfKind(Deletes) : d < o
       \/ \E w \in Dwpts : d \in ram[w]
       \/ \E s \in Listed : d \in segs[s].rlive
  /\ \A s \in Listed : \A d \in segs[s].rlive :
       Value(segs[s], d) = 0 \/ Value(segs[s], d) > d

(* What a reader sees that is opened now, all complete updates written:    *)
(* once a document shows an updated value it never shows the indexed one   *)
(* again, not even when its segment is merged.  Packets finish in any      *)
(* order, their updates become visible in the order of the generations.    *)
Visible(r, d) == WriteFieldUpdates(r, completed).val[d]

UpdatesStayVisible ==
  [][\A s \in Listed : \A t \in Listed' : \A d \in segs[s].rlive \cap segs'[t].rlive :
       Visible(segs[s], d) # 0 => Visible(segs[t], d)' # 0]_vars
=============================================================================
