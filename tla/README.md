# Verification of rlucene's write path

TLA+ specifications, TLC models and TLAPS proofs for the part of rlucene where
threads, crashes and files meet: `IndexWriter` and what it is made of
(`src/src/core/index`). The modules model how concurrent updates and deletes are
ordered, how in-memory segments are handed to flushes and published, how deletes
and updates reach segments while merges replace them, how merges are scheduled,
which locks the public methods take, how commits reach the directory, which files
may be deleted, and how searchers over the result are shared and refreshed.

## 1. Inventory

How the parts interact: an indexing thread takes a *DWPT* (a
`DocumentsWriterPerThread`, one in-memory segment) from the pool, writes its
documents and, for an update, appends a delete node to the *delete queue*; the
queue hands out the sequence number. The *flush control* keeps the accounts of
bytes and marks a DWPT pending; any thread may then check it out and flush it.
A flush first gets a *ticket*, so that segments are published in the order of
their deletes. A *full flush* (commit, new NRT reader) replaces the delete queue
and sweeps all DWPTs of the old one. Published segments enter `SegmentInfos`;
`IndexFileDeleter` counts references to their files; a *commit* writes
`pending_segments_N`, syncs, renames to `segments_N` and syncs the directory;
the *deletion policy* decides which older commits go, unless a snapshot holds
them. Merges replace segments at any moment, a commit that waits for them
included; the *merge scheduler* runs them in threads of their own and holds up
application threads when there are too many. A frozen packet of deletes gets a
*delete generation* when its ticket is published and is then applied to all older
segments, without the writer's lock, while merges may replace them. Readers open
commits, or the writer's current segments; `SearcherManager` hands them out by
reference count and replaces them when the index changes.

| part | source | state | operations | modelled in |
|---|---|---|---|---|
| delete queue | `documents_writer_delete_queue.rs` | nodes, sequence numbers, global slice and buffer, private slices | add, update_slice, try_apply_global_slice, freeze, advance_queue, close, clear, skip_sequence_numbers | `DeleteQueue` |
| DWPT | `documents_writer_per_thread.rs` | documents, slice, flags | update_documents, prepare_flush, flush, abort | `DeleteQueue`, `FlushControl` |
| DWPT pool | `documents_writer_per_thread_pool.rs` | registered and free DWPTs, locks, permits | get_and_lock, checkout, filter_and_lock, lock_new_writers | `FlushControl`, `WriterLocks` |
| flush control, policy, stall control | `documents_writer_flush_control.rs`, `flush_by_ram_or_counts_policy.rs`, `documents_writer_stall_control.rs` | byte accounts, pending, flushing, blocked, queued DWPTs, full flush, stalled | do_after_document, checkout, next_pending_flush, mark_for_full_flush, finish/abort_full_flush, do_after_flush, do_on_abort | `FlushControl` |
| documents writer | `documents_writer.rs` | current queue, closed, guard | update_documents, deletes, do_flush, flush_all_threads, flush_one_dwpt, lock_and_abort_all, abort, close | `FlushControl`, `WriterLocks` |
| ticket queue | `documents_writer_flush_queue.rs` | tickets, their count, purge lock | add_ticket, add_segment, mark_ticket_failed, try/force_purge | `FlushQueue`; locks in `WriterLocks` |
| index writer | `index_writer.rs` | infos, counters, pending commit, merges | open, publish, commit, rollback, delete_all, merges, readers | `IndexCommits` (files), `WriterLocks` (locks) |
| segment infos | `segment_infos.rs` | generations, segments | prepare/finish/rollback commit, FindSegmentsFile | `IndexCommits` |
| file deleter | `index_file_deleter.rs`, `file_deleter.rs` | reference counts, commit points | checkpoint, inc/dec_ref, delete, refresh, inflate_gens | `IndexCommits` |
| deletion policies | `keep_only_last_commit_deletion_policy.rs`, `snapshot_deletion_policy.rs` | snapshot counts | on_init, on_commit, snapshot, release | `IndexCommits` |
| persistent snapshots | `persistent_snapshot_deletion_policy.rs` | counts, `snapshots_N` files | snapshot, release, release_gen, persist, load | `PersistentSnapshots` |
| buffered updates stream | `buffered_updates_stream.rs`, `frozen_buffered_updates.rs`, `index_writer.rs` | packets, delete generations | push, force_apply, finished, wait_apply_for_merge | `SegmentUpdates` |
| reader pool, pending deletes | `reader_pool.rs`, `readers_and_updates.rs` | live docs, pending and merging updates, references | get, release, commit, drop, carry over | `SegmentUpdates` |
| merge scheduler, merges of the writer | `concurrent_merge_scheduler.rs`, `index_writer.rs` | threads, paused, pending and running merges, closing | merge, maybe_stall, sync, force_merge, wait_for_merges, abort_merges, shut_down, tragic_event | `MergeScheduler` |
| searcher and reference managers | `search/reference_manager.rs`, `searcher_manager.rs`, `searcher_lifetime_manager.rs`, `index_reader.rs` | current reference, counts, trackers | acquire, release, maybe_refresh(_blocking), close, record, prune | `SearcherManagers` |
| query cache, NRT caching directory, lock factories | `search/lru_query_cache.rs`, `store/...` | maps, byte accounts | get, put, evict, sync | not modelled |
| merge policies, serial merge scheduler | `tiered_merge_policy.rs`, ... | none that threads share | find_merges | a free choice of the models above |
| codecs, analysis, queries, automata, geometry | the rest of `src/src/core` | none that threads share | | not modelled |

`PROJECT.json` lists all components with the reason where one is left out, and
the hazards with the lines where they bite.

## 2. How the modules fit together

Each module takes one conversation between threads and keeps the others as free
choices. Where one module relies on what another shows, the seam is a named
property:

* `DeleteQueue` assumes that no more operations follow on an old queue than
  `advance_queue` was told (`budget`): `GapSuffices` of `FlushControl`.
* `SegmentUpdates` publishes segments and packets in the order in which their
  deletes were frozen: `InOrder` of `FlushQueue` (`OrderedPublication`); that a
  packet frozen later is newer than all documents of the segment:
  `LaterPacketsAreNewer` of `DeleteQueue`.
* `IndexCommits` lets a commit begin with everything flushed and published:
  `FullFlushComplete` of `FlushControl` and `DueIsPublished` of `FlushQueue`.
* `IndexCommits` and `SegmentUpdates` let merges begin and end at any moment;
  that they do end, and do not go on after a close: `MergeScheduler`.

## 3. Modules

**`DeleteQueue`** (`MCDeleteQueue`). A queue generation `g` is a list of nodes
named by position, `tail[g]`; a slice is the range of positions behind its head.
Each action is one critical section of `queue_lock` or `global_buffer_lock`.
`AddDelete` is a delete call, after which the caller still has to
`TryApplyGlobalSlice`; `UpdateDocuments`/`AddDocuments` index a block with and
without a delete; `PrepareFlush` and `MaybeFreezeGlobalBuffer` freeze packets;
`AdvanceQueue`, `SkipSequenceNumbers`, `Clear` and `Close` are the full flush and
delete_all. What a node deletes is not represented: the properties compare only
the order of nodes and documents. The contract of `advance_queue` (no more than
`max_num_pending_ops` operations follow on the old queue) is the variable
`budget`.

**`FlushControl`** (`MCFlushControl`). Threads go through `update_documents`
label by label: `pre_update`, polling or creating a DWPT, the check of its queue,
the document (which may fail or abort the DWPT), `do_after_document`, release,
`post_update`, ticket, flush, the next flush. `Flusher` holds the full-flush lock
and runs full flushes and delete_all; `Closer` rolls back. One action is one
critical section of the flush control, the pool or a DWPT lock; where the code
gives up a mutex between reading and using a value (`next_pending_flush`) there
are two actions. A document takes `DocRam` bytes. The queue that a full flush is
flushing (`current_full_flush_del_queue`) is only read by an assertion and is
left out.

**`FlushQueue`, `OrderedPublication`** (`MCFlushQueue`). Threads make a ticket
for a DWPT or for deletes alone (count it, freeze, push), complete or fail it,
and purge: `try_purge` gives up when another thread purges, `force_purge` waits.
A purge takes the head, publishes it without the queue's lock (which may fail)
and pops it. A reader asks `any_changes`, one counter at a time.
`OrderedPublication` is what the writer relies on: tickets are published in the
order of freezing, each once, none before its flush has ended; `InOrder` is the
refinement. Left out: `pending_changes_in_current_full_flush` and the exchange
of the queue within `any_changes`; the event queue is taken to be open (a failed
flush posts an event, which is refused only once the writer is closed).

**`SegmentUpdates`** (`MCSegmentUpdates`). Documents, deletes and doc-values
updates are numbered by sequence number and all have one key. A packet is a
process that goes through the rounds of `force_apply`: remember
`merge_finished_gen`, open the matching segments, apply, release, write updates
when the pool is large, and end in one critical section with the check for
merges, or start over. A merge registers, waits for the packets its sources
need, marks them as merging, takes readers one after the other, and commits with
what arrived meanwhile carried over, or aborts. The reader pool with and without
pooling, `write_reader_pool` and dropped segments are part of it.

**`MergeScheduler`** (`MCMergeScheduler`). The pending and running merges of
`IndexWriter` and the threads of `ConcurrentMergeScheduler`. Application threads
call `maybe_merge`, `force_merge`, `delete_all`, `shut_down` and `rollback`; each
runs the scheduler's loop and may stall there, as may merge threads, which
leave instead. A merge ends, fails (a tragic event, after which its own thread
may close the writer) or cannot be started. `Loads` gives the sizes of merges
and the limits. Fused into one step: taking the scheduler's mutex and its first
test, `get_next_merge` and the start of the thread, `handle_merge_exception` and
`merge_finish`. The flush at the start of `force_merge` is a call of
`maybe_merge` of its own; limits do not change while merges run.

**`SearcherManagers`** (`MCSearcherManagers`). Readers with their reference
counts; threads acquire (read, count up, check again), release, refresh, close,
record, prune. A refresh keeps the reader it works on, opens the next one when
the index changed, swaps, releases the old one; listeners, opening and closing
may fail. `lifetime_close` does not overlap a `record`, as its documentation
demands.

**`WriterLocks`** (`MCWriterLocks`). Every public method of the writer is the
sequence of lock, try-lock and unlock steps of its longest path; threads call
methods in any order. Writer permits are part of the state, the stall wait is
not (it holds no lock). `rollback` closes the writer (`should_close`) and the pool
(`DocumentsWriter::close`): calls that begin later are refused, and so is a call on
its way to a new DWPT.

**`IndexCommits`** (`MCIndexCommits`). The directory is a listing plus the
listings a crash may bring back (those since the last `sync_metadata`); contents
that were not synced may be torn. `ci.phase` walks through the commit:
`PrepareCommit`, waiting for point-in-time merges, `CreatePending`,
`SyncPending`, `SyncFiles`, `UpdateGeneration`, `RenamePending`, `FinishCommit`,
with an I/O error possible at each step. File deletion is one file at a time, in
the order of the code, so a crash can come in between: `deleting` gives the files
of each call of `delete_files` that a critical section makes, by stages (the
first call, one per commit point given up, the last). `Open` covers a fresh
directory and recovery after a crash (`inflate_gens` included). An NRT reader
holds files; a directory reader runs `FindSegmentsFile::run` with its retries.
A flushed segment is published, or discarded: because the flush failed, or because
`publish_flushed_segment` finds that all its documents are deleted and drops it
again. A merge is aborted while it writes, when its files stay in the directory
(`orphans`), or later, when they are deleted. Every new segment name, checkpoint
and drop counts as a change, as in the code.
Per-segment files are one name, documents and deletes are not represented.
`UpdateGeneration` is two critical sections of the code in one step: the release of
the commit's files after an error in `start_commit` and `update_generation`.

**`PersistentSnapshots`** (`MCPersistentSnapshots`). The steps of `persist()`
and of `load_prior_snapshots`, with crashes and I/O errors between them and
`on_commit` of the wrapped policy. `acked` counts the promises: a snapshot that has
returned, until its `release` returns or is cut off by a crash, or `release_gen`,
which does not undo its decrement on an error, is called. `short` marks a
`snapshots_N` that a failed `release` has left behind with one count less than
memory. A file found at reopening is assumed listed in numeric order (true for names
of one digit).

Each module also holds the mutated definitions the properties are tested with,
next to the definitions they mutate, marked "Mutant".

## 4. Runs

| run | question | instance |
|---|---|---|
| `delete_queue` | Do slices, global buffer, packets and sequence numbers agree on which delete hits which document? | 2 DWPTs, 1 deleting thread, 2 generations, 2 nodes per queue |
| `flush_safety` | Are the accounts right, is no DWPT lost, does a full flush take all documents of the old queue and none of the new one? | 2 threads, 3 DWPTs, 2 full flushes, 3 calls, 1 failure, both flush triggers |
| `flush_ends` | Do full flush, delete_all and rollback end, does a stalled thread go on, does an abort leave nothing? | 2 threads, 2 DWPTs, 2 calls, 1 failure, a buffer that one document overfills |
| `flush_queue` | Are tickets published in order, once, and found; does a forced purge publish what is due; are changes seen? | 3 threads, 3 tickets |
| `updates_apply` | Does every delete and update reach every older document, and no newer one, over merges? | 2 documents, 1 delete or update of each kind, 2 merges, 3 of them together |
| `updates_race` | *Violation*: an update that a second merge skips | 2 documents, 1 update, 2 merges |
| `merge_scheduler` | Do merges and calls end, is the right merge paused, is a closed writer quiet? | 2 threads, 2 calls, 3 merges, 1 failure, 2 settings of sizes and limits |
| `locks_all` | *Violation*: a cycle of three threads | 3 threads, all methods |
| `commit_crash` | Is every commit a crash can leave whole; are acknowledged commits and snapshots kept; are names free? | 2 segment names, 2 generations, 1 crash, 1 I/O error, 1 snapshot |
| `commit_concurrent` | Are counts exact, do referenced files exist, does nothing leak, does a reader find a commit, while merges, commits and readers overlap? | 2 segment names, 3 generations, 1 I/O error |
| `snapshots` | Do persisted snapshots survive crashes and errors? | 2 commits, 5 files, 2 crashes, 2 errors |
| `searcher_managers` | Are reference counts exact, does acquire never get stuck, does a thread see what it refreshed? | 3 threads, 2 readers, 1 change, 1 failure |

**Bounds.** Two DWPTs and one deleting thread give every pair of operations on
one queue, and two generations the hand-over; the proofs remove these bounds.
Three DWPTs for two threads leave one that nobody holds, which is what a full
flush and `mark_largest_writer_pending` are about. Three tickets are one that is
published, one behind it and one that is made meanwhile; the proofs remove this
bound, too. Two merges are needed for a merge of a merged segment, one merge and
a retry for everything else. Three merges are one that runs, one paused or
waiting, and one that a forced merge adds. Three generations let a reader be
overtaken twice. Two readers are the current one and its successor.

Larger instances, checked once with the same result: three threads and four
DWPTs in `flush_safety` (2.9 million states); a crash instance with three
generations (5 million); two doc-values updates of one document with two merges,
and of two documents with one merge; nine settings of `Loads` (2.4 million);
three readers and two changes with two threads.

**Deadlock.** TLC's deadlock check is on where every end state is named, and off
in liveness runs and where bounds or closing stop the system. Real deadlocks are
the subject of `NoCircularWait` and of the liveness properties.

**Fairness.** `FlushControl`: weak fairness of each thread inside a call, that
is, the OS scheduler runs every thread, and no thread need begin another call.
`MergeScheduler`: weak fairness of each thread inside a call or a merge; a merge
that is not paused ends, and one that is told to abort ends even when paused,
since it looks at that flag as it writes. No fairness of calls, failures or of a
paused merge. The timed waits (`do_wait`, the stall) test again by themselves;
the untimed one of `sync` needs its notification, and has it modelled.

**Abstractions that matter.** `ReaderFindsCommit` is claimed without I/O errors
of the writer: a commit whose `sync_metadata` fails removes its `segments_N`
again, and a reader that had picked it gives up, since it sees no progress.
Syncing a file is taken to make its directory entry durable for `snapshots_N`,
because `persist()` never calls `sync_metadata`. TLC compares states of
`IndexCommits` under a view that keeps of the change counts only which of them are
equal, since the code compares them for equality only. `SnapshotsPersist`,
`DiskCoversMemory`, `NothingLeaks`, `LockedUpdatesReach`, `UpdatesStayVisible`, `NewQueueBlocked` and the liveness
properties of `MergeScheduler` name in their statements the cases of section 5
in which more cannot be claimed.

## 5. What the code does that its documentation does not say

With a run:

* `locks_all`: `add_indexes`, `delete_all` and `try_delete_document` ask for a
  sequence number (DocumentsWriter guard) while they hold the IndexWriter lock;
  with a thread that creates a DWPT, and a `delete_all` (in the trace) or a full
  flush that holds the guard and waits for the pool, this is a deadlock. With two
  threads there is none.
* `updates_race`: a packet that starts over and then finds no segment left is
  recorded as finished after the IndexWriter lock was given up; a second merge
  that commits in between does not carry its doc-values update over.

Observed in the same models, without a run of their own:

* `FlushControl` with three threads and four DWPTs: `next_pending_flush` reads
  `full_flush`, gives up the mutex and checks out a DWPT later; when a full flush
  has begun meanwhile and another thread has marked a DWPT of the new queue, its
  ticket enters before those of the old queue
  (`documents_writer.rs:767`: "only modifications from the current flushing queue
  are permitted while doing a full flush"). This is the exception in
  `NewQueueBlocked`.
* `PersistentSnapshots`: after a crash a torn `snapshots_N+1` is believed and the
  intact `snapshots_N` is deleted, so a persisted snapshot is lost
  (`persistent_snapshot_deletion_policy.rs:134`: "Once this method returns, the
  snapshot information is persisted in the directory"). In `Reopen` such a file
  ends the promises counted by `acked`.
* `PersistentSnapshots`: when `dir.sync` fails in a `release`, memory counts the
  commit again and the caller sees an error, but the `snapshots_N` that was written
  with one count less stays, and a restart reads it as the newest: the commit is
  deleted although its snapshot was never given up. Without the exception `short`,
  `DiskCoversMemory` is violated by one snapshot and one failed release, and
  `SnapshotsPersist` by a commit, a crash and an open after that.
* `IndexCommits`: a merge that notices its abort while it writes (`check_aborted` in
  `merge_middle`, or the rate limiter) leaves `merge_middle` before the target is
  told its files, so nothing deletes them, and neither are those of flushed segments
  whose tickets `delete_all` purges. Both stay until rollback, close or the next
  open; these are the `orphans` of `NothingLeaks`.
* `SegmentUpdates` with two updates: packets finish out of order, and an update
  that arrives between the moment a segment is marked as merging and the moment
  the merge takes its reader is both written by a commit and kept for the merge.
  Carried over, it then replaces the value of a newer update that the reader
  already had. So no property orders the values of two updates.
* `MergeScheduler`: a merge that fails while `shut_down` waits in
  `wait_for_merges` leaves other pending merges to nobody: the merge threads leave
  the loop with an error, `wait_for_merges` does not look for a tragic event, and
  the failed thread does not close a writer that is closing already. A thread
  that cannot be started has the same effect. This is `Stranded`: merges are
  pending, no thread is left, and a failure has happened. `CallsReturn`
  and `PendingMergesRun` except only behaviours that stay there for ever.
* `MergeScheduler`: `max_merge_count` ("the maximum number of simultaneous
  merges") may be exceeded by a merge registered between `has_pending_merges` and
  `get_next_merge`; `force_merge` may return without an error although a merge of
  an earlier call failed, before the tragic event is recorded.
* `index_reader.rs:126`: `dec_ref` says that the count is unchanged when an error
  is hit; when closing the reader fails the count stays 0. `after_refresh` is not
  called when releasing the old reference fails.

## 6. Proofs

TLAPS proves the following for every value of the constants, from the named
assumptions only. All other invariants of a component are consequences of one
inductive invariant, `IndInv` or `IInv`, proved by one step per action; TLC
checked each inductive invariant on the instances of section 4 before it was
proved.

| module | theorem | states |
|---|---|---|
| `DeleteQueueProofs` | `IndInvariant`, `TypeCorrect` | the inductive invariant, the types |
| | `UpdatesConsistent` | `UpdateConsistency`: a delete a DWPT has applied hits exactly its documents with smaller sequence numbers |
| | `PacketsOrdered` | `LaterPacketsAreNewer`: what is frozen after a DWPT prepared its flush is newer than all its documents |
| | `DeletesNeverLost` | `DeletesFrozenOnce` and `ClosedQueueDrained` |
| | `WindowsDisjoint` | `SeqNoWindows` |
| | `MaxCompletedNeverDecreases` | `MaxCompletedMonotonic`, an action property |
| `FlushQueueProofs` | `Invariance` | the inductive invariant |
| | `AlwaysFound`, `AlwaysDuePublished`, `AlwaysChangesFound` | `TicketsFound`, `DueIsPublished`, `ChangesFound` |
| | `Implements` | `InOrder`: every behaviour of the ticket queue is one of `OrderedPublication` |
| `MergeSchedulerProofs` | `SchedulerInvariance` | the inductive invariant |
| | `AlwaysQuiet`, `AlwaysPausedForSmaller` | `ClosedIsQuiet`, `PausedForSmaller` |
| `SearcherManagersProofs` | `ManagerInvariance` | the inductive invariant |
| | `AlwaysCounted`, `NeverStuck` | `RefCountsExact`, `AcquireNeverStuck` |
| | `AlwaysSeen` | `RefreshedIsSeen`, an action property |
| `IndexCommitsProofs` | `CommitInvariance` | the inductive invariant |
| | `CommitPointsSurviveAlways`, `AckedCommitsSurviveAlways` | what a crash can bring back is whole, and no older than what was acknowledged |
| | `CountsAlwaysExact`, `ReferencedFilesStay`, `NothingEverLeaks` | `CountsExact`, `ReferencedFilesExist`, `NothingLeaks` |
| | `NextNamesAlwaysFree`, `SnapshotsAlwaysKept` | `NextNamesAreFree`, `SnapshotsKept` |
| | `UnchangedAlwaysCommitted`, `ReaderAlwaysFindsCommit` | `UnchangedMeansCommitted`, `ReaderFindsCommit` |
| `PersistentSnapshotsProofs` | `SnapshotInvariance` | the inductive invariant |
| | `AlwaysPersisted`, `AlwaysCovered` | `SnapshotsPersist`, `DiskCoversMemory` |

**Assumptions.** `ConstantsAssumption` (`DeleteQueue`, `FlushQueue`),
`BoundsAssumption` (`IndexCommits`) and `SnapshotBounds` say that the bounds are
natural numbers, those of names and generations positive, and that the names of
threads, DWPTs and "nobody" differ. `ManagerAssumption` adds that the threads are
finitely many, because a reference count is the number of its owners;
`MergeAssumption` that `max_thread_count` lies between 1 and `max_merge_count`, as
`set_max_merges_and_threads` demands, and that sizes are natural numbers. TLC
evaluates all of them.

**Delete queue** (`DeleteQueueInv`). `UpdateConsistency` speaks of deletes a DWPT
has applied. `IndInv` adds `QueueInv`, the sequence numbers handed out lie below
`next_seq_no` and the operations still announced fit below `max_seq_no`;
`SliceInv`, a delete a DWPT has *not* applied yet is newer than all its
documents, which is why applying it to all of them later is right; and
`GlobalInv`, nodes before the global head are split between buffer, packets and
what was dropped. The argument about queues: a step only appends nodes numbered
from `next_seq_no` on (`QueueGrows`), so whatever was true of an older document
stays true.

**Ticket queue.** `IInv` adds `Locks`, who holds the queue's mutex and the purge
lock; `Order`, published tickets are the first ones and the queue holds the
following ones without a gap, up to one ticket that a thread inside a critical
section has frozen but not pushed or published but not popped, and the count is
that of the queue plus the thread inside `add_ticket`; `Map`, which tickets are
still in the map of tickets; `Mine`, a flush works on an open ticket and no two
on the same; `Dues`, what a forced purge owes is complete; and `Seen`, a change
that `any_changes` has not seen yet is still ahead of it, which is what makes
reading the counters one by one safe. The refinement maps `ready` to the tickets
whose flush has ended and the other variables to themselves; every step is a
freeze, a completion, a publication or a stutter.

**Merge scheduler.** `CloseInv` records what a thread that closes the writer has
achieved at each of its steps (`closing` is set; then no merge can be registered;
then none runs; then no thread but its own is left), and that no step of another
thread undoes it: this, and not the last test before closing, is why a closed
writer is quiet. For the pauses, lemmas about the sort of
`update_merge_threads` (`RankGrows`, `RankOfBig`) count the merges before a given
one, so the result holds for any number of merges and ties between their sizes.

**Searcher managers.** A reference count is the number of its owners, over all
roles (current reference, thread, tracker, reader being opened or closed). The
proof counts owners: every action changes the owners of at most two readers by
one, and leaves the slots of other threads alone (`Frame`). `CurrentInvAt` says
that only the holder of the refresh lock replaces the current reader, and
`VersionInvAt` carries the version a refresh has promised from the opening of
the new reader through the swap to the next acquire.

**Commits** (`IndexCommitsInv`, `IndexCommitsFacts`, `IndexCommitsSteps`,
`IndexCommitsProofs`). The nine properties support each other. That a crash finds
whole commit points needs that nothing removes a file of a commit point before
its `segments_N` (`PointsFirst`), and that what a commit point refers to is not
on its way out (`ReferencedLive`); both rest on exact reference counts
(`Counted`), for a file is only given up when its count is zero. `PointsKnown`
says that the deleter knows every commit point but the one that was just renamed,
`AckedKept` and `SnapshotsDurable` that the acknowledged commit and snapshots are
in *every* listing that may come back, not only in the current one. `NamesTaken`,
`Fresh` and `CommitInProgress` tell, phase by phase, which names the commit and
the flushes own and what has been synced; `ChangesCounted` compares change
counts with the infos they stand for; `Owned` names who knows about each file, or
that it is an orphan, which is what `NothingLeaks` needs once the writer is idle; `ReaderAhead` says
that a reader always has a commit ahead of it that is not being removed.
`IndexCommitsFacts` holds the lemmas about the operators (file names, reference
counts, the number of commit points that hold a file, removals) and about what
carries over when a step leaves some variables alone.

**Persistent snapshots.** What has been acknowledged must be covered by the file
a crash makes the newest, and what memory counts by the file a restart would read
now. `SavedInv` says that of the last saved file, `NextInv` of the file being written
or left over by a failure, which is the newest one and which a crash may bring to
light, `ClosedInv` of the state between a crash and the next open; `Counted` that
the counts cover what was acknowledged, both as they are and after undoing the call
in progress.

**Only model-checked.** Liveness (`SweepsEnd`, `StalledGoOn`, `PendingMergesRun`,
`CallsReturn`): the provers handle neither fairness nor `ENABLED`. The invariants
and action properties of `FlushControl` and `SegmentUpdates`: byte accounts are
sums over all DWPTs, which the provers could only follow by induction over sets,
and the merges of `SegmentUpdates` relate the updates of a segment to those of all
its sources. `WriterLocks` has no theorem: it is a search over concrete methods.

## 7. Not modelled

* Within the modelled parts: a packet whose application fails, soft deletes,
  `add_indexes` as a change of segments, changes of the merge limits and of I/O
  rates while merges run, refresh listeners that come and go, pending deletes of
  `FSDirectory`, tragic events outside of merges. In
  `MergeScheduler`, an error that keeps `delete_all` from enabling merges again.
* Cores that segment readers share, the query cache, `NRTCachingDirectory` and
  other directory wrappers, the lock factories, the serial merge scheduler: the
  models work on the directory itself and take one writer per directory for
  granted.
* Merge policies: sequential functions with floating-point scores.
* The far larger rest of the crate (codecs, analysis, documents, queries and
  scorers, automata, FSTs, geometry, HNSW): sequential transformations of data
  that no thread shares. The models cover the concurrent and durable core, a
  small share of all source lines.
