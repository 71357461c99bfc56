--------------------------- MODULE MergeScheduler ---------------------------
(***************************************************************************)
(* ConcurrentMergeScheduler and the merge bookkeeping of IndexWriter.      *)
(*                                                                         *)
(* Merges are registered in IndexWriter (pending), taken from there by a   *)
(* thread in the scheduler's merge loop (running) and run in a thread of   *)
(* their own, which enters the loop again when its merge has ended.  The   *)
(* loop holds the scheduler's mutex (cms) and takes the writer's for one   *)
(* step at a time; a step here is a critical section of the writer's.      *)
(* Merge m and its thread share the name m; merges are named in the order  *)
(* of registration, which is also the order of merge_threads.              *)
(***************************************************************************)
EXTENDS Naturals, Sequences, FiniteSets

CONSTANTS
  Producers,      \* application threads
  None,           \* nobody
  MaxMerges,      \* bound: merges
  MaxCalls,       \* bound: calls by the application
  MaxFaults,      \* bound: merges that fail, and threads that cannot be started
  MaxNew,         \* bound: merges one answer of the merge policy registers
  MinBig,         \* MIN_BIG_MERGE_MB: merges above this size may be paused
  Loads           \* records [threads, merges, size]: max_thread_count,
                  \* max_merge_count and estimated_merge_bytes by merge

Merges == 1..MaxMerges
Actors == Producers \cup Merges

ASSUME MergeAssumption ==
  /\ MaxMerges \in Nat /\ Producers \cap Merges = {} /\ None \notin Actors
  /\ MinBig \in Nat /\ MaxNew \in Nat
  /\ \A l \in Loads : /\ l.merges \in Nat /\ l.threads \in 1..l.merges
                      /\ l.size \in [Merges -> Nat]

VARIABLES
  pc,          \* [Actors -> control state]
  then,        \* [Producers -> what the call in the merge loop belongs to]
  cms,         \* holder of the scheduler's mutex
  threads,     \* merge_threads that are alive
  paused,      \* threads with the rate 0
  pending,     \* pending_merges
  running,     \* running_merges
  registered,  \* merges registered so far
  forced,      \* merges with max_num_segments set
  marked,      \* segments_to_merge is not empty
  current,     \* merges of the current merge_gen
  errors,      \* merge_exceptions
  aborted,     \* merges told to abort
  enabled,     \* merges_enabled
  tragedy,     \* the writer hit an unrecoverable error
  closing,     \* IndexWriter::closing
  closed,      \* IndexWriter::closed
  calls,       \* calls left to the application
  faults,      \* merges and thread starts that may still fail
  load         \* the limits and sizes of this behaviour

cmsVars == <<threads, paused>>
mergeVars == <<registered, forced, marked, current>>
closeVars == <<enabled, tragedy, closing, closed>>
bounds == <<calls, faults, load>>
vars == <<pc, then, cms, cmsVars, pending, running, mergeVars, errors, aborted,
          closeVars, bounds>>

Init ==
  /\ pc = [a \in Actors |-> IF a \in Producers THEN "idle" ELSE "none"]
  /\ then = [p \in Producers |-> "return"]
  /\ cms = None
  /\ threads = {} /\ paused = {}
  /\ pending = <<>> /\ running = {} /\ registered = 0
  /\ forced = {} /\ marked = FALSE /\ current = {} /\ errors = {} /\ aborted = {}
  /\ enabled = TRUE /\ tragedy = FALSE /\ closing = FALSE /\ closed = FALSE
  /\ calls = MaxCalls /\ faults = MaxFaults
  /\ load \in Loads

Go(a, from, to) == pc[a] = from /\ pc' = [pc EXCEPT ![a] = to]

(* A call returns; its kind is forgotten.                                  *)
Return(p, from) == Go(p, from, "idle") /\ then' = [then EXCEPT ![p] = "return"]

Pending == {pending[i] : i \in DOMAIN pending}

(* Mutant: merges that are not enabled are registered.                     *)
UpdateAlways(k, force) ==
  LET new == (registered + 1)..(registered + k) IN
  /\ ~tragedy
  /\ registered + k <= MaxMerges
  /\ forced' = IF force THEN forced \cup new ELSE forced
  /\ pending' = pending \o [i \in 1..k |-> registered + i]
  /\ registered' = registered + k
  /\ current' = current \cup new
  /\ UNCHANGED marked

(***************************************************************************)
(* update_pending_merges: k merges that the policy found and that conflict *)
(* with no registered one; force: find_forced_merges was asked.  A merge   *)
(* of marked segments is a forced one whoever asked.                       *)
(***************************************************************************)
update_pending_merges(k, force) ==
  LET new == (registered + 1)..(registered + k) IN
  /\ enabled /\ ~tragedy
  /\ registered + k <= MaxMerges
  /\ \E f \in IF force THEN {new} ELSE IF marked THEN SUBSET new ELSE {{}} :
       forced' = forced \cup f
  /\ pending' = pending \o [i \in 1..k |-> registered + i]
  /\ registered' = registered + k
  /\ current' = current \cup new
  /\ UNCHANGED marked

NothingRegistered == UNCHANGED <<mergeVars, pending>>

(***************************************************************************)
(* Calls by the application.  A call that finds the writer closed, or no   *)
(* merges to run, changes nothing and is left out.                         *)
(***************************************************************************)
Call(p, to, what) ==
  /\ calls > 0
  /\ calls' = calls - 1
  /\ Go(p, "idle", to)
  /\ then' = [then EXCEPT ![p] = what]
  /\ UNCHANGED <<cms, cmsVars, running, aborted, closeVars, faults, load>>

maybe_merge(p) ==
  /\ ~closed
  /\ Call(p, "merge", "return")
  /\ \E k \in 0..MaxNew : update_pending_merges(k, FALSE)
  /\ UNCHANGED errors

(* The flush it begins with may merge, as maybe_merge does.                *)
force_merge(p) ==
  /\ ~closed /\ ~closing
  /\ Call(p, "force", "force")
  /\ forced' = Pending \cup running
  /\ marked' = TRUE
  /\ errors' = {} /\ current' = {}
  /\ UNCHANGED <<pending, registered>>

shut_down(p) == Call(p, "shouldClose", "flush") /\ UNCHANGED <<pending, mergeVars, errors>>

rollback(p) == Call(p, "shouldClose", "rollback") /\ UNCHANGED <<pending, mergeVars, errors>>

(* It holds the full flush lock until merges are enabled again.            *)
Deleting(a) == a \in Producers /\ then[a] = "deleteAll" /\ pc[a] # "idle"

delete_all(p) ==
  /\ ~closed /\ ~closing
  /\ ~\E q \in Producers : Deleting(q)
  /\ Call(p, "abort", "deleteAll")
  /\ UNCHANGED <<pending, mergeVars, errors>>

(***************************************************************************)
(* The rest of these calls, around the merge loop.                         *)
(***************************************************************************)
find_forced_merges(p) ==
  /\ \/ /\ ~closed
        /\ Go(p, "force", "merge")
        /\ \E k \in 0..MaxNew : update_pending_merges(k, TRUE)
        /\ UNCHANGED then
     \/ ~closed /\ Go(p, "force", "forceWait") /\ UNCHANGED then /\ NothingRegistered
     \/ closed /\ Return(p, "force") /\ NothingRegistered
  /\ UNCHANGED <<cms, cmsVars, running, errors, aborted, closeVars, bounds>>

force_wait(p) ==
  /\ tragedy \/ errors \cap forced # {} \/ (Pending \cup running) \cap forced = {}
  /\ Return(p, "forceWait")
  /\ UNCHANGED <<cms, cmsVars, pending, running, mergeVars, errors, aborted,
                 closeVars, bounds>>

should_close(p) ==
  /\ \/ closed /\ Return(p, "shouldClose") /\ UNCHANGED closing
     \/ /\ ~closed /\ ~closing
        /\ Go(p, "shouldClose", IF then[p] = "flush" THEN "flush" ELSE "abort")
        /\ closing' = TRUE
        /\ UNCHANGED then
  /\ UNCHANGED <<cms, cmsVars, pending, running, mergeVars, errors, aborted,
                 enabled, tragedy, closed, bounds>>

(* The flush at close, with or without merges to run.                      *)
flush_at_close(p) ==
  /\ ~\E q \in Producers : Deleting(q)
  /\ Go(p, "flush", "merge")
  /\ \/ then' = then /\ \E k \in 0..MaxNew : update_pending_merges(k, FALSE)
     \/ then' = [then EXCEPT ![p] = "close"] /\ NothingRegistered
  /\ UNCHANGED <<cms, cmsVars, running, errors, aborted, closeVars, bounds>>

wait_for_merges(p) ==
  /\ pending = <<>> /\ running = {}
  /\ Go(p, "closeWait", "abort")
  /\ UNCHANGED <<then, cms, cmsVars, pending, running, mergeVars, errors, aborted,
                 closeVars, bounds>>

(***************************************************************************)
(* The scheduler's merge loop, entered by application threads and by merge *)
(* threads at their end.  Its mutex is held from the first test of         *)
(* maybe_stall to the end of the loop, but for a stall.  Threads that are  *)
(* not alive (they could not be started) stay in merge_threads for a while *)
(* but are skipped by all that look there; here they are not in threads.   *)
(***************************************************************************)
Big(ts) == {m \in ts : load.size[m] > MinBig}

(* The merges that sort before m: larger ones first, the sort is stable.   *)
Before(ts, m) ==
  {n \in ts : \/ load.size[n] > load.size[m]
              \/ load.size[n] = load.size[m] /\ n < m}

(* update_merge_threads pauses the largest.                                *)
update_merge_threads(ts) ==
  /\ threads' = ts
  /\ paused' = {m \in ts :
                  Cardinality(Before(ts, m)) + load.threads < Cardinality(Big(ts))}

(* Mutant: the calling thread counts.                                      *)
CountedSelf(a) == threads \ aborted

(* merge_thread_count_locked.                                              *)
Counted(a) == threads \ ({a} \cup aborted)

Behind(a) == pending # <<>> /\ Cardinality(Counted(a)) >= load.merges

(* notify_all on the scheduler's condition.                                *)
NotifyAll(a, to) ==
  pc' = [b \in Actors |-> IF b = a THEN to ELSE IF pc[b] = "syncWait" THEN "sync" ELSE pc[b]]

(* The flags of a merge are gone with its thread.                          *)
Forget(m) ==
  /\ aborted' = aborted \ {m} /\ current' = current \ {m}
  /\ forced' = forced \ ({m} \ errors)
  /\ UNCHANGED <<registered, marked>>

(* Mutant: the paused threads are not looked at again.                     *)
RemoveOnly(m) ==
  /\ NotifyAll(m, "end")
  /\ threads' = threads \ {m} /\ paused' = paused \ {m}
  /\ Forget(m)

(* remove_merge_thread, update_merge_threads and notify_all.               *)
Remove(m) ==
  /\ NotifyAll(m, "end")
  /\ update_merge_threads(threads \ {m})
  /\ Forget(m)

(* Where a call goes after the merge loop.                                 *)
AfterLoop(p, ok) ==
  CASE then[p] = "return" -> "idle"
    [] then[p] = "force"  -> IF ok THEN "forceWait" ELSE "idle"
    [] then[p] = "flush"  -> IF ok THEN "merge" ELSE "abort"
    [] then[p] = "close"  -> IF ok THEN "closeWait" ELSE "abort"

(* The loop ends: a call goes on, a merge thread runs the rest of          *)
(* run_on_merge_finished before it lets go of the mutex.                   *)
Leave(a, ok) ==
  /\ cms' = None
  /\ \/ /\ a \in Producers
        /\ pc' = [pc EXCEPT ![a] = AfterLoop(a, ok)]
        /\ then' = [then EXCEPT ![a] = IF AfterLoop(a, ok) = "idle" THEN "return"
                                       ELSE IF @ = "flush" THEN "close" ELSE @]
        /\ UNCHANGED <<cmsVars, mergeVars, aborted>>
     \/ a \in Merges /\ Remove(a) /\ UNCHANGED then

(* A producer that stalls lets go of the mutex and tests again when it is  *)
(* notified or its wait times out; a test that fails again is no step.     *)
maybe_stall(a) ==
  /\ pc[a] = "check" \/ (pc[a] = "merge" /\ cms = None)
  /\ \/ tragedy /\ Leave(a, FALSE)
     \/ ~tragedy /\ Behind(a) /\ a \in Merges /\ Leave(a, TRUE)
     \/ /\ ~tragedy /\ Behind(a) /\ a \in Producers
        /\ Go(a, "check", "merge") /\ cms' = None
        /\ UNCHANGED <<then, cmsVars, mergeVars, aborted>>
     \/ /\ ~tragedy /\ ~Behind(a)
        /\ Go(a, pc[a], "next") /\ cms' = a
        /\ UNCHANGED <<then, cmsVars, mergeVars, aborted>>
  /\ UNCHANGED <<pending, running, errors, closeVars, bounds>>

(* get_next_merge finds nothing.                                           *)
no_next_merge(a) ==
  /\ pc[a] = "next"
  /\ tragedy \/ pending = <<>>
  /\ Leave(a, ~tragedy)
  /\ UNCHANGED <<pending, running, errors, closeVars, bounds>>

(* get_next_merge and the start of its thread.                             *)
start(a) ==
  LET m == Head(pending) IN
  /\ pc[a] = "next" /\ ~tragedy /\ pending # <<>>
  /\ pending' = Tail(pending)
  /\ running' = running \cup {m}
  /\ update_merge_threads(threads \cup {m})
  /\ pc' = [pc EXCEPT ![a] = "check", ![m] = "run"]
  /\ UNCHANGED <<then, cms, mergeVars, errors, aborted, closeVars, bounds>>

(* The thread cannot be started: on_merge_finished, and an error.          *)
start_fails(a) ==
  /\ pc[a] = "next" /\ ~tragedy /\ pending # <<>>
  /\ faults > 0 /\ faults' = faults - 1
  /\ pending' = Tail(pending)
  /\ Leave(a, FALSE)
  /\ UNCHANGED <<running, errors, closeVars, calls, load>>

(***************************************************************************)
(* IndexWriter::merge, in its thread.                                      *)
(***************************************************************************)
(* The merge succeeds; forced ones go on merging while the writer closes.  *)
merge_succeeds(m) ==
  /\ Go(m, "run", "merge")
  /\ running' = running \ {m}
  /\ IF m \notin aborted /\ enabled /\ ~tragedy /\ (m \in forced \/ (~closed /\ ~closing))
       THEN \E k \in 0..MaxNew : update_pending_merges(k, m \in forced)
       ELSE NothingRegistered
  /\ UNCHANGED <<then, cms, cmsVars, errors, aborted, closeVars, bounds>>

(* handle_merge_exception and merge_finish: the merge saw that it is       *)
(* aborted, or failed.                                                     *)
merge_error(m) ==
  /\ \/ m \in aborted /\ Go(m, "run", "merge") /\ UNCHANGED faults
     \/ faults > 0 /\ faults' = faults - 1 /\ Go(m, "run", "failed")
  /\ errors' = errors \cup ({m} \cap current)
  /\ running' = running \ {m}
  /\ UNCHANGED <<then, cms, cmsVars, pending, mergeVars, aborted, closeVars, calls, load>>

(* After a failure; with maybe_close_on_tragic_event, which does not wait. *)
tragic_event(m) ==
  /\ tragedy' = TRUE
  /\ Go(m, "failed", IF closed \/ closing THEN "clean" ELSE "abort")
  /\ closing' = (closing \/ ~closed)
  /\ UNCHANGED <<then, cms, cmsVars, pending, running, mergeVars, errors, aborted,
                 enabled, closed, bounds>>

(* Mutant: the thread waiting in sync is not notified.                     *)
run_merge_failed_silently(m) ==
  /\ Go(m, "clean", "end") /\ cms = None
  /\ update_merge_threads(threads \ {m})
  /\ Forget(m)
  /\ UNCHANGED <<then, cms, pending, running, errors, closeVars, bounds>>

(* The end of run_merge after a failure.                                   *)
run_merge_failed(m) ==
  /\ pc[m] = "clean" /\ cms = None
  /\ Remove(m)
  /\ UNCHANGED <<then, cms, pending, running, errors, closeVars, bounds>>

(***************************************************************************)
(* abort_merges, by rollback_internal or delete_all, and the close of the  *)
(* scheduler.  A thread whose merge failed may be the one that closes.     *)
(***************************************************************************)
abort_merges(a) ==
  /\ Go(a, "abort", "aborting")
  /\ enabled' = FALSE
  /\ pending' = <<>>
  /\ aborted' = aborted \cup Pending \cup running
  /\ UNCHANGED <<then, cms, cmsVars, running, mergeVars, errors, tragedy, closing,
                 closed, bounds>>

merges_aborted(a) ==
  /\ running = {}
  /\ ~Deleting(a)
  /\ Go(a, "aborting", "sync")
  /\ UNCHANGED <<then, cms, cmsVars, pending, running, mergeVars, errors, aborted,
                 closeVars, bounds>>

(* Merges::enable, at the end of delete_all.                               *)
enable(p) ==
  /\ running = {}
  /\ Deleting(p)
  /\ Return(p, "aborting")
  /\ enabled' = (enabled \/ (~closed /\ ~closing))
  /\ UNCHANGED <<cms, cmsVars, pending, running, mergeVars, errors, aborted,
                 tragedy, closing, closed, bounds>>

(* The wait has no timeout: syncWait ends with a notification only.        *)
sync(a) ==
  /\ cms = None
  /\ Go(a, "sync", IF threads \ {a} = {} THEN "close" ELSE "syncWait")
  /\ UNCHANGED <<then, cms, cmsVars, pending, running, mergeVars, errors, aborted,
                 closeVars, bounds>>

(* The rest of rollback_internal.                                          *)
cleanup_and_notify(a) ==
  /\ \/ a \in Producers /\ Return(a, "close")
     \/ a \in Merges /\ Go(a, "close", "clean") /\ UNCHANGED then
  /\ closed' = TRUE /\ closing' = FALSE
  /\ UNCHANGED <<cms, cmsVars, pending, running, mergeVars, errors, aborted,
                 enabled, tragedy, bounds>>

(***************************************************************************)
(* Next and fairness.  A call, a failure of a merge and a failing start    *)
(* need never happen; every thread goes on, and a merge that is not paused *)
(* ends, as does one told to abort, which looks at that flag as it writes. *)
(***************************************************************************)
Calls(p) ==
  \/ maybe_merge(p) \/ force_merge(p) \/ shut_down(p) \/ rollback(p) \/ delete_all(p)

CallSteps(p) ==
  \/ find_forced_merges(p) \/ force_wait(p) \/ should_close(p) \/ flush_at_close(p)
  \/ wait_for_merges(p) \/ enable(p)

MergeSteps(m) ==
  tragic_event(m) \/ run_merge_failed(m)

LoopSteps(a) ==
  maybe_stall(a) \/ no_next_merge(a) \/ start(a)

AbortSteps(a) ==
  abort_merges(a) \/ merges_aborted(a) \/ sync(a) \/ cleanup_and_notify(a)

Next ==
  \/ \E p \in Producers : Calls(p) \/ CallSteps(p)
  \/ \E m \in Merges : MergeSteps(m) \/ merge_succeeds(m) \/ merge_error(m)
  \/ \E a \in Actors : LoopSteps(a) \/ start_fails(a) \/ AbortSteps(a)

MergeEnds(m) ==
  (m \notin paused \/ m \in aborted) /\ (merge_succeeds(m) \/ merge_error(m))

Fairness ==
  /\ \A p \in Producers : WF_vars(CallSteps(p) \/ LoopSteps(p) \/ AbortSteps(p))
  /\ \A m \in Merges : /\ WF_vars(MergeSteps(m) \/ LoopSteps(m) \/ AbortSteps(m))
                       /\ WF_vars(MergeEnds(m))

Spec == Init /\ [][Next]_vars /\ Fairness

(***************************************************************************)
(* Properties.                                                             *)
(***************************************************************************)
(* Merges are pending and no thread is left to start them, after the       *)
(* writer failed or a thread could not be started.                         *)
Stranded == pending # <<>> /\ threads = {} /\ faults < MaxFaults

(* Every merge that is registered leaves the pending queue, to run or to   *)
(* be aborted: no thread that leaves the merge loop because merging is     *)
(* behind, or stalls there, leaves a merge that nobody comes back for.     *)
PendingMergesRun ==
  \A m \in Merges : [](m \in Pending => <>(m \notin Pending \/ []Stranded))

(* Every call returns: a stalled producer, a forced merge, a close waiting *)
(* for merges, an abort and the untimed wait of the scheduler's close all  *)
(* end, also when a merge fails or its thread cannot be started, except    *)
(* when that leaves pending merges to nobody for ever.                     *)
CallsReturn ==
  \A p \in Producers : [](pc[p] # "idle" => <>(pc[p] = "idle" \/ []Stranded))

(* While the scheduler's mutex is free at most max_thread_count big merges *)
(* are not paused, and one is paused only for max_thread_count others that *)
(* are big, no larger, and not paused.                                     *)
PausedForSmaller ==
  cms = None =>
    /\ Cardinality(Big(threads \ paused)) <= load.threads
    /\ \A m \in paused :
         /\ m \in Big(threads)
         /\ Cardinality({n \in Big(threads \ paused) : load.size[n] <= load.size[m]})
              = load.threads

(* Once the writer is closed no merge is pending or running, and no thread *)
(* works on one: delete_all, a close and merge threads that end together   *)
(* leave nothing that could still write to the index.                      *)
ClosedIsQuiet ==
  closed => /\ pending = <<>> /\ running = {}
            /\ \A m \in Merges : pc[m] \notin {"run", "failed"}
=============================================================================
