-------------------------- MODULE SearcherManagers --------------------------
(***************************************************************************)
(* ReferenceManager (as SearcherManager uses it) and                       *)
(* SearcherLifetimeManager over the same readers, each with its reference  *)
(* count.  Threads acquire, use and release searchers, refresh and close   *)
(* the manager, record a searcher for later and prune what was recorded.   *)
(* Reader r is the r-th that was opened; 0 is no reader.                   *)
(***************************************************************************)
EXTENDS Naturals, FiniteSets

CONSTANTS
  Threads,     \* threads of the application
  None,        \* nobody
  MaxReaders,  \* bound: readers opened
  MaxIndex,    \* bound: changes of the index
  MaxFaults    \* bound: refreshes, listeners and closes of readers that fail

ASSUME ManagerAssumption ==
  /\ IsFiniteSet(Threads) /\ None \notin Threads
  /\ MaxReaders \in Nat \ {0} /\ MaxIndex \in Nat /\ MaxFaults \in Nat

Readers == 1..MaxReaders

VARIABLES
  index,       \* version of the index
  count,       \* [Readers -> ref_count]
  version,     \* [Readers -> version of the index it shows]
  opened,      \* readers opened so far
  current,     \* the manager's reference
  refreshLock, referenceLock, operationLock,  \* holders of the locks
  tracked,     \* readers in the lifetime manager's searchers
  lifeClosed,  \* the lifetime manager is closed
  pc,          \* [Threads -> control state]
  goal,        \* [Threads -> "use" or "refresh": what the acquire is for]
  ref,         \* [Threads -> the reader at hand]
  new,         \* [Threads -> the reader a refresh opened]
  old,         \* [Threads -> the reader taken from current, to be released]
  todo,        \* [Threads -> trackers to close]
  held,        \* [Threads -> the searcher the application uses]
  since,       \* [Threads -> version of the index when it asked for a refresh]
  fresh,       \* [Threads -> version that its refreshes promise]
  faults       \* failures that may still happen

locks == <<refreshLock, referenceLock, operationLock>>
readers == <<index, version, opened>>
lifetime == <<tracked, lifeClosed, todo>>
refresh == <<new, old, since, fresh>>
vars == <<readers, count, current, locks, lifetime, pc, goal, ref, refresh, held, faults>>

Init ==
  /\ index = 0 /\ opened = 1 /\ current = 1
  /\ count = [r \in Readers |-> IF r = 1 THEN 1 ELSE 0]
  /\ version = [r \in Readers |-> 0]
  /\ refreshLock = None /\ referenceLock = None /\ operationLock = None
  /\ tracked = {} /\ lifeClosed = FALSE /\ todo = [t \in Threads |-> {}]
  /\ pc = [t \in Threads |-> "idle"]
  /\ goal = [t \in Threads |-> "use"]
  /\ ref = [t \in Threads |-> 0] /\ new = [t \in Threads |-> 0]
  /\ old = [t \in Threads |-> 0]
  /\ held = [t \in Threads |-> 0]
  /\ since = [t \in Threads |-> 0] /\ fresh = [t \in Threads |-> 0]
  /\ faults = MaxFaults

Go(t, from, to) == pc[t] = from /\ pc' = [pc EXCEPT ![t] = to]
Set(f, t, v) == [f EXCEPT ![t] = v]

(* try_inc_ref: a reader whose count is 0 stays closed.                    *)
IncRef(r) == count[r] > 0 /\ count' = Set(count, r, count[r] + 1)

(* dec_ref: the one that reaches 0 closes the reader, which may fail.      *)
DecRef(r) == count[r] > 0 /\ count' = Set(count, r, count[r] - 1)
Closes(r) == count[r] = 1
Fail == faults > 0 /\ faults' = faults - 1

(* External: a writer changes the index.                                   *)
IndexChanges ==
  /\ index < MaxIndex /\ index' = index + 1
  /\ UNCHANGED <<version, opened, count, current, locks, lifetime, pc, goal, ref, refresh,
                 held, faults>>

(***************************************************************************)
(* ReferenceManager::acquire, for the application or for a refresh.        *)
(***************************************************************************)
acquire(t) ==
  /\ held[t] = 0 /\ current # 0
  /\ Go(t, "idle", "read")
  /\ goal' = Set(goal, t, "use")
  /\ UNCHANGED <<readers, count, current, locks, lifetime, ref, refresh, held, faults>>

(* A closed manager ends the acquire, and with it the refresh.             *)
read_current(t) ==
  /\ Go(t, "read", IF current = 0 THEN "idle" ELSE "inc")
  /\ ref' = Set(ref, t, current)
  /\ goal' = IF current = 0 THEN Set(goal, t, "use") ELSE goal
  /\ refreshLock' = IF current = 0 /\ goal[t] = "refresh" THEN None ELSE refreshLock
  /\ UNCHANGED <<readers, count, current, referenceLock, operationLock, lifetime, refresh,
                 held, faults>>

try_inc_ref(t) ==
  /\ pc[t] = "inc"
  /\ \/ /\ IncRef(ref[t])
        /\ \/ /\ goal[t] = "use" /\ Go(t, "inc", "idle")
              /\ held' = Set(held, t, ref[t]) /\ ref' = Set(ref, t, 0)
           \/ goal[t] = "refresh" /\ Go(t, "inc", "before") /\ UNCHANGED <<held, ref>>
     \/ count[ref[t]] = 0 /\ Go(t, "inc", "recheck") /\ UNCHANGED <<count, held, ref>>
  /\ UNCHANGED <<readers, current, locks, lifetime, goal, refresh, faults>>

(* The count is 0: try the next one, unless this one is current still.     *)
recheck(t) ==
  /\ Go(t, "recheck", IF current = ref[t] THEN "illegal" ELSE "read")
  /\ UNCHANGED <<readers, count, current, locks, lifetime, goal, ref, refresh, held, faults>>

release(t) ==
  /\ pc[t] = "idle" /\ held[t] # 0
  /\ DecRef(held[t])
  /\ held' = Set(held, t, 0)
  /\ UNCHANGED <<readers, current, locks, lifetime, pc, goal, ref, refresh, faults>>

(***************************************************************************)
(* Refreshes.  maybe_refresh gives up when another thread refreshes.       *)
(***************************************************************************)
maybe_refresh(t) ==
  /\ current # 0 /\ refreshLock = None
  /\ Go(t, "idle", "read")
  /\ refreshLock' = t
  /\ goal' = Set(goal, t, "refresh") /\ since' = Set(since, t, index)
  /\ UNCHANGED <<readers, count, current, referenceLock, operationLock, lifetime, ref, new,
                 old, fresh, held, faults>>

maybe_refresh_blocking(t) ==
  /\ current # 0
  /\ Go(t, "idle", "lock")
  /\ goal' = Set(goal, t, "refresh") /\ since' = Set(since, t, index)
  /\ UNCHANGED <<readers, count, current, locks, lifetime, ref, new, old, fresh, held, faults>>

(* Mutant: it does not wait for the refresh of another thread.             *)
LockOrGiveUp(t) ==
  /\ \/ /\ refreshLock = None /\ refreshLock' = t
        /\ Go(t, "lock", "read") /\ UNCHANGED fresh
     \/ /\ refreshLock # None /\ UNCHANGED refreshLock
        /\ Go(t, "lock", "idle") /\ fresh' = Set(fresh, t, since[t])
  /\ UNCHANGED <<readers, count, current, referenceLock, operationLock, lifetime, goal, ref,
                 new, old, since, held, faults>>

lock_refresh(t) ==
  /\ refreshLock = None /\ refreshLock' = t
  /\ Go(t, "lock", "read")
  /\ UNCHANGED <<readers, count, current, referenceLock, operationLock, lifetime, goal, ref,
                 refresh, held, faults>>

(* notify_refresh_listeners_before.                                        *)
before_refresh(t) ==
  /\ \/ Go(t, "before", "open") /\ UNCHANGED faults
     \/ Go(t, "before", "failed") /\ Fail
  /\ UNCHANGED <<readers, count, current, locks, lifetime, goal, ref, refresh, held>>

(* With the factory, whose failure closes the reader again.                *)
refresh_if_needed(t) ==
  /\ pc[t] = "open"
  /\ \/ /\ index = version[ref[t]] /\ Go(t, "open", "unchanged")
        /\ UNCHANGED <<count, version, opened, new, faults>>
     \/ /\ index # version[ref[t]] /\ opened < MaxReaders /\ Go(t, "open", "swap")
        /\ opened' = opened + 1 /\ new' = Set(new, t, opened')
        /\ count' = Set(count, opened', 1) /\ version' = Set(version, opened', index)
        /\ UNCHANGED faults
     \/ Go(t, "open", "failed") /\ Fail /\ UNCHANGED <<count, version, opened, new>>
  /\ UNCHANGED <<index, current, locks, lifetime, goal, ref, old, since, fresh, held>>

(* Mutant: the new reader is not released when the manager was closed.     *)
SwapLeaks(t) ==
  /\ referenceLock = None
  /\ \/ /\ current = 0 /\ Go(t, "swap", "failed")
        /\ UNCHANGED <<count, current, old, referenceLock>>
     \/ /\ current # 0 /\ Go(t, "swap", "swapped")
        /\ old' = Set(old, t, current) /\ current' = new[t] /\ referenceLock' = t
        /\ UNCHANGED count
  /\ UNCHANGED <<readers, refreshLock, operationLock, lifetime, goal, ref, new, since, fresh,
                 held, faults>>

(* swap_reference assigns the new reader, if the manager is open.          *)
swap_reference(t) ==
  /\ referenceLock = None
  /\ \/ /\ current = 0 /\ Go(t, "swap", "failed")
        /\ DecRef(new[t])
        /\ UNCHANGED <<current, old, referenceLock>>
     \/ /\ current # 0 /\ Go(t, "swap", "swapped")
        /\ old' = Set(old, t, current) /\ current' = new[t] /\ referenceLock' = t
        /\ UNCHANGED count
  /\ UNCHANGED <<readers, refreshLock, operationLock, lifetime, goal, ref, new, since, fresh,
                 held, faults>>

(* The rest of swap_reference.  Were the old reader to close here and that *)
(* to fail, the new one would be released although it is current.          *)
release_old(t) ==
  /\ pc[t] = "swapped"
  /\ \E failed \in {f \in 0..1 : f = 1 => Closes(old[t]) /\ faults > 0} :
       /\ Go(t, "swapped", IF failed = 1 THEN "failed" ELSE "refreshed")
       /\ count' = [count EXCEPT ![old[t]] = @ - 1, ![new[t]] = @ - failed]
       /\ faults' = faults - failed
  /\ old' = Set(old, t, 0)
  /\ referenceLock' = None
  /\ UNCHANGED <<readers, current, refreshLock, operationLock, lifetime, goal, ref, new,
                 since, fresh, held>>

(* Mutant: the reader that the refresh opened is released.                 *)
FinishReleasesNew(t) ==
  /\ pc[t] \in {"unchanged", "refreshed", "failed"}
  /\ DecRef(IF pc[t] = "refreshed" THEN new[t] ELSE ref[t])
  /\ \/ pc[t] # "failed" /\ fresh' = Set(fresh, t, since[t]) /\ UNCHANGED faults
     \/ pc[t] = "failed" /\ UNCHANGED <<fresh, faults>>
     \/ Fail /\ UNCHANGED fresh
  /\ pc' = Set(pc, t, "idle") /\ goal' = Set(goal, t, "use")
  /\ ref' = Set(ref, t, 0) /\ new' = Set(new, t, 0) /\ since' = Set(since, t, 0)
  /\ refreshLock' = None
  /\ UNCHANGED <<readers, current, referenceLock, operationLock, lifetime, old, held>>

(* Release of the reader the refresh worked on, after_refresh (each may    *)
(* fail) and the end.                                                      *)
(* A refresh that did not fail promises what the index was when it began.  *)
finish_refresh(t) ==
  /\ pc[t] \in {"unchanged", "refreshed", "failed"}
  /\ DecRef(ref[t])
  /\ \/ pc[t] # "failed" /\ fresh' = Set(fresh, t, since[t]) /\ UNCHANGED faults
     \/ pc[t] = "failed" /\ UNCHANGED <<fresh, faults>>
     \/ Fail /\ UNCHANGED fresh
  /\ pc' = Set(pc, t, "idle") /\ goal' = Set(goal, t, "use")
  /\ ref' = Set(ref, t, 0) /\ new' = Set(new, t, 0) /\ since' = Set(since, t, 0)
  /\ refreshLock' = None
  /\ UNCHANGED <<readers, current, referenceLock, operationLock, lifetime, old, held>>

(* ReferenceManager::close, and the release under its lock.                *)
close(t) ==
  /\ referenceLock = None /\ current # 0
  /\ Go(t, "idle", "closing")
  /\ referenceLock' = t
  /\ old' = Set(old, t, current) /\ current' = 0
  /\ UNCHANGED <<readers, count, refreshLock, operationLock, lifetime, goal, ref, new, since,
                 fresh, held, faults>>

close_release(t) ==
  /\ Go(t, "closing", "idle")
  /\ DecRef(old[t]) /\ old' = Set(old, t, 0)
  /\ referenceLock' = None
  /\ UNCHANGED <<readers, current, refreshLock, operationLock, lifetime, goal, ref, new,
                 since, fresh, held, faults>>

(***************************************************************************)
(* SearcherLifetimeManager.  Versions are those of readers: a reader is    *)
(* found by its name.                                                      *)
(***************************************************************************)
Recording(t) == pc[t] \in {"track", "insert", "undo"}

(* record looks for the reader's version first.                            *)
record(t) ==
  /\ ~lifeClosed /\ held[t] # 0 /\ held[t] \notin tracked
  /\ Go(t, "idle", "track")
  /\ UNCHANGED <<readers, count, current, locks, lifetime, goal, ref, refresh, held, faults>>

(* SearcherTracker::new.                                                   *)
track(t) ==
  /\ Go(t, "track", "insert")
  /\ IncRef(held[t])
  /\ UNCHANGED <<readers, current, locks, lifetime, goal, ref, refresh, held, faults>>

insert(t) ==
  /\ Go(t, "insert", IF held[t] \in tracked THEN "undo" ELSE "idle")
  /\ tracked' = tracked \cup {held[t]}
  /\ UNCHANGED <<readers, count, current, locks, lifeClosed, todo, goal, ref, refresh, held,
                 faults>>

(* Another thread beat it.                                                 *)
undo(t) ==
  /\ Go(t, "undo", "idle")
  /\ DecRef(held[t])
  /\ UNCHANGED <<readers, current, locks, lifetime, goal, ref, refresh, held, faults>>

lifetime_acquire(t) ==
  /\ ~lifeClosed /\ held[t] = 0
  /\ \E r \in tracked : ref' = Set(ref, t, r)
  /\ Go(t, "idle", "find")
  /\ UNCHANGED <<readers, count, current, locks, lifetime, goal, refresh, held, faults>>

found(t) ==
  /\ Go(t, "find", "idle")
  /\ \/ IncRef(ref[t]) /\ held' = Set(held, t, ref[t])
     \/ count[ref[t]] = 0 /\ UNCHANGED <<count, held>>
  /\ ref' = Set(ref, t, 0)
  /\ UNCHANGED <<readers, current, locks, lifetime, goal, refresh, faults>>

(* prune: the pruner chooses trackers; each is removed and closed.         *)
prune(t) ==
  /\ operationLock = None
  /\ Go(t, "idle", "prune")
  /\ \E rs \in SUBSET tracked \ {{}} : todo' = Set(todo, t, rs)
  /\ operationLock' = t
  /\ UNCHANGED <<readers, count, current, refreshLock, referenceLock, tracked, lifeClosed,
                 goal, ref, refresh, held, faults>>

prune_remove(t) ==
  /\ \E r \in todo[t] :
       /\ ref' = Set(ref, t, r)
       /\ todo' = Set(todo, t, todo[t] \ {r})
       /\ tracked' = tracked \ {r}
  /\ Go(t, "prune", "pruned")
  /\ UNCHANGED <<readers, count, current, locks, lifeClosed, goal, refresh, held, faults>>

(* A tracker that fails to close ends it.                                  *)
prune_close(t) ==
  /\ pc[t] = "pruned"
  /\ DecRef(ref[t]) /\ ref' = Set(ref, t, 0)
  /\ \/ /\ todo[t] # {} /\ Go(t, "pruned", "prune")
        /\ UNCHANGED <<todo, operationLock, faults>>
     \/ /\ todo[t] = {} /\ Go(t, "pruned", "idle")
        /\ operationLock' = None /\ UNCHANGED <<todo, faults>>
     \/ /\ Closes(ref[t]) /\ Fail /\ Go(t, "pruned", "idle")
        /\ operationLock' = None /\ todo' = Set(todo, t, {})
  /\ UNCHANGED <<readers, current, refreshLock, referenceLock, tracked, lifeClosed, goal,
                 refresh, held>>

(* Its documentation asks that nobody records meanwhile.                   *)
lifetime_close(t) ==
  /\ operationLock = None
  /\ ~\E u \in Threads : Recording(u)
  /\ Go(t, "idle", "closeAll")
  /\ lifeClosed' = TRUE
  /\ todo' = Set(todo, t, tracked) /\ tracked' = {}
  /\ operationLock' = t
  /\ UNCHANGED <<readers, count, current, refreshLock, referenceLock, goal, ref, refresh, held,
                 faults>>

(* All are closed, also after one fails.                                   *)
close_all(t) ==
  /\ \/ \E r \in todo[t] :
          /\ pc[t] = "closeAll"
          /\ DecRef(r) /\ todo' = Set(todo, t, todo[t] \ {r})
          /\ UNCHANGED <<pc, operationLock>>
     \/ /\ todo[t] = {} /\ Go(t, "closeAll", "idle")
        /\ operationLock' = None /\ UNCHANGED <<count, todo>>
  /\ UNCHANGED <<readers, current, refreshLock, referenceLock, tracked, lifeClosed, goal, ref,
                 refresh, held, faults>>

(***************************************************************************)
(* The system.                                                             *)
(***************************************************************************)
Next ==
  \/ IndexChanges
  \/ \E t \in Threads :
       \/ acquire(t) \/ read_current(t) \/ try_inc_ref(t) \/ recheck(t) \/ release(t)
       \/ maybe_refresh(t) \/ maybe_refresh_blocking(t) \/ lock_refresh(t)
       \/ before_refresh(t) \/ refresh_if_needed(t) \/ swap_reference(t) \/ release_old(t)
       \/ finish_refresh(t) \/ close(t) \/ close_release(t)
       \/ record(t) \/ track(t) \/ insert(t) \/ undo(t) \/ lifetime_acquire(t) \/ found(t)
       \/ prune(t) \/ prune_remove(t) \/ prune_close(t) \/ lifetime_close(t) \/ close_all(t)

Spec == Init /\ [][Next]_vars

(***************************************************************************)
(* Properties.                                                             *)
(***************************************************************************)
(* Who may own counts: the two managers and, in several roles, a thread.   *)
Roles == {"manager", "lifetime", "held", "refreshing", "new", "old", "tracker", "closing"}
Slots == Threads \cup {None}

(* Thread u, or for a manager None, owns a count of reader r in role k.    *)
Owns(k, u, r) ==
  \/ u = None /\ \/ k = "manager" /\ current = r
                 \/ k = "lifetime" /\ r \in tracked
  \/ u \in Threads /\ \/ k = "held" /\ held[u] = r
                      \/ /\ k = "refreshing" /\ ref[u] = r
                         /\ pc[u] \in {"before", "open", "unchanged", "swap", "swapped",
                                       "refreshed", "failed", "pruned"}
                      \/ k = "new" /\ new[u] = r /\ pc[u] = "swap"
                      \/ k = "old" /\ old[u] = r
                      \/ k = "tracker" /\ held[u] = r /\ pc[u] \in {"insert", "undo"}
                      \/ k = "closing" /\ r \in todo[u] /\ pc[u] = "closeAll"

Owners(r) == {o \in Roles \X Slots : Owns(o[1], o[2], r)}

(* The reference count of a reader is the number of its owners: what a     *)
(* thread uses, or the manager hands out, is never closed, and a reader    *)
(* that nobody owns any more is closed, whatever raced or failed.          *)
RefCountsExact == \A r \in Readers : count[r] = Cardinality(Owners(r))

(* acquire never finds the current reader closed, which the code takes for *)
(* a count changed by somebody else: not even a reader that fails to close *)
(* as a refresh swaps it gets it there.                                    *)
AcquireNeverStuck == \A t \in Threads : pc[t] # "illegal"

(* After a refresh of its own that did not fail, maybe_refresh or          *)
(* maybe_refresh_blocking, a thread acquires a searcher no older than the  *)
(* index was when it asked for the refresh.                                *)
RefreshedIsSeen ==
  [][\A t \in Threads :
       pc[t] = "inc" /\ held'[t] # held[t] => version[held'[t]] >= fresh[t]]_vars

=============================================================================
