----------------------------- MODULE FreeCache -----------------------------
(***************************************************************************)
(* installd's freeCache (src/installd/InstalldNativeService.cpp), with     *)
(* CacheTracker.cpp and CacheItem.cpp: space is regained by deleting cache *)
(* files of the apps that are most over their quota, oldest first.         *)
(*                                                                         *)
(* A call holds mLock, so installd does nothing else meanwhile, but apps   *)
(* run on: they write new files, and hold hard links to old ones.  What    *)
(* lies in the cache directories is a forest of entries.  An entry has a   *)
(* size in blocks, 0 once it is truncated.  A group is a directory that is *)
(* deleted as one item, a tomb one whose files are truncated, not deleted. *)
(***************************************************************************)
EXTENDS Integers, FiniteSets, FiniteSetsExt

CONSTANTS
  DataPaths,      \* the data directories of apps
  Owner,          \* per data path: [user, app, media], media: on shared storage
  Entries,        \* what is, or will be, beneath a cache directory
  In,             \* the directory an entry is in, or its data path
  Directories, Groups, Tombs,   \* which entries are directories, and marked
  Rewritten,      \* bound: the entries apps write during a call
  Blocks,         \* the size of an entry when it is written
  Scenes,         \* what may be found: [missing, stamp, linked, stuck]
  Quotas,         \* mCacheQuotas: per uid, 0 when there is none
  DefaultQuota,   \* the quota assumed then
  QuotaStats,     \* what the file system's quota may say of an app's cache
  Calls,          \* arguments: [target, reserved, flags]
  DiskFree,       \* free space when the call is made
  None

ForestAssumption ==
  /\ Tombs \subseteq Directories /\ Groups \subseteq Directories
  /\ Directories \subseteq Entries
  /\ In \in [Entries -> Directories \cup DataPaths]
SizesAssumption ==
  /\ Blocks \in [Entries -> Nat] /\ DiskFree \in Nat /\ DefaultQuota \in Nat \ {0}

VARIABLES
  pc,          \* "idle", "create", "populate", "bounce" or "done"
  call,        \* the arguments
  present,     \* the entries that exist
  size,        \* their sizes
  stamp,       \* their modification times
  linked,      \* files with a second hard link elsewhere
  stuck,       \* entries that cannot be removed
  free,        \* free space
  trackers,    \* the uids with a tracker
  used,        \* cacheUsed per uid
  items,       \* the items of a tracker
  loaded,      \* the trackers with mItemsLoaded
  queue, active, needed, cleared, cacheTotal,   \* the variables of that name
  result,
  late,        \* history: entries written after their tracker was loaded
  uncounted    \* history: space regained from those

disk == <<present, size, free>>
scene == <<call, stamp, linked, stuck>>
tallies == <<used, items, loaded, queue, active, needed, cleared, cacheTotal>>
history == <<late, uncounted>>
vars == <<pc, disk, scene, trackers, tallies, result, history>>

Above[e \in Entries] ==
  IF In[e] \in Entries THEN {In[e]} \cup Above[In[e]] ELSE {}
PathOf[e \in Entries] == IF In[e] \in Entries THEN PathOf[In[e]] ELSE In[e]
Level(e) == Cardinality(Above[e]) + 1

(* The entries that exist in the tree of e, itself included.               *)
Below(e) == {x \in present : x = e \/ e \in Above[x]}
Size(S) == MapThenSumSet(LAMBDA e : size[e], S)

(* The uid a data directory is accounted to.  On shared storage it is made *)
(* from the group, whose user is dropped.                                  *)
TrackerUid(p) ==
  IF Owner[p].media THEN <<0, Owner[p].app>> ELSE <<Owner[p].user, Owner[p].app>>

Uids == {TrackerUid(p) : p \in DataPaths}
Cached(u) == {e \in present : TrackerUid(PathOf[e]) = u}

Init ==
  /\ pc = "idle" /\ call \in Calls
  /\ \E scene_ \in Scenes :
       /\ present = Entries \ scene_.missing /\ stamp = scene_.stamp
       /\ linked = scene_.linked /\ stuck = scene_.stuck
  /\ size = Blocks /\ free = DiskFree
  /\ trackers = {} /\ loaded = {} /\ queue = {} /\ active = None
  /\ used = [u \in Uids |-> 0] /\ items = [u \in Uids |-> {}]
  /\ needed = 0 /\ cleared = 0 /\ cacheTotal = 0
  /\ result = "none" /\ late = {} /\ uncounted = 0

----------------------------------------------------------------------------
(* CacheTracker and CacheItem *)

(* cacheQuota after the default has been put in.                           *)
CacheQuota(u) == IF Quotas[u] = 0 THEN DefaultQuota ELSE Quotas[u]

(* getCacheRatio(): the division truncates towards zero.                   *)
Ratio(u) ==
  IF used[u] >= 0
    THEN (used[u] * 10000) \div CacheQuota(u)
    ELSE -((-used[u] * 10000) \div CacheQuota(u))

(* loadItemsFrom: everything is an item but what a group swallows.         *)
Listed(u) == {e \in Cached(u) : Above[e] \cap Groups = {}}

(* A directory is as new as the newest entry beneath it.                   *)
Modified(e) == Max({stamp[x] : x \in Below(e)})

CacheItem(e) ==
  [entry |-> e,
   size |-> IF e \in Groups THEN Size(Below(e)) ELSE size[e],
   modified |-> Modified(e),
   tombstone |-> ({e} \cup Above[e]) \cap Tombs # {}]

(* Mutant: the level plays no part.                                        *)
ByTimeOnly(x, y) == x.modified > y.modified

(* The comparison of loadItems: x goes before y, and is purged after it.   *)
Before(x, y) ==
  \/ x.modified > y.modified
  \/ /\ x.modified = y.modified
     /\ \/ Level(x.entry) < Level(y.entry)
        \/ /\ Level(x.entry) = Level(y.entry)
           /\ x.entry \in Directories /\ y.entry \notin Directories

loadItems(u) == {CacheItem(e) : e \in Listed(u)}

(* The last item of the sorted list.  fts visits a directory in any order, *)
(* so among equals it is any.                                              *)
IsLast(item, u) == item \in items[u] /\ \A x \in items[u] : ~Before(item, x)

(* Mutant of FtsNumber: marks further down are not looked at.              *)
MarkOfItem(item, d) == item.tombstone

(* purge(): of a directory, files whose directory or one of its parents is *)
(* a tomb are truncated, the rest is unlinked, and what became empty is    *)
(* removed; failures are passed over.                                      *)
FtsNumber(item, d) ==
  item.tombstone \/ (({d} \cup Above[d]) \cap Below(item.entry) \cap Tombs) # {}

Truncates(item) ==
  {x \in Below(item.entry) \ (Directories \cup stuck) :
     IF x = item.entry THEN item.tombstone ELSE FtsNumber(item, In[x])}

Unlinks(item) ==
  Below(item.entry) \ (Directories \cup stuck \cup Truncates(item))

RemovesDirs(item) ==
  {d \in Below(item.entry) \cap Directories :
     \A x \in Below(d) \ Directories : x \in Unlinks(item)}

Released(item) == Truncates(item) \cup (Unlinks(item) \ linked) \cup RemovesDirs(item)

purge(item) ==
  /\ present' = present \ (Unlinks(item) \cup RemovesDirs(item))
  /\ size' = [x \in Entries |-> IF x \in Truncates(item) THEN 0 ELSE size[x]]
  /\ free' = free + Size(Released(item))
  /\ uncounted' = uncounted + Size(Released(item) \cap late)

----------------------------------------------------------------------------
(* freeCache *)

Return(r) == pc' = "done" /\ result' = r

Begin ==
  /\ pc = "idle"
  /\ \/ Return("no_statvfs") /\ UNCHANGED needed
     \/ free >= call.target /\ Return("ok") /\ UNCHANGED needed
     \/ /\ free < call.target /\ "V2" \notin call.flags
        /\ Return("legacy") /\ UNCHANGED needed
     \/ /\ free < call.target /\ "V2" \in call.flags
        /\ needed' = call.target - free
        /\ pc' = "create" /\ UNCHANGED result
  /\ UNCHANGED <<disk, scene, trackers, used, items, loaded, queue, active,
                 cleared, cacheTotal, history>>

(* 1. Create trackers for every known UID; without the list of users only  *)
(* those found under the owner's directories.                              *)
CreateTrackers ==
  /\ pc = "create"
  /\ \E paths \in {DataPaths, {p \in DataPaths : Owner[p].user = 0}} :
       trackers' = {TrackerUid(p) : p \in paths}
  /\ \/ pc' = "populate" /\ UNCHANGED result
     \/ Return("no_fts")
  /\ UNCHANGED <<disk, scene, tallies, history>>

(* 2. loadStats asks the quota, and walks the trees when there is none     *)
(* (the cache directories themselves, which it adds, have no size here).   *)
Populate ==
  /\ pc = "populate"
  /\ \E stats \in [trackers -> QuotaStats \cup {None}] :
       used' = [u \in Uids |-> IF u \notin trackers THEN 0
                               ELSE IF stats[u] = None THEN Size(Cached(u))
                               ELSE stats[u]]
  /\ queue' = trackers
  /\ cacheTotal' = MapThenSumSet(LAMBDA u : used'[u], trackers)
  /\ pc' = "bounce"
  /\ UNCHANGED <<disk, scene, trackers, items, loaded, active, needed, cleared,
                 result, history>>

(* 3. Bounce across the queue.  The tests are made in this order.          *)
UnderQuota ==
  active # None /\ Ratio(active) < 10000 /\ "DEFY" \notin call.flags

InReserve == call.reserved > 0 /\ cleared >= cacheTotal - call.reserved

Going == active # None \/ queue # {}

Top(u) == u \in queue /\ \A v \in queue : Ratio(v) <= Ratio(u)

(* Mutant: the tracker at hand is kept.                                    *)
NeverBetter == FALSE
NextBetter == active # None /\ \E u \in queue : Top(u) /\ Ratio(active) < Ratio(u)

Finish ==
  /\ pc = "bounce"
  /\ ~Going \/ UnderQuota \/ InReserve
  /\ Return(IF free >= call.target THEN "ok" ELSE "failed")
  /\ UNCHANGED <<disk, scene, trackers, tallies, history>>

(* Take the best tracker; the one at hand waits until it is best again.    *)
Swap ==
  /\ pc = "bounce" /\ Going /\ ~UnderQuota /\ ~InReserve
  /\ active = None \/ NextBetter
  /\ \E u \in queue :
       /\ Top(u)
       /\ active' = u
       /\ queue' = (queue \ {u}) \cup ({active} \ {None})
       /\ loaded' = loaded \cup {u}
       /\ items' = IF u \in loaded THEN items ELSE [items EXCEPT ![u] = loadItems(u)]
  /\ UNCHANGED <<pc, disk, scene, trackers, used, needed, cleared, cacheTotal,
                 result, history>>

AtWork == pc = "bounce" /\ active # None /\ ~UnderQuota /\ ~InReserve /\ ~NextBetter

GiveUpTracker ==
  /\ AtWork /\ items[active] = {}
  /\ active' = None
  /\ UNCHANGED <<pc, disk, scene, trackers, used, items, loaded, queue, needed,
                 cleared, cacheTotal, result, history>>

(* The last item goes.  Once enough should be free the disk is asked.      *)
PurgeItem ==
  /\ AtWork
  /\ \E item \in items[active] :
       /\ IsLast(item, active)
       /\ items' = [items EXCEPT ![active] = @ \ {item}]
       /\ IF "NOOP" \in call.flags
            THEN UNCHANGED <<disk, uncounted>>
            ELSE purge(item)
       /\ used' = [used EXCEPT ![active] = @ - item.size]
       /\ cleared' = cleared + item.size
       /\ needed' = IF needed - item.size <= 0 THEN call.target - free'
                                               ELSE needed - item.size
       /\ IF needed' <= 0 THEN Return("ok") ELSE UNCHANGED <<pc, result>>
  /\ UNCHANGED <<scene, trackers, loaded, queue, active, cacheTotal, late>>

installd == Begin \/ CreateTrackers \/ Populate \/ Finish \/ Swap \/ GiveUpTracker
            \/ PurgeItem

----------------------------------------------------------------------------
(* Apps meanwhile write what is not there.                                 *)
AppWrites(e) ==
  /\ pc \in {"create", "populate", "bounce"}
  /\ e \notin present \cup late /\ Above[e] \subseteq present
  /\ Blocks[e] <= free
  /\ present' = present \cup {e} /\ free' = free - Blocks[e]
  /\ size' = [size EXCEPT ![e] = Blocks[e]]
  /\ late' = IF TrackerUid(PathOf[e]) \in loaded THEN late \cup {e} ELSE late
  /\ UNCHANGED <<pc, scene, trackers, tallies, result, uncounted>>

Next == installd \/ \E e \in Rewritten : AppWrites(e)
Spec == Init /\ [][Next]_vars

(* The call runs on; no app has to write.                                  *)
FairSpec == Spec /\ WF_vars(installd)

----------------------------------------------------------------------------
(* Properties *)

Purging == pc = "bounce" /\ cleared' # cleared
Gone == {e \in present : e \notin present' \/ size'[e] # size[e]}

(* "This new cache strategy fairly removes files from UIDs by deleting     *)
(* files from the UIDs which are most over their allocated quota": nothing *)
(* is taken from an app while another, which still has something to take,  *)
(* is further over its quota, nor, unless that is defied, from one that is *)
(* within it.                                                              *)
FairlyTaken ==
  [][Purging =>
       /\ "DEFY" \in call.flags \/ used[active] >= CacheQuota(active)
       /\ \A u \in trackers :
            (u \notin loaded \/ items[u] # {}) => Ratio(u) <= Ratio(active)]_vars

(* A purge takes nothing newer than what it leaves to the same app, the    *)
(* directories it deletes with all they hold included.                     *)
OldestFirst ==
  [][Purging => \A e \in Gone \ late, x \in items'[active] :
                  stamp[e] <= x.modified]_vars

(* A directory that is no group goes after everything listed in it: what   *)
(* is counted for an item is what its purge takes.                         *)
NothingUncounted ==
  [][Purging => \A u \in Uids : Gone \cap {x.entry : x \in items'[u]} = {}]_vars

(* A file in a tomb, however far down, is truncated and never deleted.     *)
TombstonesKept ==
  [][Purging => \A e \in present \ Directories :
                  Above[e] \cap Tombs # {} => e \in present']_vars

(* Nothing is purged once the disk really has what was asked for, hard     *)
(* links and failures notwithstanding; space regained from files written   *)
(* behind the tracker's back is not known to the count.                    *)
StopsAtTarget == [][Purging => free - uncounted < call.target]_vars

Done == pc = "done"

(* The bouncing comes to an end.                                           *)
Terminates == <>Done
=============================================================================
