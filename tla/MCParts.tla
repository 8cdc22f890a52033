------------------------------ MODULE MCParts ------------------------------
(* The components of Parts, in instances small enough for all of them to   *)
(* share a run.                                                            *)
EXTENDS Parts, TLC

CONSTANT None

(* dumpsys: three services, of which one is skipped.                       *)
MCDumpsys ==
  [list |-> <<"s1", "s2", "s3">>, skipped |-> {"s3"}, capacity |-> 2,
   timeout |-> 1, faulty |-> TRUE]

(* dumpstate's service: three callers.                                     *)
MCService == [callers |-> {"c1", "c2", "c3"}, modes |-> {"FULL"}, nobody |-> "nobody"]

(* freeCache: two apps.  The first has a cache on internal and on shared   *)
(* storage, the second, another user's, a group that holds a tomb.         *)
OwnerOf ==
  [p \in {"p1", "p2", "p3"} |-> IF p = "p2" THEN [user |-> 10, app |-> 2, media |-> FALSE]
                                ELSE [user |-> 0, app |-> 1, media |-> p = "p3"]]
DirOf == [d |-> "p1", f1 |-> "d", f2 |-> "d", m |-> "p3", g |-> "p2", t |-> "g", f3 |-> "t", f4 |-> "p2"]
BlocksOf == [e \in DOMAIN DirOf |-> IF e \in {"d", "g", "t"} THEN 1 ELSE 2]
Stamps ==
  {[e \in DOMAIN DirOf |-> IF e \in {"f1", "m"} THEN s[e] ELSE IF e = "d" THEN 1 ELSE 2] :
     s \in [{"f1", "m"} -> {1, 2, 3}]}
CacheScenes ==
  {[missing |-> x, stamp |-> s, linked |-> {}, stuck |-> {}] : x \in {{}, {"f2"}}, s \in Stamps}
  \cup {[missing |-> {}, stamp |-> s, linked |-> {"f1"}, stuck |-> {"m"}] :
          s \in {s \in Stamps : s["f1"] = 2}}
QuotaOf == (<<0, 1>> :> 3) @@ (<<10, 2>> :> 0)
CacheCalls ==
  {[target |-> 8, reserved |-> r, flags |-> {"V2", "DEFY"}] : r \in {0, 4}}
  \cup {[target |-> n, reserved |-> 0, flags |-> {"V2"}] : n \in {3, 8}}
  \cup {[target |-> n, reserved |-> 0, flags |-> f] : n \in {1, 5}, f \in {{}, {"V2", "NOOP"}}}
MCCache ==
  [owner |-> OwnerOf, in |-> DirOf, directories |-> {"d", "g", "t"}, groups |-> {"g"},
   tombs |-> {"t"}, rewritten |-> {"f2", "m"}, blocks |-> BlocksOf, scenes |-> CacheScenes,
   quotas |-> QuotaOf, quota |-> 4, stats |-> {9}, calls |-> CacheCalls, free |-> 2, none |-> None]

(* otapreopt: requests of the oldest, of a middle and of the newest layout.*)
OtaRequests ==
  {[version |-> 1, flags |-> {"guided", "bootcomplete", "safemode"}],
   [version |-> 7, flags |-> {"guided"}],
   [version |-> 10, flags |-> {"image", "hidden"}]}
MCOta ==
  [packages |-> {1, 2, 3}, preopted |-> {3}, absent |-> {}, requests |-> OtaRequests,
   rounds |-> 2, slips |-> 1]

(* Sections: a command as root, one that drops root, a file.               *)
ReportSections ==
  {[kind |-> "command", mode |-> "su", always |-> FALSE, weight |-> 2],
   [kind |-> "command", mode |-> "drop", always |-> TRUE, weight |-> 9],
   [kind |-> "file", chunks |-> 1, always |-> FALSE, weight |-> 1]}
MCCommand ==
  [sections |-> ReportSections, max |-> 7, runs |-> 1, average |-> 10, threshold |-> 3,
   done |-> 2, sessions |-> 1]

(* atrace: categories with a tag, with kernel events, with both, with none.*)
TraceCategories ==
  [gfx |-> [tag |-> TRUE, req |-> {}, opt |-> {}],
   sched |-> [tag |-> FALSE, req |-> {"switch"}, opt |-> {"waking"}],
   disk |-> [tag |-> TRUE, req |-> {"block"}, opt |-> {"waking"}],
   pdx |-> [tag |-> FALSE, req |-> {}, opt |-> {}],
   core |-> [tag |-> FALSE, req |-> {}, opt |-> {}]]
Invocation(m, u, a, f, k, r) ==
  [mode |-> m, userspace |-> u, args |-> a, file |-> f, funcs |-> k, root |-> r]
TraceInvocations ==
  {Invocation("trace", FALSE, {"gfx", "sched"}, {}, TRUE, TRUE),
   Invocation("trace", FALSE, {"core"}, {"disk", "hal"}, FALSE, TRUE),
   Invocation("async_start", FALSE, {"gfx", "pdx", "hal"}, {"sched"}, FALSE, FALSE),
   Invocation("async_start", TRUE, {"gfx"}, {}, FALSE, FALSE),
   Invocation("stream", FALSE, {"sched"}, {}, FALSE, FALSE),
   Invocation("trace", FALSE, {}, {}, TRUE, FALSE),
   Invocation("async_dump", FALSE, {}, {}, FALSE, FALSE),
   Invocation("async_stop", FALSE, {}, {}, FALSE, FALSE),
   Invocation("async_stop", TRUE, {}, {}, FALSE, FALSE)}
MCAtrace ==
  [category |-> TraceCategories, vendor |-> {"hal"}, shell |-> {"switch", "waking"},
   settings |-> {"initiated", "no_overwrite", "buffer", "clock", "tgid"},
   invocations |-> TraceInvocations, count |-> 2, slips |-> 2]

(* lshal: two services of one process, of which one may hide what it is;   *)
(* passthrough HALs of which one has an implementation that is new enough. *)
Passthrough == {[package |-> "mapper", minor |-> 1], [package |-> "audio", minor |-> 0]}
Implementations == {[package |-> "mapper", minor |-> 0], [package |-> "audio", minor |-> 1]}
HalLists == {{"binderized", "clients", "libraries"}, {"lazy"}, {"binderized", "manifest"}}
MCLshal ==
  [pid |-> [s \in {"a", "b"} |-> 1],
   tells |-> [a |-> {{"pid", "ptr"}, {"pid"}, {"ptr"}}, b |-> {{"pid", "ptr"}}],
   hw |-> {"a"}, pass |-> Passthrough, libraries |-> Implementations, lists |-> HalLists, slips |-> 2]

(* `lshal debug'.                                                          *)
MCRelay == [capacity |-> 2, slips |-> 1]

(* rawbu: a file in each of a directory, one that is not to be touched and *)
(* one that is not backed up, where it is a link.                          *)
PlaceIn == [d |-> "/data", f |-> "d", misc |-> "/data", m |-> "misc", cache |-> "/data", c |-> "cache"]
MCBackup ==
  [in |-> PlaceIn, dirs |-> {"d", "misc", "cache"}, links |-> {"c"}, notouch |-> {"misc"},
   nobackup |-> {"cache"}, where |-> {"d"}, writes |-> 1, calls |-> 3, slips |-> 1]

(* surfacereplayer: a layer with its buffers, a display that comes and     *)
(* goes, and a trace with an increment that is not known.                  *)
Increment(k, id, u) == [kind |-> k, id |-> id, uses |-> u]
ReplayTraces ==
  {<<Increment("surface", "l", {}), Increment("buffer", "l", {}),
     Increment("transaction", "none", {"l"}), Increment("buffer", "l", {})>>,
   <<Increment("display", "d", {}), Increment("transaction", "none", {"d"}),
     Increment("vsync", "none", {}), Increment("deletion", "d", {})>>,
   <<Increment("power", "d", {}), Increment("vsync", "none", {}), Increment("unknown", "none", {})>>}
MCReplayer == [traces |-> ReplayTraces, threads |-> {1, 3}, slips |-> 1]
=============================================================================
