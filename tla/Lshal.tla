------------------------------- MODULE Lshal -------------------------------
(***************************************************************************)
(* `lshal list' (src/lshal/ListCommand.cpp): the tables of HALs, filled by *)
(* calls to the hwservicemanager and to every service it names.  Each call *)
(* is made by a thread of its own (Timeout.h): the main thread waits for a *)
(* time, then interrupts the thread, and joins it in any case.  Services   *)
(* may come and go all the time.                                           *)
(***************************************************************************)
EXTENDS Naturals, FiniteSets

CONSTANTS
  Services,     \* the services that may be registered with hwservicemanager
  PidOf,        \* service -> its process
  Tells,        \* service -> what it may tell of itself, of {"pid", "ptr"}
  DeclaredHw, DeclaredPass, \* the manifest: services, and [package, minor]
  Libraries,    \* the passthrough implementations, [package, minor]
  Lists,        \* the sets of HAL types that may be asked for
  MaxSlips      \* bound on what goes wrong

VARIABLES
  registered,   \* hwservicemanager
  readable,     \* the processes whose /d/binder/proc file lshal may read
  types,        \* mListTypes
  step,         \* the call or the phase that the main thread is in
  wait,         \* what it does about its thread: nothing, "wait", "join"
  thread,       \* the thread of the call
  reply,        \* what the thread has got
  names,        \* fqInstanceNames
  current, bad, \* the service in work, and whether there was an error with it
  services,     \* mServicesTable: service -> its entry
  libraries, manifest, lazy,   \* the other tables
  cached,       \* mCachedPidInfos: process -> what is remembered
  status, slips

vars == <<registered, readable, types, step, wait, thread, reply, names, current, bad, services,
          libraries, manifest, lazy, cached, status, slips>>
call == <<wait, thread, reply>>
tables == <<services, libraries, manifest, lazy>>

Pids == {PidOf[s] : s \in Services}
NoService == "noService"
NoHals == [hw |-> {}, pass |-> {}]
NoEntry == [alive |-> FALSE, told |-> {}, threads |-> "none", clients |-> "none"]

(* initFetchTypes.                                                         *)
(* Mutant: what lazy HALs are derived from is not fetched.                 *)
FetchAsListed(ts) == ts
FetchTypes(ts) ==
  ts \cup IF "lazy" \in ts THEN {"binderized", "libraries", "manifest"} ELSE {}

Init ==
  /\ registered \in SUBSET Services /\ types \in Lists /\ readable \in SUBSET Pids
  /\ step = "list" /\ wait = "no" /\ thread = "none" /\ reply = "none"
  /\ names = {} /\ current = NoService /\ bad = FALSE
  /\ services = [s \in {} |-> NoEntry] /\ libraries = {} /\ manifest = NoHals /\ lazy = NoHals
  /\ cached = [p \in Pids |-> "none"]
  /\ status = {} /\ slips = 0

Slip == slips < MaxSlips /\ slips' = slips + 1

Registers(s) ==
  /\ s \notin registered /\ Slip /\ registered' = registered \cup {s}
  /\ UNCHANGED <<readable, types, step, call, names, current, bad, tables, cached, status>>

Dies(s) ==
  /\ s \in registered /\ Slip /\ registered' = registered \ {s}
  /\ UNCHANGED <<readable, types, step, call, names, current, bad, tables, cached, status>>

----------------------------------------------------------------------------
(* timeout and timeoutIPC.                                                 *)

Calls == {"list", "get", "debugInfo", "chain", "hash", "clients", "libraries"}
Asked(c) ==
  CASE c = "list" -> "binderized" \in FetchTypes(types)
    [] c = "clients" -> "clients" \in FetchTypes(types)
    [] c = "libraries" -> "libraries" \in FetchTypes(types)
    [] OTHER -> TRUE

Others == UNCHANGED <<registered, readable, types, step, current, tables, cached, status>>

CreateThread ==
  /\ step \in Calls /\ Asked(step) /\ wait = "no" /\ reply = "none"
  /\ \/ thread' = "running" /\ wait' = "wait" /\ UNCHANGED <<reply, slips>>
     \/ Slip /\ reply' = "timedOut" /\ UNCHANGED <<thread, wait>>
  /\ Others /\ UNCHANGED <<names, bad>>

(* The thread has its answer and runs the callback, which copies the names *)
(* out, or finds that the service has too few hashes.                      *)
Answer ==
  /\ thread = "running" /\ thread' = "answered"
  /\ \/ /\ reply' = IF step = "get" /\ current \notin registered THEN "null" ELSE "ok"
        /\ names' = IF step = "list" THEN registered ELSE names
        /\ UNCHANGED <<bad, slips>>
     \/ Slip /\ reply' = "error" /\ UNCHANGED <<names, bad>>
     \/ step \in {"chain", "hash"} /\ Slip /\ reply' = "bad" /\ bad' = (bad \/ step = "hash")
        /\ UNCHANGED names
  /\ Others /\ UNCHANGED wait

Notify ==
  /\ thread = "answered" /\ thread' = "notified"
  /\ Others /\ UNCHANGED <<wait, reply, names, bad, slips>>

(* A service that hangs: Answer never comes.                               *)
TimesOut ==
  /\ wait = "wait" /\ thread # "notified" /\ wait' = "join"
  /\ Others /\ UNCHANGED <<thread, reply, names, bad, slips>>

(* pthread_kill, and pthread_exit in the signal handler.                   *)
Interrupted ==
  /\ wait = "join" /\ thread \in {"running", "answered"} /\ thread' = "gone"
  /\ Others /\ UNCHANGED <<wait, reply, names, bad, slips>>

Joined == thread \in {"notified", "gone"}

Join ==
  /\ \/ wait = "wait" /\ thread = "notified" /\ reply' = reply
     \/ wait = "join" /\ Joined /\ reply' = "timedOut"
  /\ wait' = "no" /\ thread' = IF thread \in {"notified", "gone"} THEN "none" ELSE thread
  /\ Others /\ UNCHANGED <<names, bad, slips>>

----------------------------------------------------------------------------
(* What the main thread does with the answer.                              *)

Has(c) == step = c /\ wait = "no" /\ reply # "none"
Next1(s) == step' = s /\ reply' = "none" /\ UNCHANGED <<registered, readable, types, wait, thread, names, slips>>
NextEntry(ns, sv) == IF ns \subseteq DOMAIN sv THEN "clients" ELSE "choose"

List ==
  /\ Has("list")
  /\ \/ reply = "ok" /\ Next1(NextEntry(names, services)) /\ UNCHANGED status
     \/ reply # "ok" /\ Next1("clients") /\ status' = status \cup {"binderized"}
  /\ UNCHANGED <<current, bad, tables, cached>>

(* fetchBinderizedEntry, for one name after another.                       *)
Choose(s) ==
  /\ step = "choose" /\ s \in names \ DOMAIN services
  /\ current' = s /\ bad' = FALSE /\ services' = [t \in DOMAIN services \cup {s} |-> IF t = s THEN NoEntry ELSE services[t]]
  /\ Next1("get") /\ UNCHANGED <<libraries, manifest, lazy, cached, status>>

EntryOver(b, entry) ==
  /\ services' = [services EXCEPT ![current] = [entry EXCEPT !.alive = ~b]]
  /\ status' = status \cup IF b THEN {"binderized"} ELSE {}
  /\ bad' = FALSE /\ current' = NoService
  /\ Next1(NextEntry(names, services))
  /\ UNCHANGED <<libraries, manifest, lazy>>

Get ==
  /\ Has("get") /\ UNCHANGED cached
  /\ \/ reply = "ok" /\ Next1("debugInfo") /\ UNCHANGED <<current, bad, tables, status>>
     \/ reply # "ok" /\ EntryOver(TRUE, services[current])

(* getDebugInfo: a service need not tell its process (NO_PID) or the       *)
(* address of its object (NO_PTR).  Without the first nothing is looked    *)
(* up, without the second the clients are left out, and neither is an      *)
(* error.                                                                  *)
(* getPidInfoCached: an entry is made before the file is read, and stays   *)
(* when it cannot be.                                                      *)
Shown(e, told, info) ==
  [e EXCEPT !.told = told, !.threads = info, !.clients = IF "ptr" \in told THEN info ELSE "none"]

DebugInfo ==
  /\ Has("debugInfo") /\ Next1("chain") /\ UNCHANGED <<current, libraries, manifest, lazy, status>>
  /\ LET p == PidOf[current] IN
     \/ reply # "ok" /\ bad' = TRUE /\ UNCHANGED <<services, cached>>
     \/ \E told \in Tells[current] :
          /\ reply = "ok" /\ "pid" \notin told /\ bad' = FALSE /\ UNCHANGED cached
          /\ services' = [services EXCEPT ![current] = Shown(@, told, "none")]
     \/ \E told \in Tells[current] :
          /\ reply = "ok" /\ "pid" \in told
          /\ cached' = [cached EXCEPT ![p] =
                          IF @ # "none" THEN @ ELSE IF p \in readable THEN "full" ELSE "empty"]
          /\ bad' = (cached[p] = "none" /\ p \notin readable)
          /\ services' = [services EXCEPT ![current] =
                            Shown(@, told, IF bad' THEN "none" ELSE cached'[p])]

Chain ==
  /\ Has("chain") /\ UNCHANGED cached
  /\ \/ reply = "ok" /\ Next1("hash") /\ UNCHANGED <<current, bad, tables, status>>
     \/ reply # "ok" /\ EntryOver(TRUE, services[current])

HashChain ==
  /\ Has("hash") /\ UNCHANGED cached
  /\ EntryOver(bad \/ reply # "ok", services[current])

(* fetchPassthrough and fetchAllLibraries.                                 *)
Clients ==
  /\ Has("clients") /\ Next1("libraries")
  /\ status' = status \cup IF reply = "ok" THEN {} ELSE {"clients"}
  /\ UNCHANGED <<current, bad, tables, cached>>

AllLibraries ==
  /\ Has("libraries") /\ Next1("manifest")
  /\ libraries' = IF reply = "ok" THEN Libraries ELSE libraries
  /\ status' = status \cup IF reply = "ok" THEN {} ELSE {"libraries"}
  /\ UNCHANGED <<current, bad, services, manifest, lazy, cached>>

(* A type that is not fetched.                                             *)
SkipCall ==
  /\ step \in Calls /\ ~Asked(step) /\ wait = "no"
  /\ Next1(CASE step = "list" -> "clients" [] step = "clients" -> "libraries" [] OTHER -> "manifest")
  /\ UNCHANGED <<current, bad, tables, cached, status>>

(* fetchManifestHals and fetchLazyHals.                                    *)
ManifestHals ==
  /\ step = "manifest"
  /\ \/ "manifest" \in FetchTypes(types) /\ manifest' = [hw |-> DeclaredHw, pass |-> DeclaredPass] /\ UNCHANGED <<status, slips>>
     \/ "manifest" \in FetchTypes(types) /\ Slip /\ status' = status \cup {"vintf"} /\ UNCHANGED manifest
     \/ "manifest" \notin FetchTypes(types) /\ UNCHANGED <<manifest, status, slips>>
  /\ step' = "lazy"
  /\ UNCHANGED <<registered, readable, types, call, names, current, bad, services, libraries, lazy, cached>>

HasHwbinderEntry(h) == h \in DOMAIN services
HasPassthroughEntry(h) == \E l \in libraries : l.package = h.package /\ h.minor >= l.minor

LazyHals ==
  /\ step = "lazy" /\ step' = "dump"
  /\ lazy' = IF "lazy" \notin FetchTypes(types) THEN lazy
             ELSE [hw |-> {h \in manifest.hw : ~HasHwbinderEntry(h)},
                   pass |-> {h \in manifest.pass : ~HasPassthroughEntry(h)}]
  /\ UNCHANGED <<registered, readable, types, call, names, current, bad, services, libraries, manifest, cached, status, slips>>

Dump ==
  /\ step = "dump" /\ step' = "end"
  /\ \/ UNCHANGED <<status, slips>>
     \/ Slip /\ status' = status \cup {"io"}
  /\ UNCHANGED <<registered, readable, types, call, names, current, bad, tables, cached>>

Main ==
  \/ CreateThread \/ Join \/ List \/ (\E s \in Services : Choose(s)) \/ Get \/ DebugInfo
  \/ Chain \/ HashChain \/ Clients \/ AllLibraries \/ SkipCall \/ ManifestHals \/ LazyHals \/ Dump

Next ==
  \/ Main \/ Answer \/ Notify \/ TimesOut \/ Interrupted
  \/ \E s \in Services : Registers(s) \/ Dies(s)

Spec == Init /\ [][Next]_vars

(* The main thread runs on, its wait times out, and a thread that is told  *)
(* to ends.  No service has to answer.                                     *)
FairSpec ==
  Spec /\ WF_vars(Main) /\ WF_vars(Notify) /\ WF_vars(TimesOut) /\ WF_vars(Interrupted)

----------------------------------------------------------------------------
(* No thread of a call outlives the call: what the thread writes to is on  *)
(* the stack of the main thread.                                           *)
ThreadsOver == wait = "no" => thread = "none"

(* What an entry without an error shows: the threads of the process, if    *)
(* the service told which it is, and its clients, if it told its address   *)
(* too.                                                                    *)
Good(e) ==
  /\ e.alive
  /\ "pid" \in e.told => e.threads = "full"
  /\ {"pid", "ptr"} \subseteq e.told => e.clients = "full"

(* When lshal reports no error, every service it lists answered all its    *)
(* calls and is shown with what belongs to what it told of itself; and     *)
(* what it lists as lazy is declared, was not registered when the services *)
(* were listed, and has no implementation.                                 *)
ListedTruly ==
  step = "end" /\ status = {} =>
    /\ \A s \in DOMAIN services : Good(services[s])
    /\ "binderized" \in types => DOMAIN services = names
    /\ "lazy" \in types =>
         lazy = [hw |-> DeclaredHw \ names,
                 pass |-> {h \in DeclaredPass :
                             \A l \in Libraries : l.package = h.package => l.minor > h.minor}]

Done == step = "end"

(* lshal comes to an end, however many services hang.                      *)
ListingEnds == <>Done

----------------------------------------------------------------------------
(* What the proofs rest on.                                                *)

LibrariesAssumption ==
  /\ \A h \in DeclaredPass : h.minor \in Nat
  /\ \A l \in Libraries : l.minor \in Nat

InEntry == step \in {"get", "debugInfo", "chain", "hash"}

(* The names are those of services; the table has entries of them only,    *)
(* none while they are asked for, and that of the service in work.         *)
Listed ==
  /\ registered \subseteq Services /\ names \subseteq Services /\ DOMAIN services \subseteq names
  /\ \A s \in DOMAIN services : DOMAIN services[s] = {"alive", "told", "threads", "clients"}
  /\ step = "list" => DOMAIN services = {}
  /\ InEntry => current \in DOMAIN services

(* While there is no error, every entry but the one in work is good, and   *)
(* that one will be; what is remembered of a process is good, unless the   *)
(* service in work is about to be an error.                                *)
EntriesGood ==
  status = {} =>
    /\ \A s \in DOMAIN services : Good(services[s]) \/ (InEntry /\ s = current)
    /\ step \in {"chain", "hash"} /\ ~bad => Good([services[current] EXCEPT !.alive = TRUE])
    /\ ~(step \in {"chain", "hash"} /\ bad) => \A p \in Pids : cached[p] # "empty"

CachedKnown == cached \in [Pids -> {"none", "full", "empty"}]

(* While there is no error, what has been fetched is there.                *)
Fetched ==
  status = {} =>
    /\ step \in {"clients", "libraries", "manifest", "lazy", "dump", "end"}
         /\ "binderized" \in FetchTypes(types) => names \subseteq DOMAIN services
    /\ step \in {"manifest", "lazy", "dump", "end"} /\ "libraries" \in FetchTypes(types) =>
         libraries = Libraries
    /\ step \in {"lazy", "dump", "end"} /\ "manifest" \in FetchTypes(types) =>
         manifest = [hw |-> DeclaredHw, pass |-> DeclaredPass]
    /\ step \in {"dump", "end"} /\ "lazy" \in types =>
         lazy = [hw |-> DeclaredHw \ names,
                 pass |-> {h \in DeclaredPass :
                             \A l \in Libraries : l.package = h.package => l.minor > h.minor}]

Inv == ThreadsOver /\ Listed /\ EntriesGood /\ CachedKnown /\ Fetched
=============================================================================
