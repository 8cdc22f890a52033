--------------------------- MODULE ServiceManager ---------------------------
(***************************************************************************)
(* servicemanager: the registry of binder services                        *)
(* (src/servicemanager/service_manager.c) with the part of its binder      *)
(* client (src/servicemanager/binder.c) that changes the state of the      *)
(* binder driver.                                                          *)
(*                                                                         *)
(* The process is single threaded: binder_loop reads one work item of the  *)
(* driver, a transaction of a client or the death notice of a handle,      *)
(* handles it, writes its commands to the driver and reads again.  Clients,*)
(* and the processes that own the registered binders, run in between.      *)
(*                                                                         *)
(* A registration is a handle: a number private to this process that the   *)
(* driver gives out, reference counts and reuses.  Whether a handle in the *)
(* table still means the binder that was registered depends on every       *)
(* acquire and release being matched, which is what this module is about.  *)
(***************************************************************************)
EXTENDS Integers, Sequences, FiniteSets, Functions

CONSTANTS
  Clients,      \* threads with a call to the service manager under way or not
  Names,        \* service names, unacceptable ones included
  NameLen,      \* [Names -> Nat], the length of a name in UTF-16 units
  Binders,      \* binder objects that services publish
  Handles,      \* descriptors the driver gives to this process
  Masks,        \* dumpsys priorities: each a set of priority bits
  Uids,         \* effective uids of callers
  MayRegister,  \* SUBSET (Binders \X Names): who is published under which name
  ForeignAdds,  \* TRUE if a process may register a binder it does not host
  NoHandle, NoBinder, NoName

ASSUME ConstantsAssumption ==
  /\ IsFiniteSet(Clients) /\ IsFiniteSet(Names)
  /\ NameLen \in [Names -> Nat]
  /\ Uids \subseteq Nat
  /\ MayRegister \subseteq Binders \X Names
  /\ ForeignAdds \in BOOLEAN
  /\ Clients \cap Handles = {}
  /\ NoHandle \notin Handles /\ NoBinder \notin Binders /\ NoName \notin Names

VARIABLES
  svclist,  \* struct svcinfo *svclist: the names, the newest first
  info,     \* the other fields of each svcinfo; blank for a name not in svclist
  refs,     \* driver: what each handle refers to
  todo,     \* driver: work for this process, a client (its call) or a handle (its death)
  alive,    \* the binders whose process has not died
  call,     \* the transaction each client waits on
  reply,    \* what the last transaction of each client returned
  walk      \* a client that lists the services: where it is and what it saw

vars == <<svclist, info, refs, todo, alive, call, reply, walk>>

----------------------------------------------------------------------------
(* Records *)

MaxNameLen == 127
ReplySpace == 224     \* rdata of binder_parse, 256 bytes, less four offsets
AID_USER == 100000
AID_ISOLATED_START == 99000
AID_ISOLATED_END == 99999

SvcInfo == [handle : Handles \cup {NoHandle}, allow_isolated : BOOLEAN,
            dumpsys_priority : Masks \cup {{}}]

NoInfo == [handle |-> NoHandle, allow_isolated |-> FALSE, dumpsys_priority |-> {}]

(* A reference of this process: the node, its strong count and the name    *)
(* whose svcinfo is the cookie of its death notification.                  *)
Ref == [node : Binders \cup {NoBinder}, strong : Nat, death : Names \cup {NoName}]

NoRef == [node |-> NoBinder, strong |-> 0, death |-> NoName]

AddMsg == [op : {"add"}, name : Names, handle : Handles \cup {NoHandle},
           allow_isolated : BOOLEAN, dumpsys_priority : Masks]
FindMsg == [op : {"find"}, name : Names, uid : Uids]
ListMsg == [op : {"list"}, n : Nat, prio : Masks]
PlainMsg == [op : {"ping", "bad"}]
NoCall == [op |-> "idle"]
Message == AddMsg \cup FindMsg \cup ListMsg \cup PlainMsg

NoReply == [kind |-> "none"]
Failed == [kind |-> "failed"]                   \* TF_STATUS_CODE with -1
Zero == [kind |-> "zero"]                       \* the 32-bit word 0
Nothing == [kind |-> "empty"]                   \* status 0, no data
BinderReply(b) == [kind |-> "binder", binder |-> b]
NameReply(n) == [kind |-> "name", name |-> n]
Reply == {NoReply, Failed, Zero, Nothing}
           \cup {BinderReply(b) : b \in Binders} \cup {NameReply(n) : n \in Names \cup {NoName}}

NoWalk == [active |-> FALSE]
Walk == [active : {TRUE}, prio : Masks, n : Nat, start : SUBSET Names,
         seen : SUBSET (Names \cup {NoName})]

TypeOK ==
  /\ svclist \in Seq(Names)
  /\ info \in [Names -> SvcInfo]
  /\ refs \in [Handles -> Ref]
  /\ todo \in Seq(Clients \cup Handles)
  /\ alive \in SUBSET Binders
  /\ call \in [Clients -> Message \cup {NoCall}]
  /\ reply \in [Clients -> Reply]
  /\ walk \in [Clients -> Walk \cup {NoWalk}]

----------------------------------------------------------------------------
(* The binder driver (external).  st is the state a command works on.      *)

State == [svclist |-> svclist, info |-> info, refs |-> refs, todo |-> todo]

Without(seq, x) ==
  IF x \in Range(seq)
    THEN LET i == CHOOSE j \in DOMAIN seq : seq[j] = x
         IN  [j \in 1 .. Len(seq) - 1 |-> IF j < i THEN seq[j] ELSE seq[j + 1]]
    ELSE seq

BC_ACQUIRE(st, h) ==
  IF st.refs[h].strong = 0 THEN st
                           ELSE [st EXCEPT !.refs[h].strong = @ + 1]

(* The last strong reference takes the death notification with it, and the *)
(* notice that may be queued; the descriptor is free again.                *)
BC_RELEASE(st, h) ==
  CASE st.refs[h].strong = 0 -> st
    [] st.refs[h].strong = 1 -> [st EXCEPT !.refs[h] = NoRef, !.todo = Without(@, h)]
    [] OTHER -> [st EXCEPT !.refs[h].strong = @ - 1]

(* One notification per reference: a second request is refused.  On a node *)
(* that is dead already the notice is queued at once.                      *)
BC_REQUEST_DEATH_NOTIFICATION(st, h, cookie) ==
  IF st.refs[h].strong = 0 \/ st.refs[h].death # NoName
    THEN st
    ELSE [st EXCEPT !.refs[h].death = cookie,
                    !.todo = IF st.refs[h].node \in alive THEN @ ELSE Append(@, h)]

(* Freeing the buffer of a transaction drops the reference it carries.     *)
BC_FREE_BUFFER(st, m) ==
  IF m.op = "add" /\ m.handle # NoHandle THEN BC_RELEASE(st, m.handle) ELSE st

(* A handle in a reply is translated to its node; a handle without one     *)
(* makes the reply fail.                                                   *)
BC_REPLY(st, h) ==
  IF st.refs[h].node = NoBinder THEN Failed ELSE BinderReply(st.refs[h].node)

----------------------------------------------------------------------------
(* service_manager.c *)

find_svc(st, n) == n \in Range(st.svclist)

(* Mutant: the death cookie is the handle.                                 *)
MutHandleCookie(st, h, cookie) == BC_REQUEST_DEATH_NOTIFICATION(st, h, h)

binder_acquire(st, h) == BC_ACQUIRE(st, h)
binder_release(st, h) == BC_RELEASE(st, h)
binder_link_to_death(st, h, cookie) == BC_REQUEST_DEATH_NOTIFICATION(st, h, cookie)

(* Mutant: the handle is forgotten but not released.                       *)
MutNoRelease(st, n) == [st EXCEPT !.info[n].handle = NoHandle]

svcinfo_death(st, n) ==
  IF st.info[n].handle = NoHandle
    THEN st
    ELSE [binder_release(st, st.info[n].handle) EXCEPT !.info[n].handle = NoHandle]

IsIsolated(uid) ==
  uid % AID_USER \in AID_ISOLATED_START .. AID_ISOLATED_END

(* Mutant: isolated processes are not told apart.                          *)
MutFindForAll(st, m) == IF find_svc(st, m.name) THEN st.info[m.name].handle ELSE NoHandle

(* svc_can_find, svc_can_list and svc_can_register always allow:           *)
(* check_mac_perms returns true before it looks at anything.               *)
do_find_service(st, m) ==
  IF \/ ~find_svc(st, m.name)
     \/ st.info[m.name].handle = NoHandle
     \/ ~st.info[m.name].allow_isolated /\ IsIsolated(m.uid)
    THEN NoHandle
    ELSE st.info[m.name].handle

Acceptable(m) ==
  m.handle # NoHandle /\ NameLen[m.name] # 0 /\ NameLen[m.name] <= MaxNameLen

(* Mutant: an overridden entry is put at the head again.                   *)
MutMoveToFront(st, m) ==
  IF find_svc(st, m.name)
    THEN [svcinfo_death(st, m.name) EXCEPT !.info[m.name].handle = m.handle,
            !.svclist = <<m.name>> \o Without(st.svclist, m.name)]
    ELSE [st EXCEPT !.svclist = <<m.name>> \o @,
                    !.info[m.name] = [handle |-> m.handle,
                                      allow_isolated |-> m.allow_isolated,
                                      dumpsys_priority |-> m.dumpsys_priority]]

(* The entry for the name: overridden in place, its attributes kept, or    *)
(* put at the head of the list.                                            *)
EnterService(st, m) ==
  IF find_svc(st, m.name)
    THEN [svcinfo_death(st, m.name) EXCEPT !.info[m.name].handle = m.handle]
    ELSE [st EXCEPT !.svclist = <<m.name>> \o @,
                    !.info[m.name] = [handle |-> m.handle,
                                      allow_isolated |-> m.allow_isolated,
                                      dumpsys_priority |-> m.dumpsys_priority]]

(* Mutant: nobody asks to be told of the death of the binder.              *)
MutNoLink(st, m) ==
  IF Acceptable(m) THEN binder_acquire(EnterService(st, m), m.handle) ELSE st

do_add_service(st, m) ==
  IF Acceptable(m)
    THEN binder_link_to_death(binder_acquire(EnterService(st, m), m.handle),
                              m.handle, m.name)
    ELSE st

Supports(st, n, prio) == st.info[n].dumpsys_priority \cap prio # {}

(* The n-th entry, from 0, of those that support the priority: the entry   *)
(* with n supporting ones before it.                                       *)
ListedAt(st, i, m) ==
  /\ Supports(st, st.svclist[i], m.prio)
  /\ Cardinality({j \in 1 .. i - 1 : Supports(st, st.svclist[j], m.prio)}) = m.n

(* bio_put_string16: the length, then the name with its end.  A name that  *)
(* does not fit into the reply overflows it, which nobody looks at: the    *)
(* reply is sent with the length alone, and its reader gets no name.       *)
FitsReply(n) == 4 + 4 * ((2 * (NameLen[n] + 1) + 3) \div 4) <= ReplySpace
Sent(n) == IF FitsReply(n) THEN n ELSE NoName

ListReply(st, m) ==
  IF \E i \in DOMAIN st.svclist : ListedAt(st, i, m)
    THEN NameReply(Sent(st.svclist[CHOOSE i \in DOMAIN st.svclist : ListedAt(st, i, m)]))
    ELSE Failed

FindReply(st, m) ==
  LET h == do_find_service(st, m)
  IN  IF h = NoHandle THEN Zero ELSE BC_REPLY(st, h)

(* What the client is sent, given the state before and after the call.     *)
svcmgr_reply(st, m) ==
  CASE m.op = "add"  -> IF Acceptable(m) THEN Zero ELSE Failed
    [] m.op = "find" -> FindReply(st, m)
    [] m.op = "list" -> ListReply(st, m)
    [] m.op = "ping" -> Nothing
    [] OTHER         -> Failed

svcmgr_handler(st, m) == IF m.op = "add" THEN do_add_service(st, m) ELSE st

----------------------------------------------------------------------------
(* Steps of the service manager: binder_parse on one work item.            *)

Become(st) ==
  /\ svclist' = st.svclist /\ info' = st.info
  /\ refs' = st.refs /\ todo' = st.todo

(* Mutant: a failed call is not answered.                                  *)
MutNoErrorReply ==
  /\ todo # <<>> /\ Head(todo) \in Clients
  /\ LET c == Head(todo)
         st == [State EXCEPT !.todo = Tail(todo)]
         r == svcmgr_reply(st, call[c])
     IN  /\ Become(BC_FREE_BUFFER(svcmgr_handler(st, call[c]), call[c]))
         /\ reply' = IF r = Failed THEN reply ELSE [reply EXCEPT ![c] = r]
         /\ call' = IF r = Failed THEN call ELSE [call EXCEPT ![c] = NoCall]
  /\ UNCHANGED <<alive, walk>>

(* BR_TRANSACTION: the handler, then the buffer is freed, then the reply.  *)
ServeTransaction ==
  /\ todo # <<>> /\ Head(todo) \in Clients
  /\ LET c == Head(todo)
         st == [State EXCEPT !.todo = Tail(todo)]
     IN  /\ Become(BC_FREE_BUFFER(svcmgr_handler(st, call[c]), call[c]))
         /\ reply' = [reply EXCEPT ![c] = svcmgr_reply(st, call[c])]
         /\ call' = [call EXCEPT ![c] = NoCall]
  /\ UNCHANGED <<alive, walk>>

(* BR_DEAD_BINDER: the cookie of the reference names the svcinfo.          *)
DeadBinder ==
  /\ todo # <<>> /\ Head(todo) \in Handles
  /\ Become(svcinfo_death([State EXCEPT !.todo = Tail(todo)], refs[Head(todo)].death))
  /\ UNCHANGED <<alive, call, reply, walk>>

binder_loop == ServeTransaction \/ DeadBinder

----------------------------------------------------------------------------
(* The other processes (external). *)

Send(c, m) ==
  /\ call' = [call EXCEPT ![c] = m]
  /\ reply' = [reply EXCEPT ![c] = NoReply]
  /\ todo' = Append(todo, c)

Free(c) == call[c] = NoCall /\ walk[c] = NoWalk

(* The driver translates the binder in the message to a handle of this     *)
(* process: the one it has for that node, or an unused one.                *)
Translate(b, h) ==
  IF \E g \in Handles : refs[g].node = b THEN refs[h].node = b ELSE refs[h] = NoRef

CallAdd(c, n, b, allow, prio) ==
  /\ Free(c)
  /\ <<b, n>> \in MayRegister
  /\ b \in alive \/ ForeignAdds
  /\ \E h \in Handles :
       /\ Translate(b, h)
       /\ refs' = [refs EXCEPT ![h] = [node |-> b, strong |-> @.strong + 1, death |-> @.death]]
       /\ Send(c, [op |-> "add", name |-> n, handle |-> h, allow_isolated |-> allow,
                   dumpsys_priority |-> prio])
  /\ UNCHANGED <<svclist, info, alive, walk>>

(* An add whose message holds no binder: bio_get_ref returns 0.            *)
CallAddNull(c, n) ==
  /\ Free(c)
  /\ \E prio \in Masks :
       Send(c, [op |-> "add", name |-> n, handle |-> NoHandle, allow_isolated |-> FALSE,
                dumpsys_priority |-> prio])
  /\ UNCHANGED <<svclist, info, refs, alive, walk>>

CallFind(c, n, uid) ==
  /\ Free(c)
  /\ Send(c, [op |-> "find", name |-> n, uid |-> uid])
  /\ UNCHANGED <<svclist, info, refs, alive, walk>>

(* PING_TRANSACTION, or a message refused by its target, its interface     *)
(* name or its code.                                                       *)
CallPlain(c, m) ==
  /\ Free(c)
  /\ Send(c, m)
  /\ UNCHANGED <<svclist, info, refs, alive, walk>>

(* IServiceManager::listServices: asks for entry 0, 1, 2, ... until the    *)
(* call fails.                                                             *)
BeginList(c, prio) ==
  /\ Free(c)
  /\ walk' = [walk EXCEPT ![c] =
       [active |-> TRUE, prio |-> prio, n |-> 0, seen |-> {},
        start |-> {n \in Range(svclist) : Supports(State, n, prio)}]]
  /\ Send(c, [op |-> "list", n |-> 0, prio |-> prio])
  /\ UNCHANGED <<svclist, info, refs, alive>>

NextInList(c) ==
  /\ walk[c] # NoWalk /\ call[c] = NoCall /\ reply[c].kind = "name"
  /\ walk' = [walk EXCEPT ![c].n = @ + 1, ![c].seen = @ \cup {reply[c].name}]
  /\ Send(c, [op |-> "list", n |-> walk[c].n + 1, prio |-> walk[c].prio])
  /\ UNCHANGED <<svclist, info, refs, alive>>

EndList(c) ==
  /\ walk[c] # NoWalk /\ call[c] = NoCall /\ reply[c] = Failed
  /\ walk' = [walk EXCEPT ![c] = NoWalk]
  /\ UNCHANGED <<svclist, info, refs, todo, alive, call, reply>>

(* The process of a binder dies: the driver queues the notices asked for.  *)
BinderDies(b) ==
  /\ b \in alive
  /\ alive' = alive \ {b}
  /\ LET noticed == {h \in Handles : refs[h].node = b /\ refs[h].death # NoName}
     IN  todo' = IF noticed = {} THEN todo
                 ELSE Append(todo, CHOOSE h \in noticed : TRUE)
  /\ UNCHANGED <<svclist, info, refs, call, reply, walk>>

----------------------------------------------------------------------------
Init ==
  /\ svclist = <<>>
  /\ info = [n \in Names |-> NoInfo]
  /\ refs = [h \in Handles |-> NoRef]
  /\ todo = <<>>
  /\ alive = Binders
  /\ call = [c \in Clients |-> NoCall]
  /\ reply = [c \in Clients |-> NoReply]
  /\ walk = [c \in Clients |-> NoWalk]

CallAnything(c) ==
  \/ \E n \in Names, b \in Binders, allow \in BOOLEAN, prio \in Masks :
       CallAdd(c, n, b, allow, prio)
  \/ \E n \in Names : CallAddNull(c, n)
  \/ \E n \in Names, uid \in Uids : CallFind(c, n, uid)
  \/ \E m \in PlainMsg : CallPlain(c, m)
  \/ \E prio \in Masks : BeginList(c, prio)

Next ==
  \/ ServeTransaction
  \/ DeadBinder
  \/ \E c \in Clients : CallAnything(c) \/ NextInList(c) \/ EndList(c)
  \/ \E b \in Binders : BinderDies(b)

Spec == Init /\ [][Next]_vars

(* The loop never stops, and a client that lists goes on listing.          *)
Fairness == WF_vars(binder_loop) /\ \A c \in Clients : WF_vars(NextInList(c) \/ EndList(c))

FairSpec == Spec /\ Fairness
----------------------------------------------------------------------------
(* Properties *)

Registered(h) == {n \in Names : info[n].handle = h}
Carried(h) == {c \in Clients : call[c].op = "add" /\ call[c].handle = h}

(* Every strong reference of this process is accounted for: the driver's   *)
(* count for a handle is the number of svcinfo entries that hold it plus   *)
(* the number of unanswered add calls that carry it.  One acquire too few  *)
(* in do_add_service or one release too many in svcinfo_death, on any path *)
(* of register, override and death, breaks it.                             *)
RefBalance ==
  \A h \in Handles : refs[h].strong = Cardinality(Registered(h)) + Cardinality(Carried(h))

(* A binder is published under at most one name.                           *)
SingleNamed ==
  \A p, q \in MayRegister : p[1] = q[1] => p[2] = q[2]

(* A registration that outlives its binder is only waiting for its turn:   *)
(* the death notice that will clear it is queued and carries its cookie,   *)
(* even if the binder died while its add call was still queued or was      *)
(* overridden and registered again.                                        *)
DeathNoticeQueued ==
  \A n \in Names :
    LET h == info[n].handle
    IN  h # NoHandle /\ refs[h].node \notin alive
          => h \in Range(todo) /\ refs[h].death = n

(* A client that asks for entry 0, 1, 2, ... while others register sees    *)
(* every service that was there when it began and whose name fits into a   *)
(* reply: entries are put at the head and never removed, so one may be     *)
(* seen twice but none is skipped.  A service with a name of 110 to 127    *)
(* characters can be registered and found, but not seen in the list.       *)
ListNeverMisses ==
  \A c \in Clients :
    walk[c] # NoWalk /\ call[c] = NoCall /\ reply[c] = Failed
      => {n \in walk[c].start : FitsReply(n)} \subseteq walk[c].seen

(* The registration seen through its handle: the binder the name means.    *)
Denotes(h) == IF h = NoHandle THEN NoBinder ELSE refs[h].node

AbstractCall(m) ==
  CASE m.op = "add"  -> [op |-> "add", name |-> m.name, binder |-> Denotes(m.handle),
                         allow_isolated |-> m.allow_isolated,
                         dumpsys_priority |-> m.dumpsys_priority]
    [] m.op = "find" -> [op |-> "find", name |-> m.name, isolated |-> IsIsolated(m.uid)]
    [] OTHER         -> m

R == INSTANCE Registry WITH
       GoodNames <- {n \in Names : NameLen[n] \in 1 .. MaxNameLen},
       ListableNames <- {n \in Names : FitsReply(n)},
       table <- [n \in Names |-> Denotes(info[n].handle)],
       known <- Range(svclist),
       attrs <- [n \in Names |-> [allow_isolated |-> info[n].allow_isolated,
                                  dumpsys_priority |-> info[n].dumpsys_priority]],
       request <- [c \in Clients |-> AbstractCall(call[c])],
       answer <- reply

(* The service manager is a table of binders: handles are never confused   *)
(* although the driver reuses them, a lookup answers the binder last       *)
(* registered, the list has an entry for every name, if without the name   *)
(* where that is too long for a reply, and no registration of a live       *)
(* binder is withdrawn.                                                    *)
ImplementsRegistry == R!Spec

(* A service whose process died stops being found: whatever is registered  *)
(* and overridden meanwhile, a time comes, again and again, at which every *)
(* registration is that of a live binder.                                  *)
DeadServiceUnregistered ==
  []<>(\A n \in Names : Denotes(info[n].handle) \in alive \cup {NoBinder})

(* A client that lists the services comes to the end of the list although  *)
(* others register new names in between, each of which moves the entries   *)
(* it has still to ask for one further.                                    *)
ListingEnds ==
  \A c \in Clients : []<>(walk[c] = NoWalk)

(* The log of svcinfo_death, "service '%s' died": a registration that a    *)
(* death notice clears is that of a dead binder.  It does not hold when a  *)
(* binder is published under two names.                                    *)
NoticeClearsOnlyTheDead ==
  [][DeadBinder => \A n \in Names :
       info[n].handle # NoHandle /\ info'[n].handle = NoHandle
         => refs[info[n].handle].node \notin alive]_vars
=============================================================================
