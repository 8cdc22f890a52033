--------------------------- MODULE RegistryProofs ---------------------------
(***************************************************************************)
(* What the clients of the service manager rely on, proved for every set   *)
(* of clients, names, binders and handles: the notice of a dead service is *)
(* on its way, a listing misses nothing, and the table of handles is a     *)
(* table of binders.                                                       *)
(***************************************************************************)
EXTENDS ServiceManagerProofs, WellFoundedInduction

(* The work queue: a client is in it exactly while it waits, once, and the *)
(* notice of a handle comes after every add call that carries the handle.  *)
QueueOrder(q, cl) ==
  \A i, j \in DOMAIN q : i < j =>
    /\ q[i] \in Clients => q[i] # q[j]
    /\ q[i] \in Handles /\ q[j] \in Clients => ~Carrying(cl, q[j], q[i])

QueueWaits(q, cl) ==
  \A c \in Clients : cl[c] # NoCall <=> \E i \in DOMAIN q : q[i] = c

(* A node has one handle.                                                  *)
OneHandle(st) ==
  \A g, h \in Handles : st.refs[g].node = st.refs[h].node /\ st.refs[g].node # NoBinder => g = h

(* A death cookie is a name the binder is published under.                 *)
CookieOK(st) ==
  \A h \in Handles : st.refs[h].death # NoName =>
    <<st.refs[h].node, st.refs[h].death>> \in MayRegister

(* The death cookie of a registered handle is the name it is registered    *)
(* under.                                                                  *)
LinkedOK(st) ==
  \A n \in Names : st.info[n].handle # NoHandle => st.refs[st.info[n].handle].death = n

(* An add call under way carries a binder that is published under its name.*)
CarriedOK(st, cl) ==
  \A c \in Clients : cl[c].op = "add" /\ cl[c].handle # NoHandle =>
    <<st.refs[cl[c].handle].node, cl[c].name>> \in MayRegister

(* Whoever asked for the notice of a dead node has it in the queue.        *)
NoticeOK(st) ==
  \A h \in Handles : st.refs[h].death # NoName /\ st.refs[h].node \notin alive =>
    \E i \in DOMAIN st.todo : st.todo[i] = h

Bound(st, cl) == OneHandle(st) /\ CookieOK(st) /\ LinkedOK(st) /\ CarriedOK(st, cl)

NoticeInv ==
  /\ QueueOrder(todo, call) /\ QueueWaits(todo, call)
  /\ Bound(State, call) /\ NoticeOK(State)

----------------------------------------------------------------------------
(* Steps that drop references and the notices that go with them.           *)

(* The queue q is the queue p with some items left out.                    *)
Thinned(q, p) ==
  /\ \A i \in DOMAIN q : \E k \in DOMAIN p : p[k] = q[i]
  /\ \A i, j \in DOMAIN q : i < j => \E k, l \in DOMAIN p : k < l /\ p[k] = q[i] /\ p[l] = q[j]

(* From old to new, what is still referred to is what it was, and only the *)
(* notice of a handle that is not left the queue.                          *)
Passes(old, new) ==
  /\ \A g \in Handles : new.refs[g].strong # 0 =>
       /\ old.refs[g].strong # 0
       /\ new.refs[g].node = old.refs[g].node /\ new.refs[g].death = old.refs[g].death
  /\ Thinned(new.todo, old.todo)
  /\ \A k \in DOMAIN old.todo :
       \/ \E i \in DOMAIN new.todo : new.todo[i] = old.todo[k]
       \/ old.todo[k] \in Handles /\ new.refs[old.todo[k]].strong = 0

(* Removing x leaves every other element.                                  *)
LEMMA WithoutKeeps ==
  ASSUME NEW S, NEW s \in Seq(S), NEW x
  PROVE  \A k \in DOMAIN s : s[k] # x => \E i \in DOMAIN Without(s, x) : Without(s, x)[i] = s[k]
<1>1. CASE x \notin Range(s)
  BY <1>1 DEF Without
<1>2. CASE x \in Range(s)
  <2> DEFINE i == CHOOSE j \in DOMAIN s : s[j] = x
             w == [j \in 1 .. Len(s) - 1 |-> IF j < i THEN s[j] ELSE s[j + 1]]
  <2>1. Without(s, x) = w
    BY <1>2 DEF Without
  <2>2. i \in DOMAIN s /\ s[i] = x
    BY <1>2 DEF Range
  <2>3. DOMAIN s = 1 .. Len(s) /\ Len(s) \in Nat /\ DOMAIN w = 1 .. Len(s) - 1
    OBVIOUS
  <2> SUFFICES ASSUME NEW k \in DOMAIN s, s[k] # x
               PROVE  \E j \in DOMAIN w : w[j] = s[k]
    BY <2>1
  <2> HIDE DEF i
  <2>4. k # i
    BY <2>2
  <2>5. CASE k < i
    <3>1. k \in 1 .. Len(s) - 1 /\ w[k] = s[k]
      BY <2>2, <2>3, <2>5
    <3> QED
      BY <3>1, <2>3
  <2>6. CASE k > i
    <3>1. k - 1 \in 1 .. Len(s) - 1 /\ ~(k - 1 < i) /\ (k - 1) + 1 = k
      BY <2>2, <2>3, <2>6
    <3>2. w[k - 1] = s[k]
      BY <3>1
    <3> QED
      BY <3>1, <3>2, <2>3
  <2> QED
    BY <2>2, <2>3, <2>4, <2>5, <2>6
<1> QED
  BY <1>1, <1>2

(* A queue is itself with nothing left out.                                *)
LEMMA ThinnedSame == ASSUME NEW q PROVE Thinned(q, q)
BY DEF Thinned

(* A state passes into itself.                                             *)
LEMMA PassesSame == ASSUME NEW st, Good(st) PROVE Passes(st, st)
BY ThinnedSame DEF Passes

(* Two such steps are one.                                                 *)
LEMMA PassesTwice ==
  ASSUME NEW a, NEW b, NEW c, Passes(a, b), Passes(b, c), 
         \A k \in DOMAIN b.todo : b.todo[k] \in Clients \cup Handles
  PROVE  Passes(a, c)
<1>1. \A g \in Handles : c.refs[g].strong # 0 =>
        /\ a.refs[g].strong # 0
        /\ c.refs[g].node = a.refs[g].node /\ c.refs[g].death = a.refs[g].death
  BY DEF Passes
<1>2. Thinned(c.todo, a.todo)
  <2>1. Thinned(c.todo, b.todo) /\ Thinned(b.todo, a.todo)
    BY DEF Passes
  <2>2. \A i \in DOMAIN c.todo : \E k \in DOMAIN a.todo : a.todo[k] = c.todo[i]
    BY <2>1 DEF Thinned
  <2>3. ASSUME NEW i \in DOMAIN c.todo, NEW j \in DOMAIN c.todo, i < j
        PROVE  \E k, l \in DOMAIN a.todo : k < l /\ a.todo[k] = c.todo[i] /\ a.todo[l] = c.todo[j]
    <3>1. PICK k \in DOMAIN b.todo, l \in DOMAIN b.todo :
            k < l /\ b.todo[k] = c.todo[i] /\ b.todo[l] = c.todo[j]
      BY <2>1, <2>3 DEF Thinned
    <3> QED
      BY <2>1, <3>1 DEF Thinned
  <2> QED
    BY <2>2, <2>3 DEF Thinned
<1>3. ASSUME NEW k \in DOMAIN a.todo
      PROVE  \/ \E i \in DOMAIN c.todo : c.todo[i] = a.todo[k]
             \/ a.todo[k] \in Handles /\ c.refs[a.todo[k]].strong = 0
  BY DEF Passes
<1> QED
  BY <1>1, <1>2, <1>3 DEF Passes

(* A release of the last reference drops it, with its notice; any other    *)
(* only counts.                                                            *)
LEMMA ReleasePasses ==
  ASSUME NEW st, Good(st), NEW h \in Handles
  PROVE  Passes(st, BC_RELEASE(st, h))
<1> DEFINE new == BC_RELEASE(st, h)
<1>0. /\ st \in StateType /\ QueueOK(st) /\ UnusedOK(st)
      /\ st.refs \in [Handles -> Ref] /\ st.todo \in Seq(Clients \cup Handles)
  BY DEF Good, StateType
<1>1. CASE st.refs[h].strong = 0
  BY <1>1, PassesSame DEF BC_RELEASE
<1>2. CASE st.refs[h].strong = 1
  <2> DEFINE w == Without(st.todo, h)
  <2>1. new = [st EXCEPT !.refs[h] = NoRef, !.todo = w]
    BY <1>0, <1>2 DEF BC_RELEASE, Ref
  <2>2. new.refs = [st.refs EXCEPT ![h] = NoRef] /\ new.todo = w
    BY <2>1, <1>0 DEF StateType
  <2>3. \A i, j \in DOMAIN st.todo : st.todo[i] = st.todo[j] /\ st.todo[i] = h => i = j
    BY <1>0 DEF QueueOK
  <2>t. st.todo \in Seq(Clients \cup Handles)
    BY <1>0
  <2>4. Thinned(w, st.todo)
    <3>1. ASSUME NEW q \in Seq(Clients \cup Handles),
                 \A i, j \in DOMAIN q : q[i] = q[j] /\ q[i] = h => i = j
          PROVE  Thinned(Without(q, h), q)
      BY <3>1, WithoutLemma DEF Thinned
    <3> QED
      BY <2>t, <2>3, <3>1
  <2>5. \A k \in DOMAIN st.todo : st.todo[k] # h => \E i \in DOMAIN w : w[i] = st.todo[k]
    <3>1. \A q \in Seq(Clients \cup Handles) : \A k \in DOMAIN q :
            q[k] # h => \E i \in DOMAIN Without(q, h) : Without(q, h)[i] = q[k]
      BY WithoutKeeps
    <3> QED
      BY <2>t, <3>1
  <2> HIDE DEF w, new
  <2>6. new.refs[h].strong = 0 /\ \A g \in Handles \ {h} : new.refs[g] = st.refs[g]
    BY <2>2, <1>0 DEF NoRef
  <2> QED
    BY <2>2, <2>4, <2>5, <2>6 DEF Passes, new
<1>3. CASE st.refs[h].strong \notin {0, 1}
  <2>1. new = [st EXCEPT !.refs[h].strong = @ - 1]
    BY <1>3 DEF BC_RELEASE
  <2>2. new.refs = [st.refs EXCEPT ![h].strong = @ - 1] /\ new.todo = st.todo
    BY <2>1, <1>0 DEF StateType
  <2>3. new.refs[h] = [st.refs[h] EXCEPT !.strong = @ - 1] /\ st.refs[h] \in Ref
    BY <2>2, <1>0
  <2>4. new.refs[h].node = st.refs[h].node /\ new.refs[h].death = st.refs[h].death
    BY <2>3 DEF Ref
  <2>5. \A g \in Handles \ {h} : new.refs[g] = st.refs[g]
    BY <2>2, <1>0
  <2> HIDE DEF new
  <2>6. \A g \in Handles : /\ new.refs[g].node = st.refs[g].node
                           /\ new.refs[g].death = st.refs[g].death
                           /\ new.refs[g].strong # 0 => st.refs[g].strong # 0
    BY <2>4, <2>5, <1>3
  <2> QED
    BY <2>2, <2>6, ThinnedSame DEF Passes, new
<1> QED
  BY <1>1, <1>2, <1>3

(* svcinfo_death drops a reference at most and clears one entry.           *)
LEMMA DeathPasses ==
  ASSUME NEW st, Good(st), NEW n \in Names
  PROVE  LET new == svcinfo_death(st, n)
         IN  /\ Passes(st, new) /\ new.svclist = st.svclist
             /\ new.info = [st.info EXCEPT ![n].handle = NoHandle]
<1> DEFINE h == st.info[n].handle
           rel == BC_RELEASE(st, h)
           new == svcinfo_death(st, n)
<1>0. st \in StateType /\ st.info \in [Names -> SvcInfo] /\ st.info[n] \in SvcInfo
  BY DEF Good, StateType
<1>1. CASE h = NoHandle
  <2>1. new = st
    BY <1>1 DEF svcinfo_death
  <2>2. [st.info[n] EXCEPT !.handle = NoHandle] = st.info[n]
    BY <1>0, <1>1 DEF SvcInfo
  <2>3. [st.info EXCEPT ![n].handle = NoHandle] = st.info
    BY <1>0, <2>2
  <2> QED
    BY <2>1, <2>3, PassesSame
<1>2. CASE h # NoHandle
  <2>1. h \in Handles
    BY <1>0, <1>2 DEF SvcInfo
  <2>2. Passes(st, rel) /\ Good(rel) /\ rel.info = st.info /\ rel.svclist = st.svclist
    BY <2>1, ReleasePasses, ReleaseLemma
  <2>3. new = [rel EXCEPT !.info[n].handle = NoHandle]
    BY <1>2 DEF svcinfo_death, binder_release
  <2> HIDE DEF rel, new
  <2>4. rel \in StateType
    BY <2>2 DEF Good
  <2>5. /\ new.refs = rel.refs /\ new.todo = rel.todo /\ new.svclist = rel.svclist
        /\ new.info = [rel.info EXCEPT ![n].handle = NoHandle]
    BY <2>3, <2>4 DEF StateType
  <2>6. Passes(st, new)
    BY <2>2, <2>5 DEF Passes
  <2> QED
    BY <2>2, <2>5, <2>6 DEF new
<1> QED
  BY <1>1, <1>2

(* Freeing the buffer of a call drops a reference at most.                 *)
LEMMA FreePasses ==
  ASSUME NEW st, Good(st), NEW m \in Message \cup {NoCall}
  PROVE  LET new == BC_FREE_BUFFER(st, m)
         IN  Passes(st, new) /\ new.svclist = st.svclist /\ new.info = st.info
<1>1. CASE m.op = "add" /\ m.handle # NoHandle
  <2>1. m.handle \in Handles
    BY <1>1 DEF Message, AddMsg, FindMsg, ListMsg, PlainMsg, NoCall
  <2> QED
    BY <1>1, <2>1, ReleasePasses, ReleaseLemma DEF BC_FREE_BUFFER
<1>2. CASE ~(m.op = "add" /\ m.handle # NoHandle)
  BY <1>2, PassesSame DEF BC_FREE_BUFFER
<1> QED
  BY <1>1, <1>2

----------------------------------------------------------------------------
(* What such a step keeps.                                                 *)

(* A handle that an entry holds or a call carries is referred to.          *)
LEMMA InUse ==
  ASSUME NEW st, NEW cl, Balanced(st, cl), NEW h \in Handles,
         \/ \E n \in Names : st.info[n].handle = h
         \/ \E c \in Clients : cl[c].op = "add" /\ cl[c].handle = h
  PROVE  st.refs[h].strong # 0
<1>1. st.refs[h].strong = Cardinality(Holders(st.info, h)) + Cardinality(Carriers(cl, h))
  BY DEF Balanced
<1>2. /\ IsFiniteSet(Holders(st.info, h)) /\ Cardinality(Holders(st.info, h)) \in Nat
      /\ IsFiniteSet(Carriers(cl, h)) /\ Cardinality(Carriers(cl, h)) \in Nat
  BY CountType
<1>3. Holders(st.info, h) # {} \/ Carriers(cl, h) # {}
  BY DEF Holders, Carriers
<1>4. Cardinality(Holders(st.info, h)) # 0 \/ Cardinality(Carriers(cl, h)) # 0
  BY <1>2, <1>3, FS_EmptySet
<1> QED
  BY <1>1, <1>2, <1>4

(* The entries of new are entries of old, or cleared.                      *)
Fewer(old, new) ==
  \A n \in Names : new.info[n].handle \in {old.info[n].handle, NoHandle}

(* Handles, cookies and registrations still belong together.               *)
LEMMA BoundPasses ==
  ASSUME NEW old, NEW new, NEW cl \in [Clients -> Message \cup {NoCall}],
         Good(new), Balanced(new, cl), Passes(old, new), Fewer(old, new), Bound(old, cl)
  PROVE  Bound(new, cl)
<1>0. /\ new \in StateType /\ UnusedOK(new) /\ new.info \in [Names -> SvcInfo]
      /\ \A n \in Names : new.info[n].handle \in Handles \cup {NoHandle}
  BY DEF Good, StateType, SvcInfo
<1>1. \A g \in Handles : new.refs[g].strong # 0 =>
        new.refs[g].node = old.refs[g].node /\ new.refs[g].death = old.refs[g].death
  BY DEF Passes
<1>2. \A g \in Handles : new.refs[g].strong = 0 =>
        new.refs[g].node = NoBinder /\ new.refs[g].death = NoName
  BY <1>0 DEF UnusedOK, NoRef
<1>3. OneHandle(new) /\ CookieOK(new)
  BY <1>1, <1>2 DEF Bound, OneHandle, CookieOK
<1>4. LinkedOK(new)
  <2> SUFFICES ASSUME NEW n \in Names, new.info[n].handle # NoHandle
               PROVE  new.refs[new.info[n].handle].death = n
    BY DEF LinkedOK
  <2>1. new.info[n].handle \in Handles /\ new.info[n].handle = old.info[n].handle
    BY <1>0 DEF Fewer
  <2>2. new.refs[new.info[n].handle].strong # 0
    BY <2>1, InUse
  <2> QED
    BY <2>1, <2>2, <1>1 DEF Bound, LinkedOK
<1>5. CarriedOK(new, cl)
  <2> SUFFICES ASSUME NEW c \in Clients, cl[c].op = "add", cl[c].handle # NoHandle
               PROVE  <<new.refs[cl[c].handle].node, cl[c].name>> \in MayRegister
    BY DEF CarriedOK
  <2>1. cl[c].handle \in Handles
    BY DEF Message, AddMsg, FindMsg, ListMsg, PlainMsg, NoCall
  <2>2. new.refs[cl[c].handle].strong # 0
    BY <2>1, InUse
  <2> QED
    BY <2>1, <2>2, <1>1 DEF Bound, CarriedOK
<1> QED
  BY <1>3, <1>4, <1>5 DEF Bound

(* No notice is lost.                                                      *)
LEMMA NoticePasses ==
  ASSUME NEW old, NEW new, Good(new), Passes(old, new), NoticeOK(old)
  PROVE  NoticeOK(new)
<1> SUFFICES ASSUME NEW h \in Handles, new.refs[h].death # NoName, new.refs[h].node \notin alive
             PROVE  \E i \in DOMAIN new.todo : new.todo[i] = h
  BY DEF NoticeOK
<1>1. new.refs[h].strong # 0
  BY DEF Good, UnusedOK, NoRef
<1>2. old.refs[h].death # NoName /\ old.refs[h].node \notin alive
  BY <1>1 DEF Passes
<1>3. PICK k \in DOMAIN old.todo : old.todo[k] = h
  BY <1>2 DEF NoticeOK
<1> QED
  BY <1>1, <1>3 DEF Passes

(* The order of the queue and who waits in it stay.                        *)
LEMMA QueuePasses ==
  ASSUME NEW old, NEW new, NEW cl, Passes(old, new),
         QueueOrder(old.todo, cl), QueueWaits(old.todo, cl)
  PROVE  QueueOrder(new.todo, cl) /\ QueueWaits(new.todo, cl)
<1>1. Thinned(new.todo, old.todo)
  BY DEF Passes
<1>2. QueueOrder(new.todo, cl)
  <2> SUFFICES ASSUME NEW i \in DOMAIN new.todo, NEW j \in DOMAIN new.todo, i < j
               PROVE  /\ new.todo[i] \in Clients => new.todo[i] # new.todo[j]
                      /\ new.todo[i] \in Handles /\ new.todo[j] \in Clients =>
                           ~Carrying(cl, new.todo[j], new.todo[i])
    BY DEF QueueOrder
  <2>1. PICK k \in DOMAIN old.todo, l \in DOMAIN old.todo :
          k < l /\ old.todo[k] = new.todo[i] /\ old.todo[l] = new.todo[j]
    BY <1>1 DEF Thinned
  <2> QED
    BY <2>1 DEF QueueOrder
<1>3. ASSUME NEW c \in Clients
      PROVE  (\E i \in DOMAIN old.todo : old.todo[i] = c)
               <=> (\E i \in DOMAIN new.todo : new.todo[i] = c)
  BY <1>1, ConstantsAssumption DEF Passes, Thinned
<1> QED
  BY <1>2, <1>3 DEF QueueWaits

----------------------------------------------------------------------------
(* A registration, up to the request for the death notification.           *)

(* The entry of the name holds the new handle: an old entry keeps its      *)
(* attributes and its place, a new one is the first of the list.           *)
Entered(st, a, m) ==
  /\ \A k \in Names \ {m.name} : a.info[k] = st.info[k]
  /\ a.info[m.name].handle = m.handle
  /\ IF find_svc(st, m.name)
       THEN /\ a.svclist = st.svclist
            /\ a.info[m.name].allow_isolated = st.info[m.name].allow_isolated
            /\ a.info[m.name].dumpsys_priority = st.info[m.name].dumpsys_priority
       ELSE /\ a.svclist = <<m.name>> \o st.svclist
            /\ a.info[m.name].allow_isolated = m.allow_isolated
            /\ a.info[m.name].dumpsys_priority = m.dumpsys_priority

(* EnterService with the release of the reference it replaces.             *)
LEMMA EnterLemma ==
  ASSUME NEW st, Good(st), ListedOK(st), NEW cl, Balanced(st, cl),
         NEW x \in Clients, NEW m \in AddMsg, cl[x] = m, Acceptable(m)
  PROVE  LET e == EnterService(st, m)
         IN  Good(e) /\ Passes(st, e) /\ Entered(st, e, m) /\ e.refs[m.handle].strong # 0
<1> DEFINE e == EnterService(st, m)
           d == svcinfo_death(st, m.name)
<1>0. /\ m.handle \in Handles /\ m.name \in Names /\ m.op = "add"
      /\ m.allow_isolated \in BOOLEAN /\ m.dumpsys_priority \in Masks
  BY DEF Acceptable, AddMsg
<1>1. st \in StateType /\ st.info \in [Names -> SvcInfo] /\ st.info[m.name] \in SvcInfo
  BY <1>0 DEF Good, StateType
<1>2. CASE find_svc(st, m.name)
  <2>1. /\ Good(d) /\ Balanced(d, cl) /\ d.svclist = st.svclist
        /\ Passes(st, d) /\ d.info = [st.info EXCEPT ![m.name].handle = NoHandle]
    BY <1>0, DeathLemma, DeathPasses
  <2>2. e = [d EXCEPT !.info[m.name].handle = m.handle]
    BY <1>2 DEF EnterService
  <2> HIDE DEF d, e
  <2>3. d \in StateType /\ d.info \in [Names -> SvcInfo] /\ d.info[m.name] \in SvcInfo
    BY <2>1, <1>0 DEF Good, StateType
  <2>4. /\ e.refs = d.refs /\ e.todo = d.todo /\ e.svclist = d.svclist
        /\ e.info = [d.info EXCEPT ![m.name].handle = m.handle]
    BY <2>2, <2>3 DEF StateType
  <2>5. e.info[m.name] = [d.info[m.name] EXCEPT !.handle = m.handle]
    BY <2>3, <2>4, <1>0
  <2>6. /\ e.info[m.name].handle = m.handle
        /\ e.info[m.name].allow_isolated = d.info[m.name].allow_isolated
        /\ e.info[m.name].dumpsys_priority = d.info[m.name].dumpsys_priority
        /\ [d.info[m.name] EXCEPT !.handle = m.handle] \in SvcInfo
    BY <2>3, <2>5, <1>0 DEF SvcInfo
  <2>7. \A k \in Names \ {m.name} : e.info[k] = st.info[k]
    BY <2>1, <2>3, <2>4, <1>1, <1>0
  <2>8. d.info[m.name] = [st.info[m.name] EXCEPT !.handle = NoHandle]
    BY <2>1, <1>1, <1>0
  <2>9. /\ d.info[m.name].allow_isolated = st.info[m.name].allow_isolated
        /\ d.info[m.name].dumpsys_priority = st.info[m.name].dumpsys_priority
    BY <2>8, <1>1 DEF SvcInfo
  <2>10. Entered(st, e, m)
    BY <1>2, <2>1, <2>4, <2>6, <2>7, <2>9 DEF Entered
  <2>11. e.info \in [Names -> SvcInfo]
    BY <2>3, <2>4, <2>6
  <2>12. e \in StateType
    BY <2>2, <2>3, <2>11, <2>4 DEF StateType
  <2>13. Good(e)
    BY <2>1, <2>4, <2>12 DEF Good, QueueOK, UnusedOK
  <2>14. Passes(st, e)
    BY <2>1, <2>4 DEF Passes
  <2>15. e.refs[m.handle].strong # 0
    BY <2>1, <2>4, <1>0, InUse
  <2> QED
    BY <2>10, <2>13, <2>14, <2>15 DEF e
<1>3. CASE ~find_svc(st, m.name)
  <2> DEFINE i == [handle |-> m.handle, allow_isolated |-> m.allow_isolated,
                   dumpsys_priority |-> m.dumpsys_priority]
  <2>1. e = [st EXCEPT !.svclist = <<m.name>> \o @, !.info[m.name] = i]
    BY <1>3 DEF EnterService
  <2>2. i \in SvcInfo
    BY <1>0 DEF SvcInfo
  <2>3. <<m.name>> \o st.svclist \in Seq(Names)
    BY <1>0, <1>1 DEF StateType
  <2>4. /\ e.refs = st.refs /\ e.todo = st.todo /\ e.svclist = <<m.name>> \o st.svclist
        /\ e.info = [st.info EXCEPT ![m.name] = i]
    BY <2>1, <1>1 DEF StateType
  <2>5. e.info \in [Names -> SvcInfo] /\ e.info[m.name] = i
    BY <2>2, <2>4, <1>0, <1>1
  <2>6. e \in StateType
    BY <2>1, <2>3, <2>4, <2>5, <1>1 DEF StateType
  <2> HIDE DEF e
  <2>7. Good(e)
    BY <2>4, <2>6 DEF Good, QueueOK, UnusedOK
  <2>8. Passes(st, e)
    BY <2>4, PassesSame DEF Passes
  <2>9. \A k \in Names \ {m.name} : e.info[k] = st.info[k]
    BY <2>4, <1>1
  <2>10. Entered(st, e, m)
    BY <1>3, <2>4, <2>5, <2>9 DEF Entered
  <2>11. e.refs[m.handle].strong # 0
    BY <2>4, <1>0, InUse
  <2> QED
    BY <2>7, <2>8, <2>10, <2>11 DEF e
<1> QED
  BY <1>2, <1>3

(* The state in which do_add_service asks for the death notification.      *)
Asking(st, a, m, cl) ==
  /\ Good(a) /\ Balanced(a, cl) /\ Passes(st, a) /\ Entered(st, a, m)
  /\ a.refs[m.handle].strong # 0
  /\ do_add_service(st, m) = BC_REQUEST_DEATH_NOTIFICATION(a, m.handle, m.name)

(* do_add_service acquires the handle before it asks for its death         *)
(* notice.                                                                 *)
LEMMA AskingLemma ==
  ASSUME NEW st, Good(st), ListedOK(st), NEW cl, Balanced(st, cl), alive \in SUBSET Binders,
         NEW x \in Clients, NEW m \in AddMsg, cl[x] = m, Acceptable(m)
  PROVE  \E a : Asking(st, a, m, cl)
<1> DEFINE e == EnterService(st, m)
           a == BC_ACQUIRE(e, m.handle)
           l == BC_REQUEST_DEATH_NOTIFICATION(a, m.handle, m.name)
<1>0. m.handle \in Handles /\ m.name \in Names
  BY DEF Acceptable, AddMsg
<1>1. Good(e) /\ Passes(st, e) /\ Entered(st, e, m) /\ e.refs[m.handle].strong # 0
  BY EnterLemma
<1>2. do_add_service(st, m) = l
  BY DEF do_add_service, binder_acquire, binder_link_to_death
<1> HIDE DEF e
<1>3. /\ Good(a) /\ a.info = e.info /\ a.svclist = e.svclist
      /\ \A g \in Handles : g # m.handle => a.refs[g] = e.refs[g]
      /\ a.refs[m.handle].strong = e.refs[m.handle].strong + 1
  BY <1>0, <1>1, AcquireLemma
<1>4. /\ a.refs[m.handle].node = e.refs[m.handle].node
      /\ a.refs[m.handle].death = e.refs[m.handle].death /\ a.todo = e.todo
  <2>1. e \in StateType /\ e.refs \in [Handles -> Ref] /\ e.refs[m.handle] \in Ref
    BY <1>0, <1>1 DEF Good, StateType
  <2>2. a = [e EXCEPT !.refs[m.handle].strong = @ + 1]
    BY <1>1 DEF BC_ACQUIRE
  <2>3. a.refs = [e.refs EXCEPT ![m.handle].strong = @ + 1] /\ a.todo = e.todo
    BY <2>1, <2>2 DEF StateType
  <2>4. a.refs[m.handle] = [e.refs[m.handle] EXCEPT !.strong = @ + 1]
    BY <2>1, <2>3, <1>0
  <2> QED
    BY <2>1, <2>3, <2>4 DEF Ref
<1> HIDE DEF a
<1>5. a.refs[m.handle].strong # 0
  <2>1. e.refs[m.handle].strong \in Nat
    BY <1>0, <1>1 DEF Good, StateType, Ref
  <2> QED
    BY <2>1, <1>3
<1>6. Passes(st, a)
  <2>1. Passes(e, a)
    BY <1>1, <1>3, <1>4, ThinnedSame DEF Passes
  <2>2. \A k \in DOMAIN e.todo : e.todo[k] \in Clients \cup Handles
    BY <1>1 DEF Good, StateType
  <2> QED
    BY <1>1, <2>1, <2>2, PassesTwice
<1>7. Entered(st, a, m)
  BY <1>1, <1>3 DEF Entered
<1>8. Balanced(a, cl)
  <2>1. Balanced(l, cl)
    BY <1>2, AddLemma
  <2>2. l.info = a.info /\ \A g \in Handles : l.refs[g].strong = a.refs[g].strong
    BY <1>0, <1>3, LinkLemma
  <2> HIDE DEF l
  <2> QED
    BY <2>1, <2>2 DEF Balanced
<1> QED
  BY <1>2, <1>3, <1>5, <1>6, <1>7, <1>8 DEF Asking

(* The request itself: refused when there is one, queued at once when the  *)
(* node is dead.                                                           *)
Requested(a, l, m) ==
  /\ l.info = a.info /\ l.svclist = a.svclist
  /\ \A g \in Handles : /\ l.refs[g].strong = a.refs[g].strong
                        /\ l.refs[g].node = a.refs[g].node
                        /\ g # m.handle => l.refs[g].death = a.refs[g].death
  /\ \/ a.refs[m.handle].death # NoName
        /\ l.refs[m.handle].death = a.refs[m.handle].death /\ l.todo = a.todo
     \/ a.refs[m.handle].death = NoName /\ l.refs[m.handle].death = m.name
        /\ l.todo = IF a.refs[m.handle].node \in alive THEN a.todo ELSE Append(a.todo, m.handle)

(* A death notification is requested once per reference, and queued at     *)
(* once for a dead node.                                                   *)
LEMMA RequestLemma ==
  ASSUME NEW a, Good(a), NEW m \in AddMsg, Acceptable(m), a.refs[m.handle].strong # 0
  PROVE  Requested(a, BC_REQUEST_DEATH_NOTIFICATION(a, m.handle, m.name), m)
<1> DEFINE h == m.handle
           l == BC_REQUEST_DEATH_NOTIFICATION(a, h, m.name)
<1>0. h \in Handles /\ m.name \in Names /\ a \in StateType /\ a.refs \in [Handles -> Ref]
  BY DEF Acceptable, AddMsg, Good, StateType
<1>1. CASE a.refs[h].death # NoName
  <2>1. l = a
    BY <1>1 DEF BC_REQUEST_DEATH_NOTIFICATION
  <2> QED
    BY <1>1, <2>1 DEF Requested
<1>2. CASE a.refs[h].death = NoName
  <2> DEFINE q == IF a.refs[h].node \in alive THEN a.todo ELSE Append(a.todo, h)
  <2>1. l = [a EXCEPT !.refs[h].death = m.name, !.todo = q]
    BY <1>2 DEF BC_REQUEST_DEATH_NOTIFICATION
  <2> HIDE DEF q
  <2>2. /\ l.refs = [a.refs EXCEPT ![h].death = m.name] /\ l.todo = q
        /\ l.info = a.info /\ l.svclist = a.svclist
    BY <2>1, <1>0 DEF StateType
  <2> HIDE DEF l
  <2>3. l.refs[h] = [a.refs[h] EXCEPT !.death = m.name] /\ a.refs[h] \in Ref
    BY <2>2, <1>0
  <2>4. /\ l.refs[h].death = m.name /\ l.refs[h].node = a.refs[h].node
        /\ l.refs[h].strong = a.refs[h].strong
    BY <2>3 DEF Ref
  <2>5. \A g \in Handles : g # h => l.refs[g] = a.refs[g]
    BY <2>2, <1>0
  <2>6. \A g \in Handles : /\ l.refs[g].strong = a.refs[g].strong
                           /\ l.refs[g].node = a.refs[g].node
                           /\ g # h => l.refs[g].death = a.refs[g].death
    BY <2>4, <2>5
  <2> QED
    BY <1>2, <2>2, <2>4, <2>6 DEF Requested, q, l
<1> QED
  BY <1>1, <1>2

(* A registration keeps handles, cookies and entries together: a cookie    *)
(* that is there already names the same entry, since a binder has one name.*)
LEMMA AddBound ==
  ASSUME SingleNamed, NEW st, NEW a, NEW l, NEW m \in AddMsg, Acceptable(m),
         NEW cl \in [Clients -> Message \cup {NoCall}], NEW x \in Clients, cl[x] = m,
         Asking(st, a, m, cl), Requested(a, l, m), Bound(st, cl)
  PROVE  Bound(l, cl)
<1> DEFINE h == m.handle
<1>0. /\ h \in Handles /\ m.name \in Names /\ h # NoHandle /\ m.op = "add"
      /\ Good(a) /\ UnusedOK(a) /\ Passes(st, a) /\ Entered(st, a, m) /\ Balanced(a, cl)
      /\ \A n \in Names : a.info[n].handle \in Handles \cup {NoHandle}
  BY DEF Acceptable, AddMsg, Asking, Good, StateType, SvcInfo
<1>1. \A g \in Handles : a.refs[g].strong # 0 =>
        a.refs[g].node = st.refs[g].node /\ a.refs[g].death = st.refs[g].death
  BY <1>0 DEF Passes
<1>2. \A g \in Handles : a.refs[g].strong = 0 =>
        a.refs[g].node = NoBinder /\ a.refs[g].death = NoName
  BY <1>0 DEF UnusedOK, NoRef
<1>3. OneHandle(a) /\ CookieOK(a)
  BY <1>1, <1>2 DEF Bound, OneHandle, CookieOK
<1>4. CarriedOK(a, cl)
  <2> SUFFICES ASSUME NEW c \in Clients, cl[c].op = "add", cl[c].handle # NoHandle
               PROVE  <<a.refs[cl[c].handle].node, cl[c].name>> \in MayRegister
    BY DEF CarriedOK
  <2>1. cl[c].handle \in Handles
    BY DEF Message, AddMsg, FindMsg, ListMsg, PlainMsg, NoCall
  <2>2. a.refs[cl[c].handle].strong # 0
    BY <2>1, <1>0, InUse
  <2> QED
    BY <2>1, <2>2, <1>1 DEF Bound, CarriedOK
<1>5. <<a.refs[h].node, m.name>> \in MayRegister
  BY <1>0, <1>4 DEF CarriedOK
<1>6. l.refs[h].death = m.name
  <2>1. ASSUME a.refs[h].death # NoName PROVE a.refs[h].death = m.name
    <3>1. <<a.refs[h].node, a.refs[h].death>> \in MayRegister
      BY <1>0, <1>3, <2>1 DEF CookieOK
    <3> QED
      BY <3>1, <1>5 DEF SingleNamed
  <2> QED
    BY <2>1 DEF Requested
<1>7. \A g \in Handles : l.refs[g].node = a.refs[g].node
  BY DEF Requested
<1>8. OneHandle(l)
  BY <1>3, <1>7 DEF OneHandle
<1>9. CookieOK(l)
  BY <1>3, <1>5, <1>6, <1>7 DEF CookieOK, Requested
<1>10. CarriedOK(l, cl)
  <2>1. \A c \in Clients : cl[c].op = "add" /\ cl[c].handle # NoHandle => cl[c].handle \in Handles
    BY DEF Message, AddMsg, FindMsg, ListMsg, PlainMsg, NoCall
  <2> QED
    BY <2>1, <1>4, <1>7 DEF CarriedOK
<1>11. LinkedOK(l)
  <2> SUFFICES ASSUME NEW n \in Names, l.info[n].handle # NoHandle
               PROVE  l.refs[l.info[n].handle].death = n
    BY DEF LinkedOK
  <2>1. l.info = a.info
    BY DEF Requested
  <2>2. CASE n = m.name
    BY <2>1, <2>2, <1>0, <1>6 DEF Entered
  <2>3. CASE n # m.name
    <3> DEFINE g == a.info[n].handle
    <3>1. g \in Handles /\ g = st.info[n].handle
      BY <2>1, <2>3, <1>0 DEF Entered
    <3>2. a.refs[g].strong # 0
      BY <3>1, <1>0, InUse
    <3>3. a.refs[g].death = n
      BY <3>1, <3>2, <2>1, <1>1 DEF Bound, LinkedOK
    <3>4. a.refs[g].death # NoName
      BY <3>3, ConstantsAssumption
    <3> QED
      BY <3>1, <3>3, <3>4, <2>1 DEF Requested
  <2> QED
    BY <2>2, <2>3
<1> QED
  BY <1>8, <1>9, <1>10, <1>11 DEF Bound

(* An item put at the end of the queue.                                    *)
LEMMA AppendLemma ==
  ASSUME NEW S, NEW q \in Seq(S), NEW e \in S
  PROVE  /\ \A i \in DOMAIN q : i \in DOMAIN Append(q, e) /\ Append(q, e)[i] = q[i]
         /\ \A i \in DOMAIN Append(q, e) :
              (i \in DOMAIN q /\ Append(q, e)[i] = q[i]) \/ (i = Len(q) + 1 /\ Append(q, e)[i] = e)
         /\ \E i \in DOMAIN Append(q, e) : Append(q, e)[i] = e
         /\ DOMAIN q = 1 .. Len(q) /\ Len(q) \in Nat
         /\ DOMAIN Append(q, e) = 1 .. Len(q) + 1
<1>1. /\ DOMAIN q = 1 .. Len(q) /\ Len(q) \in Nat /\ DOMAIN Append(q, e) = 1 .. Len(q) + 1
      /\ \A i \in 1 .. Len(q) : Append(q, e)[i] = q[i]
      /\ Append(q, e)[Len(q) + 1] = e
  OBVIOUS
<1> QED
  BY <1>1

(* The notice of a registration that came too late is queued behind every  *)
(* call that carries the handle.                                           *)
LEMMA AddNotice ==
  ASSUME NEW st, NEW a, NEW l, NEW m \in AddMsg, Acceptable(m), NEW cl, NEW wait,
         Asking(st, a, m, cl), Requested(a, l, m), NoticeOK(st),
         QueueOrder(st.todo, wait), QueueWaits(st.todo, wait)
  PROVE  NoticeOK(l) /\ QueueOrder(l.todo, wait) /\ QueueWaits(l.todo, wait)
<1> DEFINE h == m.handle
<1>0. h \in Handles /\ Good(a) /\ Passes(st, a) /\ a.todo \in Seq(Clients \cup Handles)
  BY DEF Acceptable, AddMsg, Asking, Good, StateType
<1>1. NoticeOK(a) /\ QueueOrder(a.todo, wait) /\ QueueWaits(a.todo, wait)
  BY <1>0, NoticePasses, QueuePasses
<1>2. CASE l.todo = a.todo /\ (a.refs[h].death # NoName \/ a.refs[h].node \in alive)
  BY <1>1, <1>2, <1>0 DEF NoticeOK, Requested
<1>3. CASE l.todo = Append(a.todo, h)
  <2>1. \A q \in Seq(Clients \cup Handles) :
           /\ \A i \in DOMAIN q : i \in DOMAIN Append(q, h) /\ Append(q, h)[i] = q[i]
           /\ \A i \in DOMAIN Append(q, h) :
                (i \in DOMAIN q /\ Append(q, h)[i] = q[i]) \/ (i = Len(q) + 1 /\ Append(q, h)[i] = h)
           /\ \E i \in DOMAIN Append(q, h) : Append(q, h)[i] = h
           /\ DOMAIN q = 1 .. Len(q) /\ Len(q) \in Nat
           /\ DOMAIN Append(q, h) = 1 .. Len(q) + 1
    <3>1. h \in Clients \cup Handles
      BY <1>0
    <3> HIDE DEF h
    <3> QED
      BY <3>1, AppendLemma, Zenon
  <2>2. /\ \A i \in DOMAIN a.todo : i \in DOMAIN l.todo /\ l.todo[i] = a.todo[i]
        /\ \A i \in DOMAIN l.todo :
             (i \in DOMAIN a.todo /\ l.todo[i] = a.todo[i]) \/ (i = Len(a.todo) + 1 /\ l.todo[i] = h)
        /\ \E i \in DOMAIN l.todo : l.todo[i] = h
        /\ DOMAIN a.todo = 1 .. Len(a.todo) /\ Len(a.todo) \in Nat
        /\ DOMAIN l.todo = 1 .. Len(a.todo) + 1
    BY <2>1, <1>0, <1>3
  <2>3. NoticeOK(l)
    <3> SUFFICES ASSUME NEW g \in Handles, l.refs[g].death # NoName, l.refs[g].node \notin alive
                 PROVE  \E i \in DOMAIN l.todo : l.todo[i] = g
      BY DEF NoticeOK
    <3>1. CASE g = h
      BY <3>1, <2>2
    <3>2. CASE g # h
      BY <3>2, <2>2, <1>1 DEF NoticeOK, Requested
    <3> QED
      BY <3>1, <3>2
  <2>4. QueueOrder(l.todo, wait)
    <3> SUFFICES ASSUME NEW i \in DOMAIN l.todo, NEW j \in DOMAIN l.todo, i < j
                 PROVE  /\ l.todo[i] \in Clients => l.todo[i] # l.todo[j]
                        /\ l.todo[i] \in Handles /\ l.todo[j] \in Clients =>
                             ~Carrying(wait, l.todo[j], l.todo[i])
      BY DEF QueueOrder
    <3>1. i \in DOMAIN a.todo /\ l.todo[i] = a.todo[i]
      BY <2>2
    <3>2. CASE j = Len(a.todo) + 1
      <4>1. l.todo[j] = h
        BY <3>2, <2>2
      <4> QED
        BY <4>1, <1>0, ConstantsAssumption
    <3>3. CASE j # Len(a.todo) + 1
      <4>1. j \in DOMAIN a.todo /\ l.todo[j] = a.todo[j]
        BY <3>3, <2>2
      <4> QED
        BY <4>1, <3>1, <1>1 DEF QueueOrder
    <3> QED
      BY <3>2, <3>3
  <2>5. QueueWaits(l.todo, wait)
    <3>1. h \notin Clients
      BY <1>0, ConstantsAssumption
    <3>2. \A c \in Clients : (\E i \in DOMAIN a.todo : a.todo[i] = c)
                               <=> (\E i \in DOMAIN l.todo : l.todo[i] = c)
      BY <3>1, <2>2
    <3> QED
      BY <3>2, <1>1 DEF QueueWaits
  <2> QED
    BY <2>3, <2>4, <2>5
<1> QED
  BY <1>2, <1>3 DEF Requested

----------------------------------------------------------------------------
(* One lemma per kind of step: the notices. *)

(* The queue without its first item.                                       *)
LEMMA TailLemma ==
  ASSUME NEW S, NEW q \in Seq(S), q # <<>>
  PROVE  /\ 1 \in DOMAIN q /\ q[1] = Head(q)
         /\ \A i \in DOMAIN Tail(q) : i \in Nat /\ i + 1 \in DOMAIN q /\ Tail(q)[i] = q[i + 1]
         /\ \A k \in DOMAIN q : k = 1 \/ (k - 1 \in DOMAIN Tail(q) /\ Tail(q)[k - 1] = q[k])
         /\ \A k \in DOMAIN q : k = 1 \/ 1 < k
<1>1. /\ DOMAIN q = 1 .. Len(q) /\ Len(q) \in Nat /\ Len(q) # 0 /\ q[1] = Head(q)
      /\ DOMAIN Tail(q) = 1 .. Len(q) - 1
      /\ \A i \in 1 .. Len(q) - 1 : Tail(q)[i] = q[i + 1]
  OBVIOUS
<1>2. \A k \in 2 .. Len(q) : k - 1 \in 1 .. Len(q) - 1 /\ Tail(q)[k - 1] = q[k]
  <2> SUFFICES ASSUME NEW k \in 2 .. Len(q)
               PROVE  k - 1 \in 1 .. Len(q) - 1 /\ Tail(q)[k - 1] = q[k]
    OBVIOUS
  <2>1. k - 1 \in 1 .. Len(q) - 1 /\ (k - 1) + 1 = k
    BY <1>1
  <2> QED
    BY <2>1, <1>1
<1> QED
  BY <1>1, <1>2

(* Nobody waits twice: without its first item, a client, the queue is that *)
(* of the clients that still wait.                                         *)
LEMMA PopClient ==
  ASSUME Inv, NoticeInv, todo # <<>>, Head(todo) \in Clients
  PROVE  LET c == Head(todo)
             wait == [call EXCEPT ![c] = NoCall]
         IN  QueueOrder(Tail(todo), wait) /\ QueueWaits(Tail(todo), wait)
<1> DEFINE c == Head(todo)
           wait == [call EXCEPT ![c] = NoCall]
           q == Tail(todo)
<1>1. todo \in Seq(Clients \cup Handles) /\ call \in [Clients -> Message \cup {NoCall}]
  BY DEF Inv, TypeOK
<1>2. /\ 1 \in DOMAIN todo /\ todo[1] = c
      /\ \A i \in DOMAIN q : i \in Nat /\ i + 1 \in DOMAIN todo /\ q[i] = todo[i + 1]
      /\ \A k \in DOMAIN todo : k = 1 \/ (k - 1 \in DOMAIN q /\ q[k - 1] = todo[k])
      /\ \A k \in DOMAIN todo : k = 1 \/ 1 < k
  BY <1>1, TailLemma
<1>3. /\ wait[c] = NoCall /\ \A x \in Clients \ {c} : wait[x] = call[x]
  BY <1>1
<1>4. QueueOrder(todo, call) /\ QueueWaits(todo, call)
  BY DEF NoticeInv
<1> HIDE DEF wait, c, q
<1>5. QueueOrder(q, wait)
  <2> SUFFICES ASSUME NEW i \in DOMAIN q, NEW j \in DOMAIN q, i < j
               PROVE  /\ q[i] \in Clients => q[i] # q[j]
                      /\ q[i] \in Handles /\ q[j] \in Clients => ~Carrying(wait, q[j], q[i])
    BY DEF QueueOrder
  <2>1. i + 1 \in DOMAIN todo /\ j + 1 \in DOMAIN todo /\ i + 1 < j + 1
        /\ q[i] = todo[i + 1] /\ q[j] = todo[j + 1]
    BY <1>2
  <2>2. /\ q[i] \in Clients => q[i] # q[j]
        /\ q[i] \in Handles /\ q[j] \in Clients => ~Carrying(call, q[j], q[i])
    BY <2>1, <1>4 DEF QueueOrder
  <2> QED
    BY <2>2, <1>3 DEF Carrying, NoCall
<1>6. QueueWaits(q, wait)
  <2> SUFFICES ASSUME NEW x \in Clients
               PROVE  wait[x] # NoCall <=> \E i \in DOMAIN q : q[i] = x
    BY DEF QueueWaits
  <2>1. CASE x = c
    <3>1. \A i \in DOMAIN q : 1 < i + 1 /\ i + 1 \in DOMAIN todo /\ q[i] = todo[i + 1]
      <4> SUFFICES ASSUME NEW i \in DOMAIN q
                   PROVE  1 < i + 1 /\ i + 1 \in DOMAIN todo /\ q[i] = todo[i + 1]
        OBVIOUS
      <4>1. i \in Nat /\ i + 1 \in DOMAIN todo /\ q[i] = todo[i + 1] /\ i # 0
        BY <1>2, <1>1 DEF q
      <4> QED
        BY <4>1
    <3>2. \A i \in DOMAIN q : q[i] # c
      BY <3>1, <2>1, <1>2, <1>4 DEF QueueOrder
    <3> QED
      BY <3>2, <2>1, <1>3
  <2>2. CASE x # c
    <3>1. (\E i \in DOMAIN todo : todo[i] = x) <=> \E i \in DOMAIN q : q[i] = x
      BY <2>2, <1>2
    <3> QED
      BY <3>1, <2>2, <1>3, <1>4 DEF QueueWaits
  <2> QED
    BY <2>1, <2>2
<1> QED
  BY <1>5, <1>6 DEF wait, c, q

(* The step that becomes st keeps what holds of st.                        *)
LEMMA BecomeNotice ==
  ASSUME NEW st, Become(st), Bound(st, call'), NoticeOK(st), UNCHANGED alive,
         QueueOrder(st.todo, call'), QueueWaits(st.todo, call')
  PROVE  NoticeInv'
<1>1. svclist' = st.svclist /\ info' = st.info /\ refs' = st.refs /\ todo' = st.todo
  BY DEF Become
<1>2. QueueOrder(todo, call)' /\ QueueWaits(todo, call)'
  BY <1>1 DEF QueueOrder, QueueWaits, Carrying
<1>3. Bound(State, call)'
  BY <1>1 DEF Bound, OneHandle, CookieOK, LinkedOK, CarriedOK, State
<1>4. NoticeOK(State)'
  BY <1>1 DEF NoticeOK, State
<1> QED
  BY <1>2, <1>3, <1>4 DEF NoticeInv

(* Serving a transaction.                                                  *)
LEMMA ServeNotice ==
  ASSUME SingleNamed, Inv, NoticeInv, ServeTransaction PROVE NoticeInv'
<1> DEFINE c == Head(todo)
           m == call[c]
           st == [State EXCEPT !.todo = Tail(todo)]
           h == svcmgr_handler(st, m)
           f == BC_FREE_BUFFER(h, m)
           wait == [call EXCEPT ![c] = NoCall]
<1>1. /\ c \in Clients /\ todo # <<>> /\ Become(f) /\ call' = wait /\ UNCHANGED <<alive, walk>>
  BY DEF ServeTransaction
<1>2. Good(st) /\ ListedOK(st) /\ Balanced(st, call)
  BY <1>1, PopLemma
<1>3. /\ call \in [Clients -> Message \cup {NoCall}] /\ m \in Message \cup {NoCall}
      /\ alive \in SUBSET Binders /\ todo \in Seq(Clients \cup Handles)
  BY <1>1 DEF Inv, TypeOK
<1>4. /\ st.refs = refs /\ st.info = info /\ st.todo = Tail(todo)
  BY DEF State
<1>5. QueueOrder(st.todo, wait) /\ QueueWaits(st.todo, wait)
  BY <1>1, <1>4, PopClient
<1>6. Bound(st, call)
  BY <1>4 DEF NoticeInv, Bound, OneHandle, CookieOK, LinkedOK, CarriedOK, State
<1>7. NoticeOK(st)
  <2>1. NoticeOK(State)
    BY DEF NoticeInv
  <2>2. /\ todo[1] = c
        /\ \A k \in DOMAIN todo : k = 1 \/ (k - 1 \in DOMAIN Tail(todo) /\ Tail(todo)[k - 1] = todo[k])
    BY <1>1, <1>3, TailLemma
  <2>3. c \notin Handles
    BY <1>1, ConstantsAssumption
  <2> QED
    BY <2>1, <2>2, <2>3, <1>4 DEF NoticeOK, State
<1> HIDE DEF st, c
<1>8. /\ Good(h) /\ ListedOK(h) /\ Balanced(h, call)
      /\ Bound(h, call) /\ NoticeOK(h) /\ QueueOrder(h.todo, wait) /\ QueueWaits(h.todo, wait)
  <2> HIDE DEF wait
  <2>1. CASE m.op = "add" /\ Acceptable(m)
    <3>1. m \in AddMsg
      BY <2>1, <1>3 DEF Message, AddMsg, FindMsg, ListMsg, PlainMsg, NoCall
    <3>2. h = do_add_service(st, m)
      BY <2>1 DEF svcmgr_handler
    <3>3. Good(h) /\ ListedOK(h) /\ Balanced(h, call)
      BY <3>1, <3>2, <1>1, <1>2, <1>3, AddLemma
    <3>4. PICK a : Asking(st, a, m, call)
      BY <2>1, <3>1, <1>1, <1>2, <1>3, AskingLemma
    <3>5. Requested(a, h, m)
      BY <2>1, <3>1, <3>2, <3>4, RequestLemma DEF Asking
    <3> HIDE DEF h, m
    <3>6. Bound(h, call)
      <4>1. call[c] = m
        BY DEF m
      <4> QED
        BY <2>1, <3>1, <3>4, <3>5, <4>1, <1>1, <1>3, <1>6, AddBound
    <3>7. NoticeOK(h) /\ QueueOrder(h.todo, wait) /\ QueueWaits(h.todo, wait)
      BY <2>1, <3>1, <3>4, <3>5, <1>5, <1>7, AddNotice
    <3> QED
      BY <3>3, <3>6, <3>7
  <2>2. CASE ~(m.op = "add" /\ Acceptable(m))
    <3>1. h = st
      BY <2>2 DEF svcmgr_handler, do_add_service
    <3> QED
      BY <3>1, <1>2, <1>5, <1>6, <1>7
  <2> QED
    BY <2>1, <2>2
<1> HIDE DEF h
<1>9. Good(f) /\ ListedOK(f) /\ Balanced(f, wait)
  BY <1>1, <1>3, <1>8, FreeBufferLemma
<1>10. Passes(h, f) /\ f.info = h.info
  BY <1>3, <1>8, FreePasses
<1> HIDE DEF f
<1>11. wait \in [Clients -> Message \cup {NoCall}] /\ wait[c] = NoCall
       /\ \A x \in Clients \ {c} : wait[x] = call[x]
  BY <1>1, <1>3
<1> HIDE DEF wait
<1>12. Bound(h, wait)
  BY <1>8, <1>11 DEF Bound, CarriedOK, NoCall
<1>13. Bound(f, wait)
  <2>1. Fewer(h, f)
    BY <1>10 DEF Fewer
  <2> QED
    BY <2>1, <1>9, <1>10, <1>11, <1>12, BoundPasses
<1>14. NoticeOK(f)
  BY <1>8, <1>9, <1>10, NoticePasses
<1>15. QueueOrder(f.todo, wait) /\ QueueWaits(f.todo, wait)
  BY <1>8, <1>10, QueuePasses
<1> QED
  BY <1>1, <1>13, <1>14, <1>15, BecomeNotice

(* The first notice: its cookie names the only entry that holds the handle,*)
(* no call carries the handle any more, and the node is dead.              *)
LEMMA FirstNotice ==
  ASSUME Inv, NoticeInv, todo # <<>>, Head(todo) \in Handles
  PROVE  LET h == Head(todo)
         IN  /\ refs[h].death \in Names /\ refs[h].node \notin alive
             /\ info[refs[h].death].handle = h
             /\ \A n \in Names : info[n].handle = h => n = refs[h].death
             /\ Carriers(call, h) = {}
<1> DEFINE h == Head(todo)
<1>1. /\ todo \in Seq(Clients \cup Handles) /\ call \in [Clients -> Message \cup {NoCall}]
  BY DEF Inv, TypeOK
<1>2. /\ 1 \in DOMAIN todo /\ todo[1] = h /\ \A k \in DOMAIN todo : k = 1 \/ 1 < k
  BY <1>1, TailLemma
<1>3. refs[h].death \in Names /\ refs[h].node \notin alive
  BY <1>2 DEF Inv, QueueOK, State
<1>4. Carriers(call, h) = {}
  <2> SUFFICES ASSUME NEW c \in Clients, call[c].op = "add", call[c].handle = h PROVE FALSE
    BY DEF Carriers
  <2>1. call[c] # NoCall
    BY DEF NoCall
  <2>2. PICK j \in DOMAIN todo : todo[j] = c
    BY <2>1 DEF NoticeInv, QueueWaits
  <2>3. 1 < j
    BY <2>2, <1>2, ConstantsAssumption
  <2> QED
    BY <2>2, <2>3, <1>2 DEF NoticeInv, QueueOrder, Carrying
<1>5. ASSUME NEW n \in Names, info[n].handle = h PROVE n = refs[h].death
  BY <1>5, ConstantsAssumption DEF NoticeInv, Bound, LinkedOK, State
<1>6. Holders(info, h) # {}
  <2>1. refs[h].strong = Cardinality(Holders(info, h)) + Cardinality(Carriers(call, h))
    BY DEF Inv, Balanced, State
  <2>2. refs[h].strong # 0
    BY <1>3, ConstantsAssumption DEF Inv, UnusedOK, State, NoRef
  <2>3. Cardinality({}) = 0
    BY FS_EmptySet
  <2>4. ASSUME Holders(info, h) = {} PROVE FALSE
    <3> HIDE DEF h
    <3>1. refs[h].strong = Cardinality({}) + Cardinality({})
      BY <2>1, <2>4, <1>4
    <3> QED
      BY <3>1, <2>2, <2>3
  <2> QED
    BY <2>4
<1>7. info[refs[h].death].handle = h
  BY <1>5, <1>6 DEF Holders
<1> QED
  BY <1>3, <1>4, <1>5, <1>7

(* Handling a notice frees the handle.                                     *)
LEMMA DeadNotice ==
  ASSUME Inv, NoticeInv, DeadBinder PROVE NoticeInv'
<1> DEFINE h == Head(todo)
           n == refs[h].death
           st == [State EXCEPT !.todo = Tail(todo)]
           d == svcinfo_death(st, n)
           q == Tail(todo)
<1>1. /\ h \in Handles /\ todo # <<>> /\ Become(d) /\ UNCHANGED <<alive, call, reply, walk>>
  BY DEF DeadBinder
<1>2. /\ n \in Names /\ info[n].handle = h /\ Carriers(call, h) = {}
      /\ \A k \in Names : info[k].handle = h => k = n
  BY <1>1, FirstNotice
<1>3. /\ todo \in Seq(Clients \cup Handles) /\ call \in [Clients -> Message \cup {NoCall}]
      /\ info \in [Names -> SvcInfo]
  BY DEF Inv, TypeOK
<1>4. /\ 1 \in DOMAIN todo /\ todo[1] = h
      /\ \A i \in DOMAIN q : i \in Nat /\ i + 1 \in DOMAIN todo /\ q[i] = todo[i + 1]
      /\ \A k \in DOMAIN todo : k = 1 \/ (k - 1 \in DOMAIN q /\ q[k - 1] = todo[k])
  BY <1>1, <1>3, TailLemma
<1>5. Good(st) /\ ListedOK(st) /\ Balanced(st, call)
  BY <1>1, PopLemma
<1>6. st.refs = refs /\ st.info = info /\ st.todo = q
  BY DEF State
<1> HIDE DEF st, h, n, q
<1>7. /\ Good(d) /\ Balanced(d, call) /\ Passes(st, d)
      /\ d.info = [info EXCEPT ![n].handle = NoHandle]
  BY <1>2, <1>5, <1>6, DeathLemma, DeathPasses
<1> HIDE DEF d
<1>8. /\ d.info[n].handle = NoHandle /\ \A k \in Names \ {n} : d.info[k] = info[k]
  BY <1>2, <1>3, <1>7 DEF SvcInfo
<1>9. d.refs[h].strong = 0
  <2>1. d.refs[h].strong = Cardinality(Holders(d.info, h)) + Cardinality(Carriers(call, h))
    BY <1>1, <1>7 DEF Balanced
  <2>2. Holders(d.info, h) = {}
    BY <1>1, <1>2, <1>8, ConstantsAssumption DEF Holders
  <2> QED
    BY <2>1, <2>2, <1>2, FS_EmptySet
<1>10. Bound(d, call)
  <2>1. Bound(st, call)
    BY <1>6 DEF NoticeInv, Bound, OneHandle, CookieOK, LinkedOK, CarriedOK, State
  <2>2. Fewer(st, d)
    BY <1>6, <1>8 DEF Fewer
  <2> QED
    BY <2>1, <2>2, <1>3, <1>7, BoundPasses
<1>11. NoticeOK(d)
  <2> SUFFICES ASSUME NEW g \in Handles, d.refs[g].death # NoName, d.refs[g].node \notin alive
               PROVE  \E i \in DOMAIN d.todo : d.todo[i] = g
    BY DEF NoticeOK
  <2>1. d.refs[g].strong # 0
    BY <1>7 DEF Good, UnusedOK, NoRef
  <2>2. g # h /\ refs[g].death # NoName /\ refs[g].node \notin alive
    BY <2>1, <1>6, <1>7, <1>9 DEF Passes
  <2>3. PICK k \in DOMAIN todo : todo[k] = g
    BY <2>2 DEF NoticeInv, NoticeOK, State
  <2>4. k - 1 \in DOMAIN st.todo /\ st.todo[k - 1] = g
    BY <2>2, <2>3, <1>4, <1>6
  <2> QED
    BY <2>1, <2>4, <1>7 DEF Passes
<1>12. QueueOrder(st.todo, call)
  <2> SUFFICES ASSUME NEW i \in DOMAIN q, NEW j \in DOMAIN q, i < j
               PROVE  /\ q[i] \in Clients => q[i] # q[j]
                      /\ q[i] \in Handles /\ q[j] \in Clients => ~Carrying(call, q[j], q[i])
    BY <1>6 DEF QueueOrder
  <2>1. i + 1 \in DOMAIN todo /\ j + 1 \in DOMAIN todo /\ i + 1 < j + 1
        /\ q[i] = todo[i + 1] /\ q[j] = todo[j + 1]
    BY <1>4
  <2> QED
    BY <2>1 DEF NoticeInv, QueueOrder
<1>13. QueueWaits(st.todo, call)
  <2>1. \A c \in Clients : c # h
    BY <1>1, ConstantsAssumption
  <2>2. \A c \in Clients : (\E i \in DOMAIN todo : todo[i] = c) <=> \E i \in DOMAIN q : q[i] = c
    BY <2>1, <1>4
  <2> QED
    BY <2>2, <1>6 DEF NoticeInv, QueueWaits
<1>14. QueueOrder(d.todo, call) /\ QueueWaits(d.todo, call)
  BY <1>7, <1>12, <1>13, QueuePasses
<1>15. call' = call
  BY <1>1
<1> QED
  BY <1>1, <1>10, <1>11, <1>14, <1>15, BecomeNotice

(* A client joins the queue with a call: no notice of the handle that it   *)
(* may carry is queued.                                                    *)
LEMMA SendQueue ==
  ASSUME Inv, NoticeInv, NEW c \in Clients, call[c] = NoCall, NEW m \in Message, Send(c, m),
         m.op = "add" => \A i \in DOMAIN todo : todo[i] \in Handles => todo[i] # m.handle
  PROVE  QueueOrder(todo, call)' /\ QueueWaits(todo, call)'
<1>1. /\ call' = [call EXCEPT ![c] = m] /\ todo' = Append(todo, c)
      /\ todo \in Seq(Clients \cup Handles) /\ call \in [Clients -> Message \cup {NoCall}]
  BY DEF Send, Inv, TypeOK
<1>2. /\ \A i \in DOMAIN todo : i \in DOMAIN todo' /\ todo'[i] = todo[i]
      /\ \A i \in DOMAIN todo' :
           (i \in DOMAIN todo /\ todo'[i] = todo[i]) \/ (i = Len(todo) + 1 /\ todo'[i] = c)
      /\ \E i \in DOMAIN todo' : todo'[i] = c
      /\ DOMAIN todo = 1 .. Len(todo) /\ Len(todo) \in Nat
      /\ DOMAIN todo' = 1 .. Len(todo) + 1
  BY <1>1, AppendLemma
<1>3. /\ call'[c] = m /\ \A x \in Clients \ {c} : call'[x] = call[x]
  BY <1>1
<1>4. m # NoCall
  BY DEF Message, AddMsg, FindMsg, ListMsg, PlainMsg, NoCall
<1>5. \A i \in DOMAIN todo : todo[i] # c
  BY DEF NoticeInv, QueueWaits
<1>6. ASSUME NEW i \in DOMAIN todo', NEW j \in DOMAIN todo', i < j
      PROVE  /\ todo'[i] \in Clients => todo'[i] # todo'[j]
             /\ todo'[i] \in Handles /\ todo'[j] \in Clients => ~Carrying(call', todo'[j], todo'[i])
  <2>1. i \in DOMAIN todo /\ todo'[i] = todo[i]
    BY <1>2, <1>6
  <2>2. CASE j = Len(todo) + 1
    <3>1. todo'[j] = c
      BY <2>2, <1>2
    <3> QED
      BY <3>1, <2>1, <1>3, <1>5 DEF Carrying
  <2>3. CASE j # Len(todo) + 1
    <3>1. j \in DOMAIN todo /\ todo'[j] = todo[j]
      BY <2>3, <1>2
    <3> QED
      BY <3>1, <2>1, <1>3, <1>5, <1>6 DEF NoticeInv, QueueOrder, Carrying
  <2> QED
    BY <2>2, <2>3
<1>7. ASSUME NEW x \in Clients
      PROVE  call'[x] # NoCall <=> \E i \in DOMAIN todo' : todo'[i] = x
  <2>1. CASE x = c
    BY <2>1, <1>2, <1>3, <1>4
  <2>2. CASE x # c
    <3>1. (\E i \in DOMAIN todo : todo[i] = x) <=> \E i \in DOMAIN todo' : todo'[i] = x
      BY <2>2, <1>2
    <3> QED
      BY <3>1, <2>2, <1>3 DEF NoticeInv, QueueWaits
  <2> QED
    BY <2>1, <2>2
<1> QED
  BY <1>6, <1>7 DEF QueueOrder, QueueWaits, Carrying

(* A call that carries no handle.                                          *)
LEMMA SendNotice ==
  ASSUME Inv, NoticeInv, NEW c \in Clients, call[c] = NoCall, NEW m \in Message,
         m.op = "add" => m.handle = NoHandle,
         Send(c, m), UNCHANGED <<svclist, info, refs, alive>>
  PROVE  NoticeInv'
<1>1. \A i \in DOMAIN todo : todo[i] \in Handles => todo[i] # NoHandle
  BY ConstantsAssumption
<1>2. QueueOrder(todo, call)' /\ QueueWaits(todo, call)'
  BY <1>1, SendQueue
<1>3. Bound(State, call)'
  <2>1. /\ call'[c] = m /\ \A x \in Clients \ {c} : call'[x] = call[x]
    BY DEF Send, Inv, TypeOK
  <2> QED
    BY <2>1 DEF NoticeInv, Bound, OneHandle, CookieOK, LinkedOK, CarriedOK, State
<1>4. NoticeOK(State)'
  <2>1. \A i \in DOMAIN todo : i \in DOMAIN todo' /\ todo'[i] = todo[i]
    BY AppendLemma DEF Send, Inv, TypeOK
  <2> QED
    BY <2>1 DEF NoticeInv, NoticeOK, State
<1> QED
  BY <1>2, <1>3, <1>4 DEF NoticeInv

(* An add call of a live binder, for a handle in use or an unused one.     *)
LEMMA CallAddNotice ==
  ASSUME ~ForeignAdds, Inv, NoticeInv, NEW c \in Clients, NEW n \in Names, NEW b \in Binders,
         NEW allow \in BOOLEAN, NEW prio \in Masks, CallAdd(c, n, b, allow, prio)
  PROVE  NoticeInv'
<1>1. PICK h \in Handles :
        /\ Translate(b, h)
        /\ refs' = [refs EXCEPT ![h] = [node |-> b, strong |-> @.strong + 1, death |-> @.death]]
        /\ Send(c, [op |-> "add", name |-> n, handle |-> h, allow_isolated |-> allow,
                    dumpsys_priority |-> prio])
  BY DEF CallAdd
<1> DEFINE m == [op |-> "add", name |-> n, handle |-> h, allow_isolated |-> allow,
                 dumpsys_priority |-> prio]
<1>2. /\ call[c] = NoCall /\ UNCHANGED <<svclist, info, alive, walk>> /\ Send(c, m)
      /\ <<b, n>> \in MayRegister /\ b \in alive
  BY <1>1 DEF CallAdd, Free
<1>3. /\ refs \in [Handles -> Ref] /\ todo \in Seq(Clients \cup Handles)
      /\ call \in [Clients -> Message \cup {NoCall}] /\ m \in Message
      /\ m.op = "add" /\ m.handle = h /\ m.name = n
  BY DEF Inv, TypeOK, Message, AddMsg
<1>4. /\ \A g \in Handles : g # h => refs'[g] = refs[g]
      /\ refs'[h].death = refs[h].death /\ refs'[h].node = b
  BY <1>1, <1>3
<1>5. /\ call'[c] = m /\ \A x \in Clients \ {c} : call'[x] = call[x]
      /\ todo' = Append(todo, c)
  BY <1>2, <1>3 DEF Send
<1> HIDE DEF m
<1>6. \/ refs[h].node = b
      \/ refs[h] = NoRef /\ \A g \in Handles : refs[g].node # b
  BY <1>1 DEF Translate
<1>7. \A i \in DOMAIN todo : todo[i] \in Handles => todo[i] # h
  <2>1. \A i \in DOMAIN todo : todo[i] \in Handles =>
          refs[todo[i]].death # NoName /\ refs[todo[i]].node # b
    BY <1>2, ConstantsAssumption DEF Inv, QueueOK, State
  <2> QED
    BY <2>1, <1>6 DEF NoRef
<1>8. QueueOrder(todo, call)' /\ QueueWaits(todo, call)'
  BY <1>2, <1>3, <1>7, SendQueue
<1>9. OneHandle(State)'
  BY <1>4, <1>6 DEF NoticeInv, Bound, OneHandle, State
<1>10. CookieOK(State)'
  <2>1. refs[h].death # NoName => refs[h].node = b
    BY <1>6 DEF NoRef
  <2> QED
    BY <2>1, <1>4 DEF NoticeInv, Bound, CookieOK, State
<1>11. LinkedOK(State)'
  <2>1. info \in [Names -> SvcInfo]
    BY DEF Inv, TypeOK
  <2>2. \A k \in Names : info[k].handle # NoHandle => info[k].handle \in Handles
    BY <2>1 DEF SvcInfo
  <2>3. \A g \in Handles : refs'[g].death = refs[g].death
    BY <1>4
  <2> QED
    BY <2>2, <2>3, <1>2 DEF NoticeInv, Bound, LinkedOK, State
<1>12. CarriedOK(State, call)'
  <2> SUFFICES ASSUME NEW x \in Clients, call'[x].op = "add", call'[x].handle # NoHandle
               PROVE  <<refs'[call'[x].handle].node, call'[x].name>> \in MayRegister
    BY DEF CarriedOK, State
  <2>1. CASE x = c
    BY <2>1, <1>2, <1>3, <1>4, <1>5
  <2>2. CASE x # c
    <3> DEFINE g == call[x].handle
    <3>1. call'[x] = call[x] /\ g \in Handles /\ call[x].op = "add"
      BY <2>2, <1>3, <1>5 DEF Message, AddMsg, FindMsg, ListMsg, PlainMsg, NoCall
    <3>2. refs[g].strong # 0
      BY <3>1, InUse DEF Inv, State
    <3>3. refs'[g].node = refs[g].node
      BY <3>1, <3>2, <1>4, <1>6 DEF NoRef
    <3> QED
      BY <3>1, <3>3 DEF NoticeInv, Bound, CarriedOK, State
  <2> QED
    BY <2>1, <2>2
<1>13. NoticeOK(State)'
  <2>1. \A i \in DOMAIN todo : i \in DOMAIN todo' /\ todo'[i] = todo[i]
    BY <1>3, <1>5, AppendLemma
  <2>2. \A g \in Handles : refs'[g].death # NoName /\ refs'[g].node \notin alive =>
          refs[g].death # NoName /\ refs[g].node \notin alive
    BY <1>2, <1>4
  <2> QED
    BY <2>1, <2>2, <1>2 DEF NoticeInv, NoticeOK, State
<1> QED
  BY <1>8, <1>9, <1>10, <1>11, <1>12, <1>13 DEF NoticeInv, Bound

(* Every other step of a client.                                           *)
LEMMA ClientNotice ==
  ASSUME ~ForeignAdds, Inv, NoticeInv, NEW c \in Clients,
         CallAnything(c) \/ NextInList(c) \/ EndList(c)
  PROVE  NoticeInv'
<1>1. ASSUME NEW n \in Names, NEW b \in Binders, NEW allow \in BOOLEAN, NEW prio \in Masks,
             CallAdd(c, n, b, allow, prio)
      PROVE  NoticeInv'
  BY <1>1, CallAddNotice
<1>2. ASSUME NEW n \in Names, CallAddNull(c, n) PROVE NoticeInv'
  <2>1. PICK prio \in Masks :
          Send(c, [op |-> "add", name |-> n, handle |-> NoHandle, allow_isolated |-> FALSE,
                   dumpsys_priority |-> prio])
    BY <1>2 DEF CallAddNull
  <2> DEFINE m == [op |-> "add", name |-> n, handle |-> NoHandle, allow_isolated |-> FALSE,
                   dumpsys_priority |-> prio]
  <2>2. m \in Message /\ m.handle = NoHandle
    BY DEF Message, AddMsg
  <2>3. call[c] = NoCall /\ UNCHANGED <<svclist, info, refs, alive>> /\ Send(c, m)
    BY <1>2, <2>1 DEF CallAddNull, Free
  <2> HIDE DEF m
  <2> QED
    BY <2>2, <2>3, SendNotice
<1>3. ASSUME NEW m \in Message, m.op # "add", call[c] = NoCall, Send(c, m),
             UNCHANGED <<svclist, info, refs, alive>>
      PROVE  NoticeInv'
  BY <1>3, SendNotice
<1>4. ASSUME NEW n \in Names, NEW uid \in Uids, CallFind(c, n, uid) PROVE NoticeInv'
  <2>1. [op |-> "find", name |-> n, uid |-> uid] \in Message
    BY DEF Message, FindMsg
  <2> QED
    BY <1>3, <1>4, <2>1 DEF CallFind, Free
<1>5. ASSUME NEW m \in PlainMsg, CallPlain(c, m) PROVE NoticeInv'
  <2>1. m \in Message /\ m.op # "add"
    BY DEF Message, PlainMsg
  <2> QED
    BY <1>3, <1>5, <2>1 DEF CallPlain, Free
<1>6. ASSUME NEW prio \in Masks, BeginList(c, prio) PROVE NoticeInv'
  <2>1. [op |-> "list", n |-> 0, prio |-> prio] \in Message
    BY DEF Message, ListMsg
  <2> QED
    BY <1>3, <1>6, <2>1 DEF BeginList, Free
<1>7. ASSUME NextInList(c) PROVE NoticeInv'
  <2> DEFINE m == [op |-> "list", n |-> walk[c].n + 1, prio |-> walk[c].prio]
  <2>1. walk[c] \in Walk
    BY <1>7 DEF NextInList, Inv, TypeOK
  <2>2. walk[c].n \in Nat /\ walk[c].prio \in Masks
    <3>1. walk[c].n \in Nat
      BY <2>1, Zenon DEF Walk
    <3>2. walk[c].prio \in Masks
      BY <2>1, Zenon DEF Walk
    <3> QED
      BY <3>1, <3>2
  <2>3. m \in Message /\ m.op # "add"
    BY <2>2 DEF Message, ListMsg
  <2> QED
    BY <1>3, <1>7, <2>3 DEF NextInList
<1>8. ASSUME EndList(c) PROVE NoticeInv'
  BY <1>8 DEF EndList, NoticeInv, Bound, OneHandle, CookieOK, LinkedOK, CarriedOK, NoticeOK,
              QueueOrder, QueueWaits, Carrying, State
<1> QED
  BY <1>1, <1>2, <1>4, <1>5, <1>6, <1>7, <1>8 DEF CallAnything

(* The death of a binder queues the notice of its only handle.             *)
LEMMA BinderDiesNotice ==
  ASSUME Inv, NoticeInv, NEW b \in Binders, BinderDies(b) PROVE NoticeInv'
<1> DEFINE noticed == {h \in Handles : refs[h].node = b /\ refs[h].death # NoName}
<1>1. /\ b \in alive /\ alive' = alive \ {b}
      /\ todo' = IF noticed = {} THEN todo ELSE Append(todo, CHOOSE h \in noticed : TRUE)
      /\ UNCHANGED <<svclist, info, refs, call, reply, walk>>
  BY DEF BinderDies
<1>2. Bound(State, call)'
  BY <1>1 DEF NoticeInv, Bound, OneHandle, CookieOK, LinkedOK, CarriedOK, State
<1>3. \A h \in Handles : h \notin noticed /\ refs[h].death # NoName /\ refs[h].node \notin alive' =>
        \E i \in DOMAIN todo : todo[i] = h
  BY <1>1 DEF NoticeInv, NoticeOK, State
<1>4. todo \in Seq(Clients \cup Handles)
  BY DEF Inv, TypeOK
<1>5. CASE noticed = {}
  <2>1. todo' = todo
    BY <1>1, <1>5
  <2>2. NoticeOK(State)'
    BY <2>1, <1>1, <1>3, <1>5 DEF NoticeOK, State
  <2>3. QueueOrder(todo, call)' /\ QueueWaits(todo, call)'
    BY <2>1, <1>1 DEF NoticeInv, QueueOrder, QueueWaits, Carrying
  <2> QED
    BY <2>2, <2>3, <1>2 DEF NoticeInv
<1>6. CASE noticed # {}
  <2>1. PICK h \in noticed : todo' = Append(todo, h)
    BY <1>1, <1>6
  <2>2. h \in Handles /\ \A g \in noticed : g = h
    <3>1. b # NoBinder
      BY ConstantsAssumption
    <3> QED
      BY <3>1 DEF NoticeInv, Bound, OneHandle, State
  <2>3. /\ \A i \in DOMAIN todo : i \in DOMAIN todo' /\ todo'[i] = todo[i]
        /\ \A i \in DOMAIN todo' :
             (i \in DOMAIN todo /\ todo'[i] = todo[i]) \/ (i = Len(todo) + 1 /\ todo'[i] = h)
        /\ \E i \in DOMAIN todo' : todo'[i] = h
        /\ DOMAIN todo = 1 .. Len(todo) /\ Len(todo) \in Nat
        /\ DOMAIN todo' = 1 .. Len(todo) + 1
    <3>1. h \in Clients \cup Handles
      BY <2>2
    <3> HIDE DEF noticed
    <3> QED
      BY <3>1, <2>1, <1>4, AppendLemma
  <2>4. NoticeOK(State)'
    BY <2>2, <2>3, <1>1, <1>3 DEF NoticeOK, State
  <2>5. ASSUME NEW i \in DOMAIN todo', NEW j \in DOMAIN todo', i < j
        PROVE  /\ todo'[i] \in Clients => todo'[i] # todo'[j]
               /\ todo'[i] \in Handles /\ todo'[j] \in Clients => ~Carrying(call', todo'[j], todo'[i])
    <3>1. i \in DOMAIN todo /\ todo'[i] = todo[i]
      BY <2>3, <2>5
    <3>2. CASE j = Len(todo) + 1
      <4>1. todo'[j] = h
        BY <3>2, <2>3
      <4> QED
        BY <4>1, <2>2, ConstantsAssumption
    <3>3. CASE j # Len(todo) + 1
      <4>1. j \in DOMAIN todo /\ todo'[j] = todo[j]
        BY <3>3, <2>3
      <4> QED
        BY <4>1, <3>1, <2>5, <1>1 DEF NoticeInv, QueueOrder, Carrying
    <3> QED
      BY <3>2, <3>3
  <2>6. \A c \in Clients : (\E i \in DOMAIN todo : todo[i] = c) <=> \E i \in DOMAIN todo' : todo'[i] = c
    <3>1. h \notin Clients
      BY <2>2, ConstantsAssumption
    <3> QED
      BY <3>1, <2>3
  <2>7. QueueOrder(todo, call)'
    BY <2>5 DEF QueueOrder, Carrying
  <2>8. QueueWaits(todo, call)'
    BY <2>6, <1>1 DEF NoticeInv, QueueWaits
  <2> QED
    BY <2>4, <2>7, <2>8, <1>2 DEF NoticeInv
<1> QED
  BY <1>5, <1>6

(* Nothing is registered, carried or queued at first.                      *)
LEMMA InitNotice == Init => NoticeInv
<1> SUFFICES ASSUME Init PROVE NoticeInv
  OBVIOUS
<1>1. QueueOrder(todo, call) /\ QueueWaits(todo, call)
  BY DEF Init, QueueOrder, QueueWaits
<1>2. OneHandle(State) /\ CookieOK(State) /\ NoticeOK(State)
  BY DEF Init, OneHandle, CookieOK, NoticeOK, State, NoRef
<1>3. LinkedOK(State) /\ CarriedOK(State, call)
  BY DEF Init, LinkedOK, CarriedOK, State, NoInfo, NoCall
<1> QED
  BY <1>1, <1>2, <1>3 DEF NoticeInv, Bound

(* The notices stay in order as long as every binder is published under    *)
(* one name by the process that hosts it.                                  *)
THEOREM NoticesInOrder ==
  ASSUME SingleNamed, ~ForeignAdds
  PROVE  Spec => []NoticeInv
<1>1. ASSUME Inv, NoticeInv, [Next]_vars PROVE NoticeInv'
  <2>1. CASE ServeTransaction
    BY <1>1, <2>1, ServeNotice
  <2>2. CASE DeadBinder
    BY <1>1, <2>2, DeadNotice
  <2>3. ASSUME NEW c \in Clients, CallAnything(c) \/ NextInList(c) \/ EndList(c) PROVE NoticeInv'
    BY <1>1, <2>3, ClientNotice
  <2>4. ASSUME NEW b \in Binders, BinderDies(b) PROVE NoticeInv'
    BY <1>1, <2>4, BinderDiesNotice
  <2>5. CASE UNCHANGED vars
    BY <1>1, <2>5 DEF vars, NoticeInv, Bound, OneHandle, CookieOK, LinkedOK, CarriedOK, NoticeOK,
                      QueueOrder, QueueWaits, Carrying, State
  <2> QED
    BY <1>1, <2>1, <2>2, <2>3, <2>4, <2>5 DEF Next
<1> QED
  BY <1>1, InitNotice, InvInductive, PTL DEF Spec

(* A registration that outlives its binder is about to be cleared: the     *)
(* notice is in the queue and its cookie names the registration.           *)
THEOREM DeadServicesNoticed ==
  ASSUME SingleNamed, ~ForeignAdds
  PROVE  Spec => []DeathNoticeQueued
<1>1. Inv /\ NoticeInv => DeathNoticeQueued
  <2> SUFFICES ASSUME Inv, NoticeInv, NEW n \in Names, info[n].handle # NoHandle,
                      refs[info[n].handle].node \notin alive
               PROVE  /\ info[n].handle \in Range(todo)
                      /\ refs[info[n].handle].death = n
    BY DEF DeathNoticeQueued
  <2>1. info[n].handle \in Handles
    BY DEF Inv, TypeOK, SvcInfo
  <2>2. refs[info[n].handle].death = n
    BY DEF NoticeInv, Bound, LinkedOK, State
  <2>3. \E i \in DOMAIN todo : todo[i] = info[n].handle
    BY <2>1, <2>2, ConstantsAssumption DEF NoticeInv, NoticeOK, State
  <2> QED
    BY <2>2, <2>3 DEF Range
<1> QED
  BY <1>1, NoticesInOrder, InvInductive, PTL

(* Under the same conditions the log of svcinfo_death tells the truth: a   *)
(* notice clears the registration of a dead binder only.                   *)
THEOREM OnlyTheDeadCleared ==
  ASSUME SingleNamed, ~ForeignAdds
  PROVE  Spec => NoticeClearsOnlyTheDead
<1>1. ASSUME Inv, NoticeInv, DeadBinder, NEW n \in Names,
             info[n].handle # NoHandle, info'[n].handle = NoHandle
      PROVE  refs[info[n].handle].node \notin alive
  <2> DEFINE h == Head(todo)
             k == refs[h].death
             st == [State EXCEPT !.todo = Tail(todo)]
             d == svcinfo_death(st, k)
  <2>1. h \in Handles /\ todo # <<>> /\ info' = d.info
    BY <1>1 DEF DeadBinder, Become
  <2>2. k \in Names /\ refs[h].node \notin alive /\ info[k].handle = h
    BY <1>1, <2>1, FirstNotice
  <2>3. Good(st) /\ st.info = info
    BY <1>1, <2>1, PopLemma DEF State
  <2> HIDE DEF st, k
  <2>4. info' = [info EXCEPT ![k].handle = NoHandle]
    BY <2>1, <2>2, <2>3, DeathPasses
  <2>5. info \in [Names -> SvcInfo]
    BY <1>1 DEF Inv, TypeOK
  <2>6. n = k
    BY <1>1, <2>4, <2>5
  <2> QED
    BY <2>2, <2>6
<1>2. Inv /\ NoticeInv /\ [Next]_vars =>
        [DeadBinder => \A n \in Names :
           info[n].handle # NoHandle /\ info'[n].handle = NoHandle
             => refs[info[n].handle].node \notin alive]_vars
  BY <1>1
<1> QED
  BY <1>2, NoticesInOrder, InvInductive, PTL DEF Spec, NoticeClearsOnlyTheDead

----------------------------------------------------------------------------
(* Listing the services. *)

(* A set of natural numbers has a least element.                           *)
LEMMA Least ==
  ASSUME NEW T, T \subseteq Nat, T # {}
  PROVE  \E x \in T : \A y \in T : x <= y
<1> DEFINE Less == OpToRel(<, Nat)
<1>1. \A x, y \in Nat : <<y, x>> \in Less <=> y < x
  BY DEF OpToRel
<1>2. IsWellFoundedOn(Less, Nat)
  BY NatLessThanWellFounded, Zenon
<1> HIDE DEF Less
<1>3. \E x \in T : \A y \in T : ~(<<y, x>> \in Less)
  BY <1>2, WFMin, Zenon
<1>4. \A x \in T, y \in T : ~(y < x) => x <= y
  OBVIOUS
<1>5. \A x \in T, y \in T : <<y, x>> \in Less <=> y < x
  BY <1>1
<1> QED
  BY <1>3, <1>4, <1>5

(* A set of numbers up to k has a greatest element.                        *)
LEMMA Greatest ==
  ASSUME NEW T, NEW k \in Nat, T \subseteq 1 .. k, T # {}
  PROVE  \E x \in T : \A y \in T : y <= x
<1> DEFINE U == {k - x : x \in T}
<1>0. \A y \in T : y \in 1 .. k
  OBVIOUS
<1>1. U \subseteq Nat /\ U # {}
  <2>1. \A y \in T : k - y \in Nat
    BY <1>0
  <2>2. PICK y : y \in T
    OBVIOUS
  <2>3. k - y \in U
    BY <2>2
  <2> QED
    BY <2>1, <2>3
<1>2. PICK u \in U : \A v \in U : u <= v
  BY <1>1, Least
<1>3. PICK x \in T : u = k - x
  BY <1>2
<1>4. \A y \in T : k - y \in U
  OBVIOUS
<1>5. \A y \in T : k - x <= k - y
  BY <1>2, <1>3, <1>4
<1>6. \A y \in T : y \in Int
  OBVIOUS
<1> QED
  BY <1>3, <1>5, <1>6

Supp(inf, n, prio) == inf[n].dumpsys_priority \cap prio # {}

(* The entries of the list before place i that support the priority.       *)
Before(sl, inf, i, prio) == {j \in 1 .. i - 1 : Supp(inf, sl[j], prio)}

Rank(sl, inf, i, prio) == Cardinality(Before(sl, inf, i, prio))

(* The name is in the list with at least r supporting entries before it.   *)
Ahead(sl, inf, n, prio, r) ==
  \E i \in DOMAIN sl : sl[i] = n /\ Supp(inf, n, prio) /\ Rank(sl, inf, i, prio) >= r

(* The entries before a position are finitely many.                        *)
LEMMA RankType ==
  ASSUME NEW sl, NEW inf, NEW i \in Nat, NEW prio
  PROVE  /\ IsFiniteSet(Before(sl, inf, i, prio)) /\ Rank(sl, inf, i, prio) \in Nat
         /\ Before(sl, inf, i, prio) \subseteq 1 .. i - 1
<1>1. Before(sl, inf, i, prio) \subseteq 1 .. i - 1
  BY DEF Before
<1>2. IsFiniteSet(1 .. i - 1)
  BY FS_Interval
<1>3. IsFiniteSet(Before(sl, inf, i, prio))
  BY <1>1, <1>2, FS_Subset
<1> QED
  BY <1>1, <1>3, FS_CardinalityType DEF Rank

(* Ranks of supporting entries grow strictly.                              *)
LEMMA RankStrict ==
  ASSUME NEW sl, NEW inf, NEW prio, NEW i \in Nat, NEW j \in Nat, 1 <= i, i < j,
         Supp(inf, sl[i], prio)
  PROVE  Rank(sl, inf, i, prio) < Rank(sl, inf, j, prio)
<1> DEFINE A == Before(sl, inf, i, prio)
           B == Before(sl, inf, j, prio)
<1>1. A \cup {i} \subseteq B /\ i \notin A
  BY DEF Before
<1>2. IsFiniteSet(A) /\ IsFiniteSet(B) /\ Cardinality(A) \in Nat /\ Cardinality(B) \in Nat
  BY RankType DEF Rank
<1> HIDE DEF A, B
<1>3. Cardinality(A \cup {i}) = Cardinality(A) + 1
  BY <1>1, <1>2, FS_AddElement
<1>4. Cardinality(A \cup {i}) <= Cardinality(B)
  BY <1>1, <1>2, FS_Subset
<1>5. Cardinality(A) < Cardinality(B)
  BY <1>2, <1>3, <1>4
<1> QED
  BY <1>5 DEF Rank, A, B

(* The rank of the first entry is 0 and from one supporting entry to the   *)
(* next it grows by 1, so no rank is skipped: with an entry of rank r or   *)
(* more there is one of rank r.                                            *)
LEMMA RankHit ==
  ASSUME NEW sl, NEW inf, NEW prio, NEW k \in Nat, NEW r \in Nat,
         1 <= k, Supp(inf, sl[k], prio), Rank(sl, inf, k, prio) >= r
  PROVE  \E i \in 1 .. k : Supp(inf, sl[i], prio) /\ Rank(sl, inf, i, prio) = r
<1> DEFINE T == {i \in 1 .. k : Supp(inf, sl[i], prio) /\ Rank(sl, inf, i, prio) >= r}
<1>1. T \subseteq Nat /\ k \in T
  OBVIOUS
<1>2. PICK i \in T : \A y \in T : i <= y
  BY <1>1, Least
<1>3. /\ i \in 1 .. k /\ i \in Nat /\ Supp(inf, sl[i], prio)
      /\ Rank(sl, inf, i, prio) >= r /\ Rank(sl, inf, i, prio) \in Nat
  BY <1>2, RankType
<1>4. ASSUME Rank(sl, inf, i, prio) # r PROVE FALSE
  <2> DEFINE A == Before(sl, inf, i, prio)
  <2>1. Cardinality(A) > r /\ Cardinality(A) \in Nat
    BY <1>3, <1>4 DEF Rank
  <2>2. A # {}
    BY <2>1, FS_EmptySet
  <2>3. A \subseteq 1 .. i - 1 /\ IsFiniteSet(A) /\ i - 1 \in Nat
    <3>1. A \subseteq 1 .. i - 1 /\ IsFiniteSet(A)
      BY <1>3, RankType
    <3>2. i - 1 \in Nat
      BY <1>3
    <3> QED
      BY <3>1, <3>2
  <2>4. PICK j \in A : \A y \in A : y <= j
    <3> HIDE DEF A
    <3> QED
      BY <2>2, <2>3, Greatest
  <2>5. j \in 1 .. i - 1 /\ Supp(inf, sl[j], prio) /\ j \in Nat /\ j < i /\ j \in 1 .. k
    BY <2>3, <2>4, <1>3 DEF Before
  <2>6. A \ {j} = Before(sl, inf, j, prio)
    <3>1. ASSUME NEW y \in A \ {j} PROVE y \in Before(sl, inf, j, prio)
      <4>1. y \in 1 .. i - 1 /\ Supp(inf, sl[y], prio) /\ y <= j /\ y # j
        BY <2>4, <3>1 DEF Before
      <4> QED
        BY <4>1, <2>5 DEF Before
    <3>2. ASSUME NEW y \in Before(sl, inf, j, prio) PROVE y \in A \ {j}
      BY <3>2, <2>5, <1>3 DEF Before
    <3> QED
      BY <3>1, <3>2
  <2> HIDE DEF A
  <2>7. Cardinality(A \ {j}) = Cardinality(A) - 1
    BY <2>3, <2>4, FS_RemoveElement
  <2>8. Rank(sl, inf, j, prio) >= r
    BY <2>1, <2>6, <2>7 DEF Rank
  <2>9. j \in T
    BY <2>5, <2>8
  <2> QED
    BY <2>5, <2>9, <1>2, <1>3
<1> QED
  BY <1>3, <1>4

(* The names that the list shows are those of up to 109 characters, as     *)
(* ListedNameFits of BinderIoProofs finds for the buffer of the reply.     *)
LEMMA ListedNames ==
  ASSUME NEW n \in Names PROVE FitsReply(n) <=> NameLen[n] <= 109
<1>1. NameLen[n] \in Nat
  BY ConstantsAssumption
<1> QED
  BY <1>1 DEF FitsReply, ReplySpace

(* Where a client that lists is: what was there when it began, can be      *)
(* shown and was not seen yet is ahead of it.  A name is listed once.      *)
OnceListed(sl) == \A i, j \in DOMAIN sl : sl[i] = sl[j] => i = j

Listable(s) == {n \in s : FitsReply(n)}

Remains(c, seen, r) ==
  \A n \in Listable(walk[c].start) \ seen : Ahead(svclist, info, n, walk[c].prio, r)

AskingFor(c) ==
  /\ call[c].op = "list" /\ call[c].n = walk[c].n /\ call[c].prio = walk[c].prio
  /\ Remains(c, walk[c].seen, walk[c].n)

Told(c) ==
  \/ reply[c] = Failed /\ Listable(walk[c].start) \subseteq walk[c].seen
  \/ /\ reply[c].kind = "name" /\ walk[c].n + 1 <= Cardinality(Names)
     /\ Remains(c, walk[c].seen \cup {reply[c].name}, walk[c].n + 1)

WalkOK(c) ==
  walk[c] # NoWalk => (call[c] # NoCall => AskingFor(c)) /\ (call[c] = NoCall => Told(c))

(* A client is in the queue exactly while it waits, and once.              *)
Waits(q, cl) ==
  /\ \A i, j \in DOMAIN q : i < j /\ q[i] \in Clients => q[i] # q[j]
  /\ QueueWaits(q, cl)

ListInv ==
  /\ OnceListed(svclist) /\ Waits(todo, call)
  /\ \A c \in Clients : WalkOK(c)

(* Dropping references leaves the clients that wait.                       *)
LEMMA WaitsPasses ==
  ASSUME NEW old, NEW new, NEW cl, Passes(old, new), Waits(old.todo, cl)
  PROVE  Waits(new.todo, cl)
<1>1. Thinned(new.todo, old.todo)
  BY DEF Passes
<1>2. ASSUME NEW i \in DOMAIN new.todo, NEW j \in DOMAIN new.todo, i < j, new.todo[i] \in Clients
      PROVE  new.todo[i] # new.todo[j]
  <2>1. PICK k \in DOMAIN old.todo, l \in DOMAIN old.todo :
          k < l /\ old.todo[k] = new.todo[i] /\ old.todo[l] = new.todo[j]
    BY <1>1, <1>2 DEF Thinned
  <2> QED
    BY <2>1, <1>2 DEF Waits
<1>3. ASSUME NEW c \in Clients
      PROVE  (\E i \in DOMAIN old.todo : old.todo[i] = c)
               <=> (\E i \in DOMAIN new.todo : new.todo[i] = c)
  BY <1>1, ConstantsAssumption DEF Passes, Thinned
<1> QED
  BY <1>2, <1>3 DEF Waits, QueueWaits

(* So does queueing a notice.                                              *)
LEMMA WaitsNotice ==
  ASSUME NEW q \in Seq(Clients \cup Handles), NEW h \in Handles, NEW cl, Waits(q, cl)
  PROVE  Waits(Append(q, h), cl)
<1> DEFINE p == Append(q, h)
<1>1. /\ \A i \in DOMAIN q : i \in DOMAIN p /\ p[i] = q[i]
      /\ \A i \in DOMAIN p : (i \in DOMAIN q /\ p[i] = q[i]) \/ (i = Len(q) + 1 /\ p[i] = h)
      /\ DOMAIN q = 1 .. Len(q) /\ Len(q) \in Nat /\ DOMAIN p = 1 .. Len(q) + 1
  BY AppendLemma
<1>2. h \notin Clients
  BY ConstantsAssumption
<1> HIDE DEF p
<1>3. ASSUME NEW i \in DOMAIN p, NEW j \in DOMAIN p, i < j, p[i] \in Clients PROVE p[i] # p[j]
  BY <1>1, <1>2, <1>3 DEF Waits
<1>4. \A c \in Clients : (\E i \in DOMAIN q : q[i] = c) <=> (\E i \in DOMAIN p : p[i] = c)
  BY <1>1, <1>2
<1> QED
  BY <1>3, <1>4 DEF Waits, QueueWaits, p

(* The first item of the queue: a client waits no more once it is served.  *)
LEMMA WaitsTail ==
  ASSUME NEW q \in Seq(Clients \cup Handles), q # <<>>,
         NEW cl \in [Clients -> Message \cup {NoCall}], Waits(q, cl)
  PROVE  /\ Head(q) \in Clients => Waits(Tail(q), [cl EXCEPT ![Head(q)] = NoCall])
         /\ Head(q) \in Handles => Waits(Tail(q), cl)
<1> DEFINE p == Tail(q)
           x == Head(q)
           wait == [cl EXCEPT ![x] = NoCall]
<1>1. /\ 1 \in DOMAIN q /\ q[1] = x
      /\ \A i \in DOMAIN p : i \in Nat /\ i + 1 \in DOMAIN q /\ p[i] = q[i + 1]
      /\ \A k \in DOMAIN q : k = 1 \/ (k - 1 \in DOMAIN p /\ p[k - 1] = q[k])
  BY TailLemma
<1>2. \A i \in DOMAIN p : 1 < i + 1
  OBVIOUS
<1>3. wait[x] = NoCall \/ x \notin Clients
  OBVIOUS
<1>4. \A c \in Clients \ {x} : wait[c] = cl[c]
  OBVIOUS
<1> HIDE DEF p, x, wait
<1>5. ASSUME NEW i \in DOMAIN p, NEW j \in DOMAIN p, i < j, p[i] \in Clients PROVE p[i] # p[j]
  <2>1. i + 1 \in DOMAIN q /\ j + 1 \in DOMAIN q /\ i + 1 < j + 1
        /\ p[i] = q[i + 1] /\ p[j] = q[j + 1]
    BY <1>1, <1>5
  <2> QED
    BY <2>1, <1>5 DEF Waits
<1>6. \A c \in Clients \ {x} : (\E i \in DOMAIN q : q[i] = c) <=> (\E i \in DOMAIN p : p[i] = c)
  BY <1>1
<1>7. ASSUME x \in Clients PROVE Waits(p, wait)
  <2>1. \A i \in DOMAIN p : p[i] # x
    BY <1>1, <1>2, <1>7 DEF Waits
  <2> QED
    BY <2>1, <1>3, <1>4, <1>5, <1>6, <1>7 DEF Waits, QueueWaits
<1>8. ASSUME x \in Handles PROVE Waits(p, cl)
  <2>1. x \notin Clients
    BY <1>8, ConstantsAssumption
  <2> QED
    BY <2>1, <1>5, <1>6 DEF Waits, QueueWaits
<1> QED
  BY <1>7, <1>8 DEF p, x, wait

(* A client that sends a call waits.                                       *)
LEMMA WaitsSend ==
  ASSUME Inv, ListInv, NEW c \in Clients, call[c] = NoCall, NEW m \in Message, Send(c, m)
  PROVE  Waits(todo, call)'
<1>1. /\ call' = [call EXCEPT ![c] = m] /\ todo' = Append(todo, c)
      /\ todo \in Seq(Clients \cup Handles) /\ call \in [Clients -> Message \cup {NoCall}]
  BY DEF Send, Inv, TypeOK
<1>2. /\ \A i \in DOMAIN todo : i \in DOMAIN todo' /\ todo'[i] = todo[i]
      /\ \A i \in DOMAIN todo' :
           (i \in DOMAIN todo /\ todo'[i] = todo[i]) \/ (i = Len(todo) + 1 /\ todo'[i] = c)
      /\ \E i \in DOMAIN todo' : todo'[i] = c
      /\ DOMAIN todo = 1 .. Len(todo) /\ Len(todo) \in Nat
      /\ DOMAIN todo' = 1 .. Len(todo) + 1
  BY <1>1, AppendLemma
<1>3. /\ call'[c] = m /\ \A x \in Clients \ {c} : call'[x] = call[x]
  BY <1>1
<1>4. m # NoCall
  BY DEF Message, AddMsg, FindMsg, ListMsg, PlainMsg, NoCall
<1>5. Waits(todo, call) /\ \A i \in DOMAIN todo : todo[i] # c
  BY DEF ListInv, Waits, QueueWaits
<1>6. ASSUME NEW i \in DOMAIN todo', NEW j \in DOMAIN todo', i < j, todo'[i] \in Clients
      PROVE  todo'[i] # todo'[j]
  BY <1>2, <1>5, <1>6 DEF Waits
<1>7. \A x \in Clients \ {c} :
        (\E i \in DOMAIN todo : todo[i] = x) <=> \E i \in DOMAIN todo' : todo'[i] = x
  BY <1>2
<1>8. ASSUME NEW x \in Clients
      PROVE  call'[x] # NoCall <=> \E i \in DOMAIN todo' : todo'[i] = x
  <2>1. CASE x = c
    BY <2>1, <1>2, <1>3, <1>4
  <2>2. CASE x # c
    BY <2>2, <1>3, <1>5, <1>7 DEF Waits, QueueWaits
  <2> QED
    BY <2>1, <2>2
<1> QED
  BY <1>6, <1>8 DEF Waits, QueueWaits

----------------------------------------------------------------------------
(* The list only grows at its head, and an entry keeps its priority.       *)
Grown(sl, inf, sl2, inf2) ==
  /\ \A n \in Range(sl) : inf2[n].dumpsys_priority = inf[n].dumpsys_priority
  /\ sl2 = sl \/ \E n \in Names : n \notin Range(sl) /\ sl2 = <<n>> \o sl

(* What is ahead stays ahead, as far or farther.                           *)
LEMMA AheadGrown ==
  ASSUME NEW sl \in Seq(Names), NEW sl2, NEW inf, NEW inf2, Grown(sl, inf, sl2, inf2),
         NEW n, NEW prio, NEW r \in Nat, Ahead(sl, inf, n, prio, r)
  PROVE  Ahead(sl2, inf2, n, prio, r)
<1>1. PICK i \in DOMAIN sl : sl[i] = n /\ Supp(inf, n, prio) /\ Rank(sl, inf, i, prio) >= r
  BY DEF Ahead
<1>2. i \in Nat /\ 1 <= i /\ i <= Len(sl) /\ DOMAIN sl = 1 .. Len(sl) /\ Len(sl) \in Nat
  OBVIOUS
<1>3. \A j \in DOMAIN sl : \A p : Supp(inf2, sl[j], p) <=> Supp(inf, sl[j], p)
  BY DEF Grown, Supp, Range
<1>4. CASE sl2 = sl
  <2>1. Before(sl, inf2, i, prio) = Before(sl, inf, i, prio)
    BY <1>2, <1>3 DEF Before
  <2> QED
    BY <2>1, <1>1, <1>3, <1>4 DEF Ahead, Rank
<1>5. ASSUME NEW k \in Names, sl2 = <<k>> \o sl PROVE Ahead(sl2, inf2, n, prio, r)
  <2>1. /\ DOMAIN sl2 = 1 .. Len(sl) + 1
        /\ \A j \in 1 .. Len(sl) : sl2[j + 1] = sl[j]
    <3>1. <<k>> \in Seq(Names) /\ Len(<<k>>) = 1
      OBVIOUS
    <3>2. PICK o \in Seq(Names) : o = <<k>> /\ Len(o) = 1
      BY <3>1
    <3>3. sl2 = o \o sl
      BY <3>2, <1>5
    <3>4. /\ DOMAIN (o \o sl) = 1 .. Len(o) + Len(sl)
          /\ \A j \in 1 .. Len(o) + Len(sl) : (o \o sl)[j] = IF j <= Len(o) THEN o[j] ELSE sl[j - Len(o)]
      OBVIOUS
    <3>5. \A j \in 1 .. Len(sl) : j + 1 \in 1 .. 1 + Len(sl) /\ ~(j + 1 <= 1) /\ (j + 1) - 1 = j
      BY <1>2
    <3>6. \A j \in 1 .. Len(sl) : (o \o sl)[j + 1] = sl[j]
      BY <3>2, <3>4, <3>5
    <3> QED
      BY <3>2, <3>3, <3>4, <3>6, <1>2
  <2> DEFINE A == Before(sl, inf, i, prio)
             B == Before(sl2, inf2, i + 1, prio)
             f == [j \in A |-> j + 1]
  <2>2. f \in Injection(A, B)
    <3>1. \A j \in A : j \in 1 .. i - 1 /\ Supp(inf, sl[j], prio)
      BY DEF Before
    <3>2. \A j \in A : j + 1 \in B
      <4> SUFFICES ASSUME NEW j \in A PROVE j + 1 \in B
        OBVIOUS
      <4>1. j \in 1 .. Len(sl) /\ j + 1 \in 1 .. (i + 1) - 1
        BY <3>1, <1>2
      <4>2. Supp(inf2, sl2[j + 1], prio)
        BY <4>1, <3>1, <2>1, <1>2, <1>3
      <4> QED
        BY <4>1, <4>2 DEF Before
    <3>3. \A j, l \in A : j + 1 = l + 1 => j = l
      BY <3>1
    <3> HIDE DEF A, B
    <3> QED
      BY <3>2, <3>3 DEF Injection, IsInjective
  <2>3. IsFiniteSet(B) /\ Cardinality(B) \in Nat /\ Cardinality(A) \in Nat
    <3>1. i + 1 \in Nat
      BY <1>2
    <3>2. IsFiniteSet(B) /\ Cardinality(B) \in Nat
      BY <3>1, RankType DEF Rank
    <3>3. Cardinality(A) \in Nat
      BY <1>2, RankType DEF Rank
    <3> QED
      BY <3>2, <3>3
  <2> HIDE DEF A, B, f
  <2>4. Cardinality(A) <= Cardinality(B)
    BY <2>2, <2>3, FS_Injection
  <2>5. Rank(sl2, inf2, i + 1, prio) >= r
    BY <2>3, <2>4, <1>1 DEF Rank, A, B
  <2>6. i + 1 \in DOMAIN sl2 /\ sl2[i + 1] = n /\ Supp(inf2, n, prio)
    BY <2>1, <1>1, <1>2, <1>3
  <2> QED
    BY <2>5, <2>6 DEF Ahead
<1> QED
  BY <1>4, <1>5 DEF Grown

(* A name that is not listed joins a list without repetitions.             *)
LEMMA OnceGrown ==
  ASSUME NEW sl \in Seq(Names), NEW sl2, NEW inf, NEW inf2, Grown(sl, inf, sl2, inf2),
         OnceListed(sl)
  PROVE  OnceListed(sl2)
<1>1. CASE sl2 = sl
  BY <1>1
<1>2. ASSUME NEW n \in Names, n \notin Range(sl), sl2 = <<n>> \o sl PROVE OnceListed(sl2)
  <2>1. /\ DOMAIN sl2 = 1 .. Len(sl) + 1 /\ Len(sl) \in Nat /\ sl2[1] = n
        /\ \A j \in 2 .. Len(sl) + 1 : j - 1 \in DOMAIN sl /\ sl2[j] = sl[j - 1]
    <3>1. PICK o \in Seq(Names) : o = <<n>> /\ Len(o) = 1 /\ o[1] = n
      <4>1. <<n>> \in Seq(Names) /\ Len(<<n>>) = 1 /\ <<n>>[1] = n
        OBVIOUS
      <4> QED
        BY <4>1
    <3>2. sl2 = o \o sl
      BY <3>1, <1>2
    <3>3. /\ DOMAIN (o \o sl) = 1 .. Len(o) + Len(sl) /\ Len(sl) \in Nat /\ DOMAIN sl = 1 .. Len(sl)
          /\ \A j \in 1 .. Len(o) + Len(sl) : (o \o sl)[j] = IF j <= Len(o) THEN o[j] ELSE sl[j - Len(o)]
      OBVIOUS
    <3> QED
      BY <3>1, <3>2, <3>3
  <2>2. \A j \in DOMAIN sl : sl[j] # n
    BY <1>2 DEF Range
  <2>3. \A j \in DOMAIN sl2 : j = 1 \/ j \in 2 .. Len(sl) + 1
    BY <2>1
  <2>4. ASSUME NEW i \in DOMAIN sl2, NEW j \in DOMAIN sl2, sl2[i] = sl2[j] PROVE i = j
    <3>1. CASE i = 1 \/ j = 1
      BY <3>1, <2>1, <2>2, <2>3, <2>4
    <3>2. CASE i # 1 /\ j # 1
      <4>1. i - 1 = j - 1
        BY <3>2, <2>1, <2>3, <2>4 DEF OnceListed
      <4> QED
        BY <4>1, <2>1
    <3> QED
      BY <3>1, <3>2
  <2> QED
    BY <2>4 DEF OnceListed
<1> QED
  BY <1>1, <1>2 DEF Grown

(* A transaction makes the list grow at most, and its client waits no more.*)
LEMMA ServeGrown ==
  ASSUME Inv, ListInv, ServeTransaction
  PROVE  Grown(svclist, info, svclist', info') /\ Waits(todo, call)'
<1> DEFINE c == Head(todo)
           m == call[c]
           st == [State EXCEPT !.todo = Tail(todo)]
           h == svcmgr_handler(st, m)
           f == BC_FREE_BUFFER(h, m)
           wait == [call EXCEPT ![c] = NoCall]
<1>1. /\ c \in Clients /\ todo # <<>> /\ call' = wait
      /\ svclist' = f.svclist /\ info' = f.info /\ todo' = f.todo
  BY DEF ServeTransaction, Become
<1>2. Good(st) /\ ListedOK(st) /\ Balanced(st, call)
  BY <1>1, PopLemma
<1>3. /\ call \in [Clients -> Message \cup {NoCall}] /\ m \in Message \cup {NoCall}
      /\ alive \in SUBSET Binders /\ todo \in Seq(Clients \cup Handles)
  BY <1>1 DEF Inv, TypeOK
<1>4. st.info = info /\ st.todo = Tail(todo) /\ st.svclist = svclist
  BY DEF State
<1>5. Waits(st.todo, wait)
  BY <1>1, <1>3, <1>4, WaitsTail DEF ListInv
<1> HIDE DEF st, c, wait
<1>6. Good(h) /\ Waits(h.todo, wait) /\ Grown(svclist, info, h.svclist, h.info)
  <2>1. CASE m.op = "add" /\ Acceptable(m)
    <3>1. m \in AddMsg
      BY <2>1, <1>3 DEF Message, AddMsg, FindMsg, ListMsg, PlainMsg, NoCall
    <3>2. h = do_add_service(st, m)
      BY <2>1 DEF svcmgr_handler
    <3>3. Good(h)
      BY <3>1, <3>2, <1>1, <1>2, <1>3, AddLemma
    <3>4. PICK a : Asking(st, a, m, call)
      BY <2>1, <3>1, <1>1, <1>2, <1>3, AskingLemma
    <3>5. Requested(a, h, m)
      BY <2>1, <3>1, <3>2, <3>4, RequestLemma DEF Asking
    <3>6. /\ m.handle \in Handles /\ m.name \in Names
          /\ Passes(st, a) /\ Entered(st, a, m) /\ a.todo \in Seq(Clients \cup Handles)
      BY <2>1, <3>1, <3>4 DEF Acceptable, AddMsg, Asking, Good, StateType
    <3> HIDE DEF h, m
    <3>7. Waits(h.todo, wait)
      <4>1. Waits(a.todo, wait)
        BY <3>6, <1>5, WaitsPasses
      <4>2. \A q \in Seq(Clients \cup Handles) : Waits(q, wait) => Waits(Append(q, m.handle), wait)
        BY <3>6, WaitsNotice
      <4> QED
        BY <4>1, <4>2, <3>5, <3>6 DEF Requested
    <3>8. Grown(svclist, info, h.svclist, h.info)
      <4>1. h.svclist = a.svclist /\ h.info = a.info
        BY <3>5 DEF Requested
      <4>2. Range(svclist) \subseteq Names
        BY DEF Inv, TypeOK, Range
      <4> QED
        BY <4>1, <4>2, <3>6, <1>4 DEF Entered, Grown, find_svc
    <3> QED
      BY <3>3, <3>7, <3>8
  <2>2. CASE ~(m.op = "add" /\ Acceptable(m))
    <3>1. h = st
      BY <2>2 DEF svcmgr_handler, do_add_service
    <3> QED
      BY <3>1, <1>2, <1>4, <1>5 DEF Grown
  <2> QED
    BY <2>1, <2>2
<1> HIDE DEF h
<1>7. Passes(h, f) /\ f.svclist = h.svclist /\ f.info = h.info
  BY <1>3, <1>6, FreePasses
<1> HIDE DEF f
<1>8. Waits(f.todo, wait)
  BY <1>6, <1>7, WaitsPasses
<1>9. Waits(todo, call)'
  BY <1>1, <1>8 DEF Waits, QueueWaits
<1> QED
  BY <1>1, <1>6, <1>7, <1>9

(* A death notice changes no name and no priority, and no client.          *)
LEMMA DeadGrown ==
  ASSUME Inv, ListInv, DeadBinder
  PROVE  Grown(svclist, info, svclist', info') /\ Waits(todo, call)'
<1> DEFINE h == Head(todo)
           n == refs[h].death
           st == [State EXCEPT !.todo = Tail(todo)]
           d == svcinfo_death(st, n)
<1>1. /\ h \in Handles /\ todo # <<>> /\ call' = call
      /\ svclist' = d.svclist /\ info' = d.info /\ todo' = d.todo
  BY DEF DeadBinder, Become
<1>2. Good(st) /\ st.info = info /\ st.svclist = svclist /\ st.todo = Tail(todo)
  BY <1>1, PopLemma DEF State
<1>3. /\ todo \in Seq(Clients \cup Handles) /\ call \in [Clients -> Message \cup {NoCall}]
      /\ info \in [Names -> SvcInfo] /\ svclist \in Seq(Names)
  BY DEF Inv, TypeOK
<1>4. n \in Names
  <2>1. 1 \in DOMAIN todo /\ todo[1] = h
    BY <1>1, <1>3
  <2> QED
    BY <2>1, <1>1 DEF Inv, QueueOK, State
<1>5. Waits(st.todo, call)
  BY <1>1, <1>2, <1>3, WaitsTail DEF ListInv
<1> HIDE DEF st, n
<1>6. /\ Passes(st, d) /\ d.svclist = svclist
      /\ d.info = [info EXCEPT ![n].handle = NoHandle]
  BY <1>2, <1>4, DeathPasses
<1> HIDE DEF d
<1>7. \A k \in Names : d.info[k].dumpsys_priority = info[k].dumpsys_priority
  <2>1. d.info[n] = [info[n] EXCEPT !.handle = NoHandle] /\ info[n] \in SvcInfo
    BY <1>3, <1>4, <1>6
  <2>2. d.info[n].dumpsys_priority = info[n].dumpsys_priority
    BY <2>1 DEF SvcInfo
  <2> QED
    BY <2>2, <1>3, <1>6
<1>8. Range(svclist) \subseteq Names
  BY <1>3 DEF Range
<1>9. Grown(svclist, info, svclist', info')
  BY <1>1, <1>6, <1>7, <1>8 DEF Grown
<1>10. Waits(d.todo, call)
  BY <1>5, <1>6, WaitsPasses
<1> QED
  BY <1>1, <1>9, <1>10 DEF Waits, QueueWaits

(* What the list does to a client that does nothing itself.                *)
LEMMA WalkGrown ==
  ASSUME Inv, ListInv, Grown(svclist, info, svclist', info'), NEW x \in Clients,
         call'[x] = call[x], reply'[x] = reply[x], walk'[x] = walk[x]
  PROVE  WalkOK(x)'
<1> SUFFICES ASSUME walk[x] # NoWalk
             PROVE  (call[x] # NoCall => AskingFor(x)') /\ (call[x] = NoCall => Told(x)')
  BY DEF WalkOK
<1>1. svclist \in Seq(Names) /\ walk[x] \in Walk
  BY DEF Inv, TypeOK
<1>2. walk[x].n \in Nat
  BY <1>1, Zenon DEF Walk
<1>3. \A n, r : r \in Nat /\ Ahead(svclist, info, n, walk[x].prio, r) =>
        Ahead(svclist', info', n, walk[x].prio, r)
  BY <1>1, AheadGrown
<1>4. WalkOK(x)
  BY DEF ListInv
<1>5. ASSUME call[x] # NoCall PROVE AskingFor(x)'
  <2>1. AskingFor(x)
    BY <1>4, <1>5 DEF WalkOK
  <2> QED
    BY <2>1, <1>2, <1>3 DEF AskingFor, Remains
<1>6. ASSUME call[x] = NoCall PROVE Told(x)'
  <2>1. Told(x)
    BY <1>4, <1>6 DEF WalkOK
  <2>2. walk[x].n + 1 \in Nat
    BY <1>2
  <2> QED
    BY <2>1, <2>2, <1>3 DEF Told, Remains
<1> QED
  BY <1>5, <1>6

(* The places of a list without repetitions are as many as its names.      *)
LEMMA PlacesLemma ==
  ASSUME NEW sl \in Seq(Names), OnceListed(sl), NEW A \in SUBSET DOMAIN sl
  PROVE  /\ IsFiniteSet(A) /\ IsFiniteSet({sl[j] : j \in A})
         /\ Cardinality({sl[j] : j \in A}) = Cardinality(A)
         /\ Cardinality(A) \in Nat /\ Cardinality(A) <= Cardinality(Names)
<1> DEFINE B == {sl[j] : j \in A}
           f == [j \in A |-> sl[j]]
<1>1. IsFiniteSet(A)
  <2>1. DOMAIN sl = 1 .. Len(sl) /\ Len(sl) \in Nat
    OBVIOUS
  <2>2. IsFiniteSet(1 .. Len(sl))
    BY <2>1, FS_Interval
  <2> QED
    BY <2>1, <2>2, FS_Subset
<1>2. f \in Bijection(A, B)
  <2>1. f \in [A -> B]
    OBVIOUS
  <2>2. \A j, k \in A : f[j] = f[k] => j = k
    BY DEF OnceListed
  <2>3. \A b \in B : \E j \in A : f[j] = b
    OBVIOUS
  <2> HIDE DEF f, B
  <2> QED
    BY <2>1, <2>2, <2>3 DEF Bijection, Injection, Surjection, IsInjective
<1>3. IsFiniteSet(B) /\ Cardinality(B) = Cardinality(A)
  <2> HIDE DEF f, B
  <2>1. ExistsBijection(A, B)
    BY <1>2 DEF ExistsBijection
  <2> QED
    BY <2>1, <1>1, FS_Bijection
<1>4. B \subseteq Names
  OBVIOUS
<1> HIDE DEF B
<1>5. Cardinality(B) <= Cardinality(Names)
  BY <1>4, FS_Subset, ConstantsAssumption
<1> QED
  BY <1>1, <1>3, <1>5, FS_CardinalityType DEF B

(* The rank of an entry is below the number of names.                      *)
LEMMA RankBound ==
  ASSUME NEW sl \in Seq(Names), OnceListed(sl), NEW inf, NEW prio, NEW i \in DOMAIN sl
  PROVE  Rank(sl, inf, i, prio) + 1 <= Cardinality(Names)
<1> DEFINE A == Before(sl, inf, i, prio)
<1>1. DOMAIN sl = 1 .. Len(sl) /\ Len(sl) \in Nat /\ i \in Nat
  OBVIOUS
<1>2. A \cup {i} \in SUBSET DOMAIN sl /\ i \notin A
  BY <1>1 DEF Before
<1>3. IsFiniteSet(A)
  BY <1>1, RankType
<1> HIDE DEF A
<1>4. Cardinality(A \cup {i}) = Cardinality(A) + 1
  BY <1>2, <1>3, FS_AddElement
<1>5. Cardinality(A \cup {i}) <= Cardinality(Names)
  BY <1>2, PlacesLemma
<1> QED
  BY <1>4, <1>5 DEF Rank, A

(* An entry with rank n is what ListReply looks for.                       *)
LEMMA ListedRank ==
  ASSUME NEW st, NEW m, NEW i
  PROVE  ListedAt(st, i, m) <=> /\ Supp(st.info, st.svclist[i], m.prio)
                                /\ Rank(st.svclist, st.info, i, m.prio) = m.n
BY DEF ListedAt, Supports, Supp, Rank, Before

(* The answer to a client that lists: the entry it asks for, and then what *)
(* it has not seen is farther ahead; or none, and then it has seen all.    *)
LEMMA ListReplyLemma ==
  ASSUME NEW st, st.svclist \in Seq(Names), NEW m, m.n \in Nat, NEW rest,
         \A n \in rest : Ahead(st.svclist, st.info, n, m.prio, m.n)
  PROVE  \/ ListReply(st, m) = Failed /\ rest = {}
         \/ \E i \in DOMAIN st.svclist :
              /\ ListReply(st, m) = NameReply(Sent(st.svclist[i]))
              /\ Supp(st.info, st.svclist[i], m.prio)
              /\ Rank(st.svclist, st.info, i, m.prio) = m.n
              /\ \A n \in rest \ {st.svclist[i]} : Ahead(st.svclist, st.info, n, m.prio, m.n + 1)
<1> DEFINE sl == st.svclist
           inf == st.info
           Hit(i) == Supp(inf, sl[i], m.prio) /\ Rank(sl, inf, i, m.prio) = m.n
<1>1. \A i : ListedAt(st, i, m) <=> Hit(i)
  BY ListedRank
<1>2. \A i \in DOMAIN sl : i \in Nat /\ 1 <= i
  OBVIOUS
<1> HIDE DEF Hit
<1>3. CASE \E i \in DOMAIN sl : Hit(i)
  <2>1. PICK i \in DOMAIN sl : Hit(i) /\ ListReply(st, m) = NameReply(Sent(sl[i]))
    BY <1>1, <1>3 DEF ListReply
  <2>2. ASSUME NEW n \in rest \ {sl[i]} PROVE Ahead(sl, inf, n, m.prio, m.n + 1)
    <3>1. PICK k \in DOMAIN sl : sl[k] = n /\ Supp(inf, n, m.prio) /\ Rank(sl, inf, k, m.prio) >= m.n
      BY <2>2 DEF Ahead
    <3>2. i \in Nat /\ k \in Nat /\ 1 <= i /\ 1 <= k /\ k # i
      BY <1>2, <3>1, <2>2
    <3>3. Rank(sl, inf, k, m.prio) \in Nat
      BY <3>2, RankType
    <3>4. CASE k < i
      <4>1. Rank(sl, inf, k, m.prio) < Rank(sl, inf, i, m.prio)
        BY <3>1, <3>2, <3>4, RankStrict
      <4> QED
        BY <4>1, <3>1, <3>3, <2>1 DEF Hit
    <3>5. CASE i < k
      <4>1. Rank(sl, inf, i, m.prio) < Rank(sl, inf, k, m.prio)
        BY <2>1, <3>2, <3>5, RankStrict DEF Hit
      <4>2. Rank(sl, inf, k, m.prio) >= m.n + 1
        BY <4>1, <3>3, <2>1 DEF Hit
      <4> QED
        BY <4>2, <3>1 DEF Ahead
    <3> QED
      BY <3>2, <3>4, <3>5
  <2> QED
    BY <2>1, <2>2 DEF Hit
<1>4. CASE ~\E i \in DOMAIN sl : Hit(i)
  <2>1. ListReply(st, m) = Failed
    BY <1>1, <1>4 DEF ListReply
  <2>2. ASSUME NEW n \in rest PROVE FALSE
    <3>1. PICK k \in DOMAIN sl : sl[k] = n /\ Supp(inf, n, m.prio) /\ Rank(sl, inf, k, m.prio) >= m.n
      BY <2>2 DEF Ahead
    <3>2. k \in Nat /\ 1 <= k /\ 1 .. k \subseteq DOMAIN sl
      BY <1>2
    <3>3. \E i \in 1 .. k : Supp(inf, sl[i], m.prio) /\ Rank(sl, inf, i, m.prio) = m.n
      BY <3>1, <3>2, RankHit
    <3> QED
      BY <3>2, <3>3, <1>4 DEF Hit
  <2> QED
    BY <2>1, <2>2
<1> QED
  BY <1>3, <1>4

(* A step of the service manager that answers a client that lists.         *)
LEMMA ServeList ==
  ASSUME Inv, ListInv, ServeTransaction, NEW c \in Clients, c = Head(todo), walk[c] # NoWalk
  PROVE  WalkOK(c)'
<1> DEFINE m == call[c]
           st == [State EXCEPT !.todo = Tail(todo)]
           w == walk[c]
<1>1. /\ c \in Clients /\ todo # <<>> /\ walk' = walk
      /\ call' = [call EXCEPT ![c] = NoCall]
      /\ reply' = [reply EXCEPT ![c] = svcmgr_reply(st, m)]
      /\ Become(BC_FREE_BUFFER(svcmgr_handler(st, m), m))
  BY DEF ServeTransaction
<1>2. /\ call \in [Clients -> Message \cup {NoCall}] /\ reply \in [Clients -> Reply]
      /\ todo \in Seq(Clients \cup Handles) /\ svclist \in Seq(Names) /\ w \in Walk
  BY <1>1 DEF Inv, TypeOK
<1>3. call[c] # NoCall
  <2>1. 1 \in DOMAIN todo /\ todo[1] = c
    BY <1>1, <1>2
  <2> QED
    BY <2>1, <1>1 DEF ListInv, Waits, QueueWaits
<1>4. m.op = "list" /\ m.n = w.n /\ m.prio = w.prio /\ Remains(c, w.seen, w.n)
  BY <1>1, <1>3 DEF ListInv, WalkOK, AskingFor
<1>5. st.svclist = svclist /\ st.info = info
  BY DEF State
<1>6. w.n \in Nat
  BY <1>2, Zenon DEF Walk
<1> HIDE DEF st
<1>7. svclist' = svclist /\ info' = info
  BY <1>1, <1>4, <1>5 DEF Become, BC_FREE_BUFFER, svcmgr_handler
<1>8. call'[c] = NoCall /\ reply'[c] = ListReply(st, m) /\ walk'[c] = w
  BY <1>1, <1>2, <1>4 DEF svcmgr_reply
<1> DEFINE rest == Listable(w.start) \ w.seen
<1>9. \A n \in rest : Ahead(svclist, info, n, m.prio, m.n)
  BY <1>4 DEF Remains
<1> HIDE DEF m, w
<1>10. \/ ListReply(st, m) = Failed /\ rest = {}
       \/ \E i \in DOMAIN svclist :
            /\ ListReply(st, m) = NameReply(Sent(svclist[i]))
            /\ Rank(svclist, info, i, m.prio) = m.n
            /\ \A n \in rest \ {svclist[i]} : Ahead(svclist, info, n, m.prio, m.n + 1)
  <2> HIDE DEF rest
  <2>1. m.n \in Nat
    BY <1>4, <1>6
  <2>2. \A n \in rest : Ahead(st.svclist, st.info, n, m.prio, m.n)
    BY <1>5, <1>9
  <2>3. st.svclist \in Seq(Names)
    BY <1>2, <1>5
  <2>4. \/ ListReply(st, m) = Failed /\ rest = {}
        \/ \E i \in DOMAIN st.svclist :
             /\ ListReply(st, m) = NameReply(Sent(st.svclist[i]))
             /\ Rank(st.svclist, st.info, i, m.prio) = m.n
             /\ \A n \in rest \ {st.svclist[i]} : Ahead(st.svclist, st.info, n, m.prio, m.n + 1)
    BY <2>1, <2>2, <2>3, ListReplyLemma
  <2> QED
    BY <2>4, <1>5
<1>11. CASE ListReply(st, m) = Failed /\ rest = {}
  <2>1. Told(c)'
    BY <1>8, <1>11 DEF Told
  <2> QED
    BY <2>1, <1>8 DEF WalkOK
<1>12. ASSUME NEW i \in DOMAIN svclist, ListReply(st, m) = NameReply(Sent(svclist[i])),
              Rank(svclist, info, i, m.prio) = m.n,
              \A n \in rest \ {svclist[i]} : Ahead(svclist, info, n, m.prio, m.n + 1)
       PROVE  WalkOK(c)'
  <2>1. reply'[c].kind = "name" /\ reply'[c].name = Sent(svclist[i])
    BY <1>8, <1>12 DEF NameReply
  <2>2. \A n \in Listable(walk'[c].start) \ (walk'[c].seen \cup {reply'[c].name}) :
          Ahead(svclist', info', n, walk'[c].prio, walk'[c].n + 1)
    <3>1. \A n \in Listable(w.start) : n # Sent(svclist[i]) => n # svclist[i]
      BY DEF Listable, Sent
    <3> QED
      BY <2>1, <3>1, <1>4, <1>7, <1>8, <1>12
  <2>3. walk'[c].n + 1 <= Cardinality(Names)
    BY <1>2, <1>4, <1>8, <1>12, RankBound DEF ListInv
  <2>4. Told(c)'
    BY <2>1, <2>2, <2>3 DEF Told, Remains
  <2> QED
    BY <2>4, <1>8 DEF WalkOK
<1> QED
  BY <1>10, <1>11, <1>12

(* The steps of the service manager.                                       *)
LEMMA LoopList ==
  ASSUME Inv, ListInv, ServeTransaction \/ DeadBinder PROVE ListInv'
<1>1. Grown(svclist, info, svclist', info') /\ Waits(todo, call)'
  BY ServeGrown, DeadGrown
<1>2. svclist \in Seq(Names) /\ OnceListed(svclist)
  BY DEF Inv, TypeOK, ListInv
<1>3. OnceListed(svclist')
  BY <1>1, <1>2, OnceGrown
<1>4. ASSUME NEW x \in Clients PROVE WalkOK(x)'
  <2>1. CASE ServeTransaction /\ x = Head(todo)
    <3>1. CASE walk[x] = NoWalk
      BY <2>1, <3>1 DEF ServeTransaction, WalkOK
    <3>2. CASE walk[x] # NoWalk
      BY <2>1, <3>2, ServeList
    <3> QED
      BY <3>1, <3>2
  <2>2. CASE ServeTransaction /\ x # Head(todo)
    <3>1. call'[x] = call[x] /\ reply'[x] = reply[x] /\ walk'[x] = walk[x]
      BY <2>2 DEF ServeTransaction, Inv, TypeOK
    <3> QED
      BY <3>1, <1>1, WalkGrown
  <2>3. CASE DeadBinder
    <3>1. call'[x] = call[x] /\ reply'[x] = reply[x] /\ walk'[x] = walk[x]
      BY <2>3 DEF DeadBinder
    <3> QED
      BY <3>1, <1>1, WalkGrown
  <2> QED
    BY <2>1, <2>2, <2>3
<1> QED
  BY <1>1, <1>3, <1>4 DEF ListInv, OnceListed

(* A step of one client leaves the list and the other clients alone.       *)
LEMMA OthersList ==
  ASSUME Inv, ListInv, UNCHANGED <<svclist, info>>, NEW c \in Clients,
         \A x \in Clients \ {c} : call'[x] = call[x] /\ reply'[x] = reply[x] /\ walk'[x] = walk[x],
         Waits(todo, call)', WalkOK(c)'
  PROVE  ListInv'
<1>1. Grown(svclist, info, svclist', info')
  BY DEF Grown
<1>2. \A x \in Clients \ {c} : WalkOK(x)'
  BY <1>1, WalkGrown
<1>3. OnceListed(svclist)'
  BY DEF ListInv, OnceListed
<1> QED
  BY <1>2, <1>3 DEF ListInv

(* The steps of a client.                                                  *)
LEMMA ClientList ==
  ASSUME Inv, ListInv, NEW c \in Clients, CallAnything(c) \/ NextInList(c) \/ EndList(c)
  PROVE  ListInv'
<1>0. /\ call \in [Clients -> Message \cup {NoCall}] /\ reply \in [Clients -> Reply]
      /\ walk \in [Clients -> Walk \cup {NoWalk}] /\ svclist \in Seq(Names)
  BY DEF Inv, TypeOK
<1>1. ASSUME Free(c), NEW m \in Message, Send(c, m), UNCHANGED <<svclist, info, walk>>
      PROVE  ListInv'
  <2>1. Waits(todo, call)'
    BY <1>1, WaitsSend DEF Free
  <2>2. WalkOK(c)'
    BY <1>1 DEF Free, WalkOK
  <2>3. \A x \in Clients \ {c} : call'[x] = call[x] /\ reply'[x] = reply[x] /\ walk'[x] = walk[x]
    BY <1>0, <1>1 DEF Send
  <2> QED
    BY <2>1, <2>2, <2>3, <1>1, OthersList
<1>2. ASSUME NEW n \in Names, NEW b \in Binders, NEW allow \in BOOLEAN, NEW prio \in Masks,
             CallAdd(c, n, b, allow, prio)
      PROVE  ListInv'
  <2>1. PICK h \in Handles :
          Send(c, [op |-> "add", name |-> n, handle |-> h, allow_isolated |-> allow,
                   dumpsys_priority |-> prio])
    BY <1>2 DEF CallAdd
  <2>2. [op |-> "add", name |-> n, handle |-> h, allow_isolated |-> allow,
         dumpsys_priority |-> prio] \in Message
    BY DEF Message, AddMsg
  <2>3. Free(c) /\ UNCHANGED <<svclist, info, walk>>
    BY <1>2 DEF CallAdd
  <2> QED
    BY <2>1, <2>2, <2>3, <1>1
<1>3. ASSUME NEW n \in Names, CallAddNull(c, n) PROVE ListInv'
  <2>1. PICK prio \in Masks :
          Send(c, [op |-> "add", name |-> n, handle |-> NoHandle, allow_isolated |-> FALSE,
                   dumpsys_priority |-> prio])
    BY <1>3 DEF CallAddNull
  <2>2. [op |-> "add", name |-> n, handle |-> NoHandle, allow_isolated |-> FALSE,
         dumpsys_priority |-> prio] \in Message
    BY DEF Message, AddMsg
  <2>3. Free(c) /\ UNCHANGED <<svclist, info, walk>>
    BY <1>3 DEF CallAddNull
  <2> QED
    BY <2>1, <2>2, <2>3, <1>1
<1>4. ASSUME NEW n \in Names, NEW uid \in Uids, CallFind(c, n, uid) PROVE ListInv'
  <2>1. [op |-> "find", name |-> n, uid |-> uid] \in Message
    BY DEF Message, FindMsg
  <2> QED
    BY <1>1, <1>4, <2>1 DEF CallFind
<1>5. ASSUME NEW m \in PlainMsg, CallPlain(c, m) PROVE ListInv'
  <2>1. m \in Message
    BY DEF Message, PlainMsg
  <2> QED
    BY <1>1, <1>5, <2>1 DEF CallPlain
<1>6. ASSUME NEW prio \in Masks, BeginList(c, prio) PROVE ListInv'
  <2> DEFINE m == [op |-> "list", n |-> 0, prio |-> prio]
             start == {n \in Range(svclist) : Supports(State, n, prio)}
             w == [active |-> TRUE, prio |-> prio, n |-> 0, seen |-> {}, start |-> start]
  <2>1. m \in Message
    BY DEF Message, ListMsg
  <2>2. /\ Free(c) /\ Send(c, m) /\ UNCHANGED <<svclist, info>> /\ walk' = [walk EXCEPT ![c] = w]
    BY <1>6 DEF BeginList
  <2>3. Waits(todo, call)'
    BY <2>1, <2>2, WaitsSend DEF Free
  <2>4. \A x \in Clients \ {c} : call'[x] = call[x] /\ reply'[x] = reply[x] /\ walk'[x] = walk[x]
    BY <1>0, <2>2 DEF Send
  <2>5. call'[c] = m /\ walk'[c] = w
    BY <1>0, <2>2 DEF Send
  <2>6. \A n \in start : Ahead(svclist, info, n, prio, 0)
    <3> SUFFICES ASSUME NEW n \in start PROVE Ahead(svclist, info, n, prio, 0)
      OBVIOUS
    <3>1. PICK i \in DOMAIN svclist : svclist[i] = n
      BY DEF Range
    <3>2. i \in Nat
      BY <1>0
    <3>3. Rank(svclist, info, i, prio) \in Nat
      BY <3>2, RankType
    <3> QED
      BY <3>1, <3>3 DEF Ahead, Supports, Supp, State
  <2> HIDE DEF start
  <2>7. AskingFor(c)'
    BY <2>2, <2>5, <2>6 DEF AskingFor, Remains, Listable
  <2>8. WalkOK(c)'
    BY <2>5, <2>7 DEF WalkOK, NoCall
  <2> QED
    BY <2>2, <2>3, <2>4, <2>8, OthersList
<1>7. ASSUME NextInList(c) PROVE ListInv'
  <2> DEFINE m == [op |-> "list", n |-> walk[c].n + 1, prio |-> walk[c].prio]
  <2>1. /\ call[c] = NoCall /\ UNCHANGED <<svclist, info, refs, alive>> /\ Send(c, m)
        /\ walk' = [walk EXCEPT ![c].n = @ + 1, ![c].seen = @ \cup {reply[c].name}]
        /\ walk[c] # NoWalk /\ reply[c].kind = "name"
    BY <1>7 DEF NextInList
  <2>2. walk[c] \in Walk
    BY <2>1, <1>0
  <2>3. walk[c].n \in Nat /\ walk[c].prio \in Masks
    <3>1. walk[c].n \in Nat
      BY <2>2, Zenon DEF Walk
    <3>2. walk[c].prio \in Masks
      BY <2>2, Zenon DEF Walk
    <3> QED
      BY <3>1, <3>2
  <2>4. m \in Message
    BY <2>3 DEF Message, ListMsg
  <2>5. Waits(todo, call)'
    BY <2>1, <2>4, WaitsSend
  <2>6. \A x \in Clients \ {c} : call'[x] = call[x] /\ reply'[x] = reply[x] /\ walk'[x] = walk[x]
    BY <1>0, <2>1 DEF Send
  <2>7. walk'[c] = [walk[c] EXCEPT !.n = @ + 1, !.seen = @ \cup {reply[c].name}]
    BY <1>0, <2>1
  <2>8. /\ call'[c] = m /\ walk'[c].n = walk[c].n + 1 /\ walk'[c].prio = walk[c].prio
        /\ walk'[c].start = walk[c].start /\ walk'[c].seen = walk[c].seen \cup {reply[c].name}
    BY <1>0, <2>1, <2>2, <2>7 DEF Send, Walk
  <2>9. Remains(c, walk[c].seen \cup {reply[c].name}, walk[c].n + 1)
    <3>1. Told(c)
      BY <2>1 DEF ListInv, WalkOK
    <3>2. reply[c] # Failed
      BY <2>1 DEF Failed
    <3> QED
      BY <3>1, <3>2 DEF Told
  <2>10. AskingFor(c)'
    <3>1. /\ call'[c].op = "list" /\ call'[c].n = walk'[c].n /\ call'[c].prio = walk'[c].prio
      BY <2>8
    <3>2. \A n \in Listable(walk'[c].start) \ walk'[c].seen :
            Ahead(svclist', info', n, walk'[c].prio, walk'[c].n)
      BY <2>1, <2>8, <2>9 DEF Remains
    <3> QED
      BY <3>1, <3>2 DEF AskingFor, Remains
  <2>11. WalkOK(c)'
    <3>1. m # NoCall
      BY DEF NoCall
    <3> QED
      BY <3>1, <2>8, <2>10 DEF WalkOK
  <2> QED
    BY <2>1, <2>5, <2>6, <2>11, OthersList
<1>8. ASSUME EndList(c) PROVE ListInv'
  <2>1. /\ walk' = [walk EXCEPT ![c] = NoWalk]
        /\ UNCHANGED <<svclist, info, todo, call, reply>>
    BY <1>8 DEF EndList
  <2>2. \A x \in Clients \ {c} : call'[x] = call[x] /\ reply'[x] = reply[x] /\ walk'[x] = walk[x]
    BY <1>0, <2>1
  <2>3. WalkOK(c)'
    BY <1>0, <2>1 DEF WalkOK
  <2>4. Waits(todo, call)'
    BY <2>1 DEF ListInv, Waits, QueueWaits
  <2> QED
    BY <2>1, <2>2, <2>3, <2>4, OthersList
<1> QED
  BY <1>2, <1>3, <1>4, <1>5, <1>6, <1>7, <1>8 DEF CallAnything

(* The death of a binder.                                                  *)
LEMMA BinderDiesList ==
  ASSUME Inv, ListInv, NEW b \in Binders, BinderDies(b) PROVE ListInv'
<1> DEFINE noticed == {h \in Handles : refs[h].node = b /\ refs[h].death # NoName}
<1>1. /\ todo' = IF noticed = {} THEN todo ELSE Append(todo, CHOOSE h \in noticed : TRUE)
      /\ UNCHANGED <<svclist, info, call, reply, walk>>
  BY DEF BinderDies
<1>2. todo' = todo \/ \E h \in Handles : todo' = Append(todo, h)
  BY <1>1
<1>3. todo \in Seq(Clients \cup Handles) /\ Waits(todo, call)
  BY DEF Inv, TypeOK, ListInv
<1>4. Waits(todo', call)
  BY <1>2, <1>3, WaitsNotice
<1>5. Waits(todo, call)'
  BY <1>1, <1>4 DEF Waits, QueueWaits
<1>6. Grown(svclist, info, svclist', info')
  BY <1>1 DEF Grown
<1>7. \A x \in Clients : WalkOK(x)'
  BY <1>1, <1>6, WalkGrown
<1> QED
  BY <1>1, <1>5, <1>7 DEF ListInv, OnceListed

(* Where every client that lists is, at every moment.                      *)
THEOREM ListInductive == Spec => []ListInv
<1>1. Init => ListInv
  BY DEF Init, ListInv, OnceListed, Waits, QueueWaits, WalkOK
<1>2. ASSUME Inv, ListInv, [Next]_vars PROVE ListInv'
  <2>1. CASE ServeTransaction \/ DeadBinder
    BY <1>2, <2>1, LoopList
  <2>2. ASSUME NEW c \in Clients, CallAnything(c) \/ NextInList(c) \/ EndList(c) PROVE ListInv'
    BY <1>2, <2>2, ClientList
  <2>3. ASSUME NEW b \in Binders, BinderDies(b) PROVE ListInv'
    BY <1>2, <2>3, BinderDiesList
  <2>4. CASE UNCHANGED vars
    BY <1>2, <2>4 DEF vars, ListInv, OnceListed, Waits, QueueWaits, WalkOK, AskingFor, Told, Remains
  <2> QED
    BY <1>2, <2>1, <2>2, <2>3, <2>4 DEF Next
<1> QED
  BY <1>1, <1>2, InvInductive, PTL DEF Spec

(* A client that asks for entry after entry while others register, are     *)
(* overridden and die sees every service that was there when it began and  *)
(* whose name fits into a reply.                                           *)
THEOREM ListingComplete == Spec => []ListNeverMisses
<1>1. ListInv => ListNeverMisses
  <2> SUFFICES ASSUME ListInv, NEW c \in Clients, walk[c] # NoWalk, call[c] = NoCall,
                      reply[c] = Failed
               PROVE  Listable(walk[c].start) \subseteq walk[c].seen
    BY DEF ListNeverMisses, Listable
  <2>1. Told(c)
    BY DEF ListInv, WalkOK
  <2>2. reply[c].kind # "name"
    BY DEF Failed
  <2> QED
    BY <2>1, <2>2 DEF Told
<1> QED
  BY <1>1, ListInductive, PTL
=============================================================================
