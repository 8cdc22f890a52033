-------------------------- MODULE RefinementProofs --------------------------
(***************************************************************************)
(* The service manager implements the table of binders of Registry: every  *)
(* step of it, seen through the handles, is a step of that table or        *)
(* changes nothing of it.                                                  *)
(***************************************************************************)
EXTENDS RegistryProofs

(* The state of the table, as R sees it.                                   *)
Tab == [n \in Names |-> Denotes(info[n].handle)]
Att == [n \in Names |-> [allow_isolated |-> info[n].allow_isolated,
                         dumpsys_priority |-> info[n].dumpsys_priority]]
Req == [c \in Clients |-> AbstractCall(call[c])]
Known == Range(svclist)

----------------------------------------------------------------------------
(* The actions of the table in these terms.                                *)

(* Registry counts as this module does.                                    *)
LEMMA SameCount == ASSUME NEW S PROVE R!Cardinality(S) = Cardinality(S)
BY DEF R!Cardinality, Cardinality

(* A client asks.                                                          *)
LEMMA AskStep ==
  ASSUME NEW c \in Clients, Req[c] = R!None, NEW m \in R!Request,
         Req' = [Req EXCEPT ![c] = m], reply' = [reply EXCEPT ![c] = NoReply],
         UNCHANGED <<Tab, Known, Att, alive>>
  PROVE  R!Ask(c)
BY DEF R!Ask, R!NoAnswer, NoReply, Req, Tab, Known, Att

(* A client is answered.                                                   *)
LEMMA AnsweredStep ==
  ASSUME NEW c \in Clients, NEW a,
         Req' = [Req EXCEPT ![c] = R!None], reply' = [reply EXCEPT ![c] = a]
  PROVE  R!Answered(c, a)
BY DEF R!Answered, Req

(* A registration is withdrawn.                                            *)
LEMMA UnregisterStep ==
  ASSUME NEW n \in Names, Tab[n] \in Binders \ alive,
         Tab' = [Tab EXCEPT ![n] = NoBinder],
         UNCHANGED <<Known, Att, alive, Req, reply>>
  PROVE  R!Unregister(n)
BY DEF R!Unregister, Req, Tab, Known, Att

(* A binder dies.                                                          *)
LEMMA DieStep ==
  ASSUME NEW b \in Binders, alive' = alive \ {b}, UNCHANGED <<Tab, Known, Att, Req, reply>>
  PROVE  R!Die(b)
BY DEF R!Die, Req, Tab, Known, Att

(* An accepted registration.                                               *)
LEMMA AddStep ==
  ASSUME NEW c \in Clients, NEW m, Req[c] = m, m.op = "add",
         m.name \in Names /\ NameLen[m.name] \in 1 .. MaxNameLen, m.binder # NoBinder,
         Tab' = [Tab EXCEPT ![m.name] = m.binder],
         Known' = Known \cup {m.name},
         Att' = IF m.name \in Known THEN Att
                ELSE [Att EXCEPT ![m.name] = [allow_isolated |-> m.allow_isolated,
                                              dumpsys_priority |-> m.dumpsys_priority]],
         R!Answered(c, Zero), UNCHANGED alive
  PROVE  R!Serve(c)
<1>1. R!Accepted(Req[c])
  BY DEF R!Accepted
<1>2. R!Add(c, Req[c])
  BY <1>1 DEF R!Add, R!Zero, Zero, Tab, Known, Att
<1> QED
  BY <1>2, Zenon DEF R!Serve, Req

(* A registration, a message or a listing that is refused, and a ping.     *)
LEMMA RefuseStep ==
  ASSUME NEW c \in Clients, NEW m, Req[c] = m,
         m.op = "bad" \/ (m.op = "add" /\ ~(NameLen[m.name] \in 1 .. MaxNameLen /\ m.binder # NoBinder)),
         R!Answered(c, Failed), UNCHANGED <<Tab, Known, Att, alive>>
  PROVE  R!Serve(c)
<1>1. R!Refuse(c, m)
  BY DEF R!Refuse, R!Accepted, R!Failed, Failed, Tab, Known, Att
<1> QED
  BY <1>1 DEF R!Serve, Req

(* A ping.                                                                 *)
LEMMA PingStep ==
  ASSUME NEW c \in Clients, NEW m, Req[c] = m, m.op = "ping",
         R!Answered(c, Nothing), UNCHANGED <<Tab, Known, Att, alive>>
  PROVE  R!Serve(c)
<1>1. R!Ping(c, m)
  BY DEF R!Ping, Nothing, Tab, Known, Att
<1> QED
  BY <1>1 DEF R!Serve, Req

(* A lookup.                                                               *)
LEMMA FindStep ==
  ASSUME NEW c \in Clients, NEW m, Req[c] = m, m.op = "find", m.name \in Names,
         R!Answered(c, IF Tab[m.name] # NoBinder /\ (m.isolated => Att[m.name].allow_isolated)
                         THEN BinderReply(Tab[m.name]) ELSE Zero),
         UNCHANGED <<Tab, Known, Att, alive>>
  PROVE  R!Serve(c)
<1>1. R!Find(c, m)
  BY DEF R!Find, R!Visible, R!Zero, Zero, BinderReply, Tab, Known, Att
<1> QED
  BY <1>1 DEF R!Serve, Req

(* A listing.                                                              *)
LEMMA ListStep ==
  ASSUME NEW c \in Clients, NEW m, Req[c] = m, m.op = "list", svclist \in Seq(Names), NEW S,
         S = {n \in Known : Att[n].dumpsys_priority \cap m.prio # {}},
         IF m.n < Cardinality(S) THEN \E n \in S : R!Answered(c, NameReply(Sent(n)))
                                 ELSE R!Answered(c, Failed),
         UNCHANGED <<Tab, Known, Att, alive>>
  PROVE  R!Serve(c)
<1>1. R!Supporting(m.prio) = S
  BY DEF R!Supporting, Known, Att
<1>2. \A n \in S : R!Shown(n) = Sent(n)
  <2>1. S \subseteq Names
    BY DEF Known, Range
  <2> QED
    BY <2>1 DEF R!Shown, Sent
<1>4. /\ m.n < Cardinality(S) => \E n \in S : R!Answered(c, [kind |-> "name", name |-> R!Shown(n)])
      /\ ~(m.n < Cardinality(S)) => R!Answered(c, R!Failed)
  BY <1>2 DEF R!Failed, Failed, NameReply
<1>3. R!List(c, m)
  BY <1>1, <1>4, SameCount DEF R!List, Tab, Known, Att
<1> QED
  BY <1>3 DEF R!Serve, Req

----------------------------------------------------------------------------
(* What a step leaves of the meaning of handles.                           *)

Kept(h) == h # NoHandle => refs'[h].node = refs[h].node

(* The table changes at one name at most.                                  *)
LEMMA TabLemma ==
  ASSUME NEW n \in Names, NEW v, Denotes(info[n].handle)' = v,
         \A k \in Names \ {n} : info'[k].handle = info[k].handle /\ Kept(info[k].handle)
  PROVE  Tab' = [Tab EXCEPT ![n] = v]
<1>1. \A k \in Names \ {n} : Tab'[k] = Tab[k]
  BY DEF Tab, Denotes, Kept
<1>2. Tab'[n] = v
  BY DEF Tab
<1> QED
  BY <1>1, <1>2 DEF Tab

(* The table does not change.                                              *)
LEMMA TabSame ==
  ASSUME \A k \in Names : info'[k].handle = info[k].handle /\ Kept(info[k].handle)
  PROVE  Tab' = Tab
BY DEF Tab, Denotes, Kept

(* What a call of each kind asks of the table.                             *)
LEMMA CallSeen ==
  ASSUME NEW m \in Message \cup {NoCall}
  PROVE  /\ m.op = "add" => m \in AddMsg
         /\ m.op = "find" => m \in FindMsg
         /\ m.op = "add" =>
              AbstractCall(m) = [op |-> "add", name |-> m.name, binder |-> Denotes(m.handle),
                                 allow_isolated |-> m.allow_isolated,
                                 dumpsys_priority |-> m.dumpsys_priority]
         /\ m.op = "find" =>
              AbstractCall(m) = [op |-> "find", name |-> m.name, isolated |-> IsIsolated(m.uid)]
         /\ m.op \notin {"add", "find"} => AbstractCall(m) = m
<1>1. (m.op = "add" => m \in AddMsg) /\ (m.op = "find" => m \in FindMsg)
  BY DEF Message, AddMsg, FindMsg, ListMsg, PlainMsg, NoCall
<1> QED
  BY <1>1 DEF AbstractCall

(* A call under way asks for what it asked for.                            *)
LEMMA CallSame ==
  ASSUME NEW x \in Clients, call'[x] = call[x], call[x].op = "add" => Kept(call[x].handle)
  PROVE  AbstractCall(call[x])' = AbstractCall(call[x])
BY DEF AbstractCall, Denotes, Kept

(* The requests change at one client at most.                              *)
LEMMA ReqLemma ==
  ASSUME NEW c \in Clients, NEW v, AbstractCall(call[c])' = v,
         \A x \in Clients \ {c} : /\ call'[x] = call[x]
                                  /\ call[x].op = "add" => Kept(call[x].handle)
  PROVE  Req' = [Req EXCEPT ![c] = v]
<1>1. \A x \in Clients \ {c} : AbstractCall(call[x])' = AbstractCall(call[x])
  BY CallSame
<1>2. \A x \in Clients \ {c} : Req'[x] = Req[x]
  BY <1>1 DEF Req
<1>3. Req'[c] = v
  BY DEF Req
<1> QED
  BY <1>2, <1>3 DEF Req

(* The requests do not change.                                             *)
LEMMA ReqSame ==
  ASSUME \A x \in Clients : call'[x] = call[x] /\ (call[x].op = "add" => Kept(call[x].handle))
  PROVE  Req' = Req
<1>1. \A x \in Clients : AbstractCall(call[x])' = AbstractCall(call[x])
  BY CallSame
<1> QED
  BY <1>1 DEF Req

(* A handle that was in use means what it meant.                           *)
LEMMA KeptBefore ==
  ASSUME Inv, \A g \in Handles : refs[g].strong # 0 => refs'[g].node = refs[g].node
  PROVE  /\ \A n \in Names : Kept(info[n].handle)
         /\ \A x \in Clients : call[x].op = "add" => Kept(call[x].handle)
<1>1. /\ info \in [Names -> SvcInfo] /\ call \in [Clients -> Message \cup {NoCall}]
      /\ Balanced(State, call)
  BY DEF Inv, TypeOK
<1>2. State.refs = refs /\ State.info = info
  BY DEF State
<1>3. ASSUME NEW n \in Names PROVE Kept(info[n].handle)
  <2> SUFFICES ASSUME info[n].handle # NoHandle
               PROVE  refs'[info[n].handle].node = refs[info[n].handle].node
    BY DEF Kept
  <2>1. info[n].handle \in Handles
    BY <1>1 DEF SvcInfo
  <2>2. State.refs[info[n].handle].strong # 0
    BY <2>1, <1>1, <1>2, InUse
  <2> QED
    BY <2>1, <2>2, <1>2
<1>4. ASSUME NEW x \in Clients, call[x].op = "add" PROVE Kept(call[x].handle)
  <2> SUFFICES ASSUME call[x].handle # NoHandle
               PROVE  refs'[call[x].handle].node = refs[call[x].handle].node
    BY DEF Kept
  <2>1. call[x].handle \in Handles
    BY <1>1, <1>4, CallSeen DEF AddMsg
  <2>2. State.refs[call[x].handle].strong # 0
    BY <2>1, <1>1, <1>4, InUse
  <2> QED
    BY <2>1, <2>2, <1>2
<1> QED
  BY <1>3, <1>4

(* A handle that is in use afterwards meant the same before.               *)
LEMMA KeptAfter ==
  ASSUME Inv', \A g \in Handles : refs'[g].strong # 0 => refs'[g].node = refs[g].node
  PROVE  /\ \A n \in Names : Kept(info'[n].handle)
         /\ \A x \in Clients : call'[x].op = "add" => Kept(call'[x].handle)
<1>1. /\ info' \in [Names -> SvcInfo] /\ call' \in [Clients -> Message \cup {NoCall}]
      /\ Balanced(State', call')
  <2>1. Balanced(State, call)'
    BY DEF Inv
  <2>2. Balanced(State', call')
    BY <2>1 DEF Balanced, State, Holders, Carriers
  <2> QED
    BY <2>2 DEF Inv, TypeOK
<1>2. State'.refs = refs' /\ State'.info = info'
  BY DEF State
<1>3. ASSUME NEW n \in Names PROVE Kept(info'[n].handle)
  <2> SUFFICES ASSUME info'[n].handle # NoHandle
               PROVE  refs'[info'[n].handle].node = refs[info'[n].handle].node
    BY DEF Kept
  <2>1. info'[n].handle \in Handles
    BY <1>1 DEF SvcInfo
  <2>2. State'.refs[info'[n].handle].strong # 0
    BY <2>1, <1>1, <1>2, InUse
  <2> QED
    BY <2>1, <2>2, <1>2
<1>4. ASSUME NEW x \in Clients, call'[x].op = "add" PROVE Kept(call'[x].handle)
  <2> SUFFICES ASSUME call'[x].handle # NoHandle
               PROVE  refs'[call'[x].handle].node = refs[call'[x].handle].node
    BY DEF Kept
  <2>1. call'[x].handle \in Handles
    <3>1. call'[x] \in AddMsg
      BY <1>1, <1>4 DEF Message, AddMsg, FindMsg, ListMsg, PlainMsg, NoCall
    <3> QED
      BY <3>1 DEF AddMsg
  <2>2. State'.refs[call'[x].handle].strong # 0
    BY <2>1, <1>1, <1>4, InUse
  <2> QED
    BY <2>1, <2>2, <1>2
<1> QED
  BY <1>3, <1>4

----------------------------------------------------------------------------
(* The clients and the death of a binder.                                  *)

(* A client that sends a message asks; the others wait for what they       *)
(* waited for.                                                             *)
LEMMA SendStep ==
  ASSUME Inv, NEW c \in Clients, call[c] = NoCall, NEW m, Send(c, m),
         UNCHANGED <<svclist, info, alive>>,
         \A g \in Handles : refs[g].strong # 0 => refs'[g].node = refs[g].node,
         NEW v \in R!Request, AbstractCall(call[c])' = v
  PROVE  R!Ask(c)
<1>1. /\ call' = [call EXCEPT ![c] = m] /\ reply' = [reply EXCEPT ![c] = NoReply]
      /\ call \in [Clients -> Message \cup {NoCall}]
  BY DEF Send, Inv, TypeOK
<1>2. /\ \A n \in Names : Kept(info[n].handle)
      /\ \A x \in Clients : call[x].op = "add" => Kept(call[x].handle)
  BY KeptBefore
<1>3. Tab' = Tab
  BY <1>2, TabSame
<1>4. Req' = [Req EXCEPT ![c] = v]
  BY <1>1, <1>2, ReqLemma
<1>5. Req[c] = R!None
  <2>1. AbstractCall(NoCall) = NoCall
    BY CallSeen DEF NoCall
  <2> QED
    BY <2>1 DEF Req, R!None, NoCall
<1>6. Att' = Att /\ Known' = Known
  BY DEF Att, Known
<1> QED
  BY <1>1, <1>3, <1>4, <1>5, <1>6, AskStep

(* The driver gives the message a handle of the binder that no other       *)
(* binder uses.                                                            *)
LEMMA CallAddAsks ==
  ASSUME Inv, NEW c \in Clients, NEW n \in Names, NEW b \in Binders,
         NEW allow \in BOOLEAN, NEW prio \in Masks, CallAdd(c, n, b, allow, prio)
  PROVE  R!Ask(c)
<1>1. PICK h \in Handles :
        /\ Translate(b, h)
        /\ refs' = [refs EXCEPT ![h] = [node |-> b, strong |-> @.strong + 1, death |-> @.death]]
        /\ Send(c, [op |-> "add", name |-> n, handle |-> h, allow_isolated |-> allow,
                    dumpsys_priority |-> prio])
  BY DEF CallAdd
<1> DEFINE m == [op |-> "add", name |-> n, handle |-> h, allow_isolated |-> allow,
                 dumpsys_priority |-> prio]
           v == [op |-> "add", name |-> n, binder |-> b, allow_isolated |-> allow,
                 dumpsys_priority |-> prio]
<1>2. /\ call[c] = NoCall /\ UNCHANGED <<svclist, info, alive>> /\ refs \in [Handles -> Ref]
      /\ call \in [Clients -> Message \cup {NoCall}]
  BY DEF CallAdd, Free, Inv, TypeOK
<1>3. refs'[h].node = b /\ \A g \in Handles \ {h} : refs'[g] = refs[g]
  BY <1>1, <1>2
<1>4. refs[h].strong # 0 => refs[h].node = b
  BY <1>1 DEF Translate, NoRef
<1>5. \A g \in Handles : refs[g].strong # 0 => refs'[g].node = refs[g].node
  BY <1>3, <1>4
<1>6. v \in R!Request
  BY DEF R!Request, R!AddRequest
<1>7. call'[c] = m
  BY <1>1, <1>2 DEF Send
<1>8. AbstractCall(call[c])' = v
  <2>1. call'[c].op = "add" /\ call'[c].handle = h /\ h # NoHandle
    BY <1>7, ConstantsAssumption
  <2> QED
    BY <1>7, <2>1, <1>3 DEF AbstractCall, Denotes
<1> HIDE DEF v, m
<1>9. Send(c, m)
  BY <1>1 DEF m
<1> QED
  BY <1>2, <1>5, <1>6, <1>8, <1>9, SendStep

(* Every call, and every entry asked for, is a request of the table.       *)
LEMMA ClientAsks ==
  ASSUME Inv, ListInv, NEW c \in Clients, CallAnything(c) \/ NextInList(c)
  PROVE  R!Ask(c)
<1>0. call \in [Clients -> Message \cup {NoCall}] /\ walk \in [Clients -> Walk \cup {NoWalk}]
  BY DEF Inv, TypeOK
<1>1. ASSUME NEW m, call[c] = NoCall, Send(c, m), UNCHANGED <<svclist, info, refs, alive>>,
             NEW v \in R!Request, AbstractCall(call[c])' = v
      PROVE  R!Ask(c)
  BY <1>1, SendStep
<1>2. ASSUME NEW n \in Names, NEW b \in Binders, NEW allow \in BOOLEAN, NEW prio \in Masks,
             CallAdd(c, n, b, allow, prio)
      PROVE  R!Ask(c)
  BY <1>2, CallAddAsks
<1>3. ASSUME NEW n \in Names, CallAddNull(c, n) PROVE R!Ask(c)
  <2>1. PICK prio \in Masks :
          Send(c, [op |-> "add", name |-> n, handle |-> NoHandle, allow_isolated |-> FALSE,
                   dumpsys_priority |-> prio])
    BY <1>3 DEF CallAddNull
  <2> DEFINE m == [op |-> "add", name |-> n, handle |-> NoHandle, allow_isolated |-> FALSE,
                   dumpsys_priority |-> prio]
             v == [op |-> "add", name |-> n, binder |-> NoBinder, allow_isolated |-> FALSE,
                   dumpsys_priority |-> prio]
  <2>2. call[c] = NoCall /\ UNCHANGED <<svclist, info, refs, alive>>
    BY <1>3 DEF CallAddNull, Free
  <2>3. call'[c] = m
    BY <2>1, <1>0 DEF Send
  <2>4. v \in R!Request
    BY DEF R!Request, R!AddRequest
  <2>5. AbstractCall(call[c])' = v
    BY <2>3 DEF AbstractCall, Denotes
  <2> HIDE DEF v
  <2> QED
    BY <2>1, <2>2, <2>4, <2>5, <1>1
<1>4. ASSUME NEW n \in Names, NEW uid \in Uids, CallFind(c, n, uid) PROVE R!Ask(c)
  <2> DEFINE m == [op |-> "find", name |-> n, uid |-> uid]
             v == [op |-> "find", name |-> n, isolated |-> IsIsolated(uid)]
  <2>1. call[c] = NoCall /\ UNCHANGED <<svclist, info, refs, alive>> /\ Send(c, m)
    BY <1>4 DEF CallFind, Free
  <2>2. call'[c] = m
    BY <2>1, <1>0 DEF Send
  <2>3. v \in R!Request
    <3>1. IsIsolated(uid) \in BOOLEAN
      BY DEF IsIsolated
    <3> HIDE DEF IsIsolated
    <3> QED
      BY <3>1 DEF R!Request, R!FindRequest
  <2>4. AbstractCall(call[c])' = v
    BY <2>2 DEF AbstractCall, IsIsolated
  <2> HIDE DEF v
  <2> QED
    BY <2>1, <2>3, <2>4, <1>1
<1>5. ASSUME NEW m \in PlainMsg, CallPlain(c, m) PROVE R!Ask(c)
  <2>1. call[c] = NoCall /\ UNCHANGED <<svclist, info, refs, alive>> /\ Send(c, m)
    BY <1>5 DEF CallPlain, Free
  <2>2. call'[c] = m
    BY <2>1, <1>0 DEF Send
  <2>3. m \in R!Request /\ m.op \notin {"add", "find"}
    BY DEF PlainMsg, R!Request, R!OtherRequest
  <2>4. AbstractCall(call[c])' = m
    BY <2>2, <2>3 DEF AbstractCall
  <2> QED
    BY <2>1, <2>3, <2>4, <1>1
<1>6. ASSUME NEW k \in Nat, k <= Cardinality(Names), NEW prio \in Masks, NEW m,
             m = [op |-> "list", n |-> k, prio |-> prio],
             call[c] = NoCall, Send(c, m), UNCHANGED <<svclist, info, refs, alive>>
      PROVE  R!Ask(c)
  <2>1. call'[c] = m
    BY <1>6, <1>0 DEF Send
  <2>2. k \in 0 .. R!Cardinality(Names)
    <3>1. Cardinality(Names) \in Nat
      BY FS_CardinalityType, ConstantsAssumption
    <3> QED
      BY <1>6, <3>1, SameCount
  <2>3. m \in R!Request
    BY <1>6, <2>2 DEF R!Request, R!ListRequest
  <2>4. AbstractCall(call[c])' = m
    BY <1>6, <2>1 DEF AbstractCall
  <2> QED
    BY <1>1, <1>6, <2>3, <2>4
<1>7. ASSUME NEW prio \in Masks, BeginList(c, prio) PROVE R!Ask(c)
  <2>1. 0 <= Cardinality(Names)
    BY FS_CardinalityType, ConstantsAssumption
  <2> QED
    BY <1>6, <1>7, <2>1 DEF BeginList, Free
<1>8. ASSUME NextInList(c) PROVE R!Ask(c)
  <2> DEFINE m == [op |-> "list", n |-> walk[c].n + 1, prio |-> walk[c].prio]
  <2>1. /\ call[c] = NoCall /\ UNCHANGED <<svclist, info, refs, alive>> /\ Send(c, m)
        /\ walk[c] # NoWalk /\ reply[c].kind = "name"
    BY <1>8 DEF NextInList
  <2>2. walk[c] \in Walk
    BY <2>1, <1>0
  <2>3. walk[c].n \in Nat
    BY <2>2, Zenon DEF Walk
  <2>4. walk[c].prio \in Masks
    BY <2>2, Zenon DEF Walk
  <2>5. walk[c].n + 1 <= Cardinality(Names)
    <3>1. Told(c)
      BY <2>1 DEF ListInv, WalkOK
    <3>2. reply[c] # Failed
      BY <2>1 DEF Failed
    <3> QED
      BY <3>1, <3>2 DEF Told
  <2> DEFINE k == walk[c].n + 1
             prio == walk[c].prio
  <2>6. k \in Nat /\ k <= Cardinality(Names) /\ prio \in Masks
    BY <2>3, <2>4, <2>5
  <2>7. call'[c] = m
    BY <2>1, <1>0 DEF Send
  <2>8. k \in 0 .. R!Cardinality(Names)
    <3>1. Cardinality(Names) \in Nat
      BY FS_CardinalityType, ConstantsAssumption
    <3> QED
      BY <2>6, <3>1, SameCount
  <2>9. m \in R!Request
    <3> HIDE DEF k, prio
    <3>1. [op |-> "list", n |-> k, prio |-> prio] \in R!Request
      BY <2>6, <2>8 DEF R!Request, R!ListRequest
    <3> QED
      BY <3>1 DEF k, prio
  <2>10. AbstractCall(call[c])' = call'[c]
    <3>1. call'[c].op = "list"
      BY <2>7
    <3> QED
      BY <3>1 DEF AbstractCall
  <2>11. \E v \in R!Request : AbstractCall(call[c])' = v
    BY <2>7, <2>9, <2>10
  <2> HIDE DEF m
  <2> QED
    BY <2>1, <2>11, <1>1
<1> QED
  BY <1>2, <1>3, <1>4, <1>5, <1>7, <1>8 DEF CallAnything

(* A client that has the whole list changes nothing.                       *)
LEMMA EndListStutters ==
  ASSUME NEW c \in Clients, EndList(c) PROVE UNCHANGED R!vars
BY DEF EndList, R!vars, Denotes, AbstractCall

(* The death of a binder is one for the table.                             *)
LEMMA BinderDiesStep ==
  ASSUME Inv, NEW b \in Binders, BinderDies(b) PROVE R!Die(b)
<1>1. UNCHANGED <<svclist, info, refs, call, reply, walk>> /\ alive' = alive \ {b}
  BY DEF BinderDies
<1>2. Tab' = Tab /\ Known' = Known /\ Att' = Att /\ Req' = Req
  BY <1>1 DEF Tab, Known, Att, Req, Denotes, AbstractCall
<1> QED
  BY <1>1, <1>2, DieStep

----------------------------------------------------------------------------
(* The service manager.                                                    *)

(* A death notice withdraws the registration of the dead binder.           *)
LEMMA DeadBinderStep ==
  ASSUME Inv, Inv', NoticeInv, DeadBinder PROVE \E n \in Names : R!Unregister(n)
<1> DEFINE h == Head(todo)
           n == refs[h].death
           st == [State EXCEPT !.todo = Tail(todo)]
           d == svcinfo_death(st, n)
<1>1. /\ h \in Handles /\ todo # <<>> /\ Become(d) /\ UNCHANGED <<alive, call, reply, walk>>
  BY DEF DeadBinder
<1>2. n \in Names /\ info[n].handle = h /\ refs[h].node \notin alive
  BY <1>1, FirstNotice
<1>3. /\ Good(st) /\ st.info = info /\ st.refs = refs /\ st.svclist = svclist
  BY <1>1, PopLemma DEF State
<1>4. /\ info \in [Names -> SvcInfo] /\ refs \in [Handles -> Ref]
      /\ call \in [Clients -> Message \cup {NoCall}]
  BY DEF Inv, TypeOK
<1> HIDE DEF st
<1>5. /\ Passes(st, d) /\ d.svclist = svclist /\ d.info = [info EXCEPT ![n].handle = NoHandle]
  BY <1>2, <1>3, DeathPasses
<1>6. svclist' = svclist /\ info' = [info EXCEPT ![n].handle = NoHandle] /\ refs' = d.refs
  BY <1>1, <1>5 DEF Become
<1>7. \A g \in Handles : refs'[g].strong # 0 => refs'[g].node = refs[g].node
  BY <1>3, <1>5, <1>6 DEF Passes
<1> HIDE DEF d, n, h
<1>8. /\ \A k \in Names : Kept(info'[k].handle)
      /\ \A x \in Clients : call'[x].op = "add" => Kept(call'[x].handle)
  BY <1>7, KeptAfter
<1>9. info'[n] = [info[n] EXCEPT !.handle = NoHandle] /\ info[n] \in SvcInfo
      /\ \A k \in Names \ {n} : info'[k] = info[k]
  BY <1>2, <1>4, <1>6
<1>10. /\ info'[n].handle = NoHandle /\ info'[n].allow_isolated = info[n].allow_isolated
       /\ info'[n].dumpsys_priority = info[n].dumpsys_priority
  BY <1>9 DEF SvcInfo
<1>11. Tab' = [Tab EXCEPT ![n] = NoBinder]
  <2> SUFFICES ASSUME NEW e \in Names, e = n PROVE Tab' = [Tab EXCEPT ![e] = NoBinder]
    BY <1>2
  <2>1. Denotes(info[e].handle)' = NoBinder
    BY <1>10 DEF Denotes
  <2>2. \A k \in Names \ {e} : info'[k].handle = info[k].handle /\ Kept(info[k].handle)
    BY <1>8, <1>9
  <2> QED
    BY <2>1, <2>2, TabLemma
<1>12. Req' = Req
  BY <1>1, <1>8, ReqSame
<1>13. Known' = Known
  BY <1>6 DEF Known
<1>14. Att' = Att
  BY <1>9, <1>10 DEF Att
<1>15. Tab[n] \in Binders \ alive
  <2>1. Tab[n] = refs[h].node
    BY <1>1, <1>2, ConstantsAssumption DEF Tab, Denotes
  <2>2. refs[h].node # NoBinder
    <3>1. CookieOK(State) /\ State.refs = refs
      BY DEF NoticeInv, Bound, State
    <3>2. refs[h].death # NoName
      BY <1>2, ConstantsAssumption DEF n
    <3>3. <<refs[h].node, refs[h].death>> \in Binders \X Names
      BY <1>1, <3>1, <3>2, ConstantsAssumption DEF CookieOK
    <3> QED
      BY <3>3, ConstantsAssumption
  <2> QED
    BY <2>1, <2>2, <1>1, <1>2, <1>4 DEF Ref
<1> QED
  BY <1>1, <1>2, <1>11, <1>12, <1>13, <1>14, <1>15, UnregisterStep

(* What serving a call does to the entries and to the other calls.         *)
LEMMA ServeEffect ==
  ASSUME Inv, Inv', NoticeInv, ServeTransaction, NEW c, c = Head(todo), NEW m, m = call[c]
  PROVE  /\ c \in Clients /\ m \in Message /\ UNCHANGED alive
         /\ R!Answered(c, svcmgr_reply([State EXCEPT !.todo = Tail(todo)], m))
         /\ \A n \in Names : Kept(info'[n].handle)
         /\ ~(m.op = "add" /\ Acceptable(m)) => UNCHANGED <<svclist, info>>
         /\ m.op = "add" /\ Acceptable(m) =>
              \E a : Entered(State, a, m) /\ svclist' = a.svclist /\ info' = a.info
<1> DEFINE st == [State EXCEPT !.todo = Tail(todo)]
           h == svcmgr_handler(st, m)
           f == BC_FREE_BUFFER(h, m)
<1>1. /\ c \in Clients /\ todo # <<>> /\ Become(f) /\ UNCHANGED alive
      /\ call' = [call EXCEPT ![c] = NoCall]
      /\ reply' = [reply EXCEPT ![c] = svcmgr_reply(st, m)]
  BY DEF ServeTransaction
<1>2. Good(st) /\ ListedOK(st) /\ Balanced(st, call)
  BY <1>1, PopLemma
<1>3. /\ call \in [Clients -> Message \cup {NoCall}] /\ m \in Message \cup {NoCall}
      /\ alive \in SUBSET Binders /\ todo \in Seq(Clients \cup Handles)
  BY <1>1 DEF Inv, TypeOK
<1>4. /\ st.refs = refs /\ st.info = info /\ st.svclist = svclist
      /\ State.info = info /\ State.svclist = svclist
  BY DEF State
<1>5. m \in Message
  <2>1. 1 \in DOMAIN todo /\ todo[1] = c
    BY <1>1, <1>3, TailLemma
  <2> QED
    BY <2>1, <1>1, <1>3 DEF NoticeInv, QueueWaits
<1> DEFINE r == svcmgr_reply(st, m)
<1> HIDE DEF st, r
<1>6. Passes(h, f) /\ f.svclist = h.svclist /\ f.info = h.info /\ Good(h)
  <2>1. Good(h)
    <3>1. CASE m.op = "add"
      <4>1. m \in AddMsg /\ h = do_add_service(st, m)
        BY <1>3, <3>1, CallSeen DEF svcmgr_handler
      <4> QED
        BY <4>1, <1>1, <1>2, <1>3, AddLemma
    <3>2. CASE m.op # "add"
      BY <3>2, <1>2 DEF svcmgr_handler
    <3> QED
      BY <3>1, <3>2
  <2> HIDE DEF h
  <2> QED
    BY <2>1, <1>3, FreePasses
<1>7. svclist' = h.svclist /\ info' = h.info /\ refs' = f.refs
  BY <1>1, <1>6 DEF Become
<1>8. CASE m.op = "add" /\ Acceptable(m)
  <2>1. m \in AddMsg /\ h = do_add_service(st, m)
    BY <1>8, <1>3, CallSeen DEF svcmgr_handler
  <2>2. PICK a : Asking(st, a, m, call)
    BY <1>8, <2>1, <1>1, <1>2, <1>3, AskingLemma
  <2>3. Requested(a, h, m)
    BY <1>8, <2>1, <2>2, RequestLemma DEF Asking
  <2>4. Entered(st, a, m) /\ Passes(st, a)
    BY <2>2 DEF Asking
  <2>5. Entered(State, a, m)
    BY <2>4, <1>4 DEF Entered, find_svc
  <2> HIDE DEF h, f
  <2>6. svclist' = a.svclist /\ info' = a.info
    BY <2>3, <1>7 DEF Requested
  <2>7. \A g \in Handles : refs'[g].strong # 0 => refs'[g].node = refs[g].node
    <3> SUFFICES ASSUME NEW g \in Handles, f.refs[g].strong # 0
                 PROVE  f.refs[g].node = refs[g].node
      BY <1>7
    <3>1. h.refs[g].strong # 0 /\ f.refs[g].node = h.refs[g].node
      BY <1>6 DEF Passes
    <3>2. a.refs[g].strong # 0 /\ h.refs[g].node = a.refs[g].node
      BY <2>3, <3>1 DEF Requested
    <3>3. a.refs[g].node = st.refs[g].node
      BY <2>4, <3>2 DEF Passes
    <3> QED
      BY <3>1, <3>2, <3>3, <1>4
  <2>8. \A n \in Names : Kept(info'[n].handle)
    BY <2>7, KeptAfter
  <2>9. \A x \in Clients : call'[x].op = "add" => Kept(call'[x].handle)
    BY <2>7, KeptAfter
  <2>10. R!Answered(c, r)
    <3>1. AbstractCall(call[c])' = R!None
      <4>1. call'[c] = NoCall
        BY <1>1, <1>3
      <4> QED
        BY <4>1 DEF AbstractCall, NoCall, R!None
    <3>2. \A x \in Clients \ {c} : /\ call'[x] = call[x]
                                  /\ call[x].op = "add" => Kept(call[x].handle)
      BY <2>9, <1>1, <1>3
    <3>3. Req' = [Req EXCEPT ![c] = R!None]
      BY <3>1, <3>2, <1>1, ReqLemma
    <3> QED
      BY <3>3, <1>1, AnsweredStep DEF r
  <2> QED
    BY <1>1, <1>5, <1>8, <2>5, <2>6, <2>8, <2>10 DEF r, st
<1>9. CASE ~(m.op = "add" /\ Acceptable(m))
  <2>1. h = st
    BY <1>9 DEF svcmgr_handler, do_add_service
  <2> HIDE DEF h, f
  <2>2. svclist' = svclist /\ info' = info
    BY <2>1, <1>4, <1>7
  <2>3. \A g \in Handles : refs'[g].strong # 0 => refs'[g].node = refs[g].node
    BY <2>1, <1>4, <1>6, <1>7 DEF Passes
  <2>4. \A n \in Names : Kept(info'[n].handle)
    BY <2>3, KeptAfter
  <2>5. \A x \in Clients : call'[x].op = "add" => Kept(call'[x].handle)
    BY <2>3, KeptAfter
  <2>6. R!Answered(c, r)
    <3>1. AbstractCall(call[c])' = R!None
      <4>1. call'[c] = NoCall
        BY <1>1, <1>3
      <4> QED
        BY <4>1 DEF AbstractCall, NoCall, R!None
    <3>2. \A x \in Clients \ {c} : /\ call'[x] = call[x]
                                  /\ call[x].op = "add" => Kept(call[x].handle)
      BY <2>5, <1>1, <1>3
    <3>3. Req' = [Req EXCEPT ![c] = R!None]
      BY <3>1, <3>2, <1>1, ReqLemma
    <3> QED
      BY <3>3, <1>1, AnsweredStep DEF r
  <2> QED
    BY <1>1, <1>5, <1>9, <2>2, <2>4, <2>6 DEF r, st
<1> QED
  BY <1>8, <1>9

(* Putting a name at the head of the list.                                 *)
LEMMA RangePrepend ==
  ASSUME NEW s \in Seq(Names), NEW n \in Names
  PROVE  Range(<<n>> \o s) = Range(s) \cup {n}
<1> DEFINE p == <<n>> \o s
<1>1. /\ p \in Seq(Names) /\ Len(p) = Len(s) + 1 /\ p[1] = n
      /\ \A i \in 1 .. Len(s) : p[i + 1] = s[i]
  OBVIOUS
<1>2. DOMAIN p = 1 .. Len(s) + 1 /\ DOMAIN s = 1 .. Len(s) /\ Len(s) \in Nat
  BY <1>1
<1> HIDE DEF p
<1>3. \A k \in DOMAIN p : k = 1 \/ (k - 1 \in DOMAIN s /\ p[k] = s[k - 1])
  <2> SUFFICES ASSUME NEW k \in DOMAIN p, k # 1 PROVE k - 1 \in DOMAIN s /\ p[k] = s[k - 1]
    OBVIOUS
  <2>1. k - 1 \in 1 .. Len(s) /\ (k - 1) + 1 = k
    BY <1>2
  <2> QED
    BY <2>1, <1>1, <1>2
<1>4. 1 \in DOMAIN p /\ \A i \in DOMAIN s : i + 1 \in DOMAIN p
  BY <1>2
<1> QED
  BY <1>1, <1>2, <1>3, <1>4 DEF Range, p

(* Entry number n of the list exists exactly when more than n names        *)
(* support the priority.                                                   *)
LEMMA ListExact ==
  ASSUME NEW st, st.svclist \in Seq(Names), OnceListed(st.svclist), NEW m, m.n \in Nat, NEW S,
         S = {n \in Range(st.svclist) : Supp(st.info, n, m.prio)}
  PROVE  IF m.n < Cardinality(S) THEN \E n \in S : ListReply(st, m) = NameReply(Sent(n))
                                 ELSE ListReply(st, m) = Failed
<1> DEFINE sl == st.svclist
           inf == st.info
           A == {i \in DOMAIN sl : Supp(inf, sl[i], m.prio)}
<1>1. S = {sl[i] : i \in A}
  BY DEF Range
<1>2. IsFiniteSet(A) /\ Cardinality(S) = Cardinality(A) /\ Cardinality(A) \in Nat
  <2>1. A \in SUBSET DOMAIN sl
    OBVIOUS
  <2> HIDE DEF A
  <2> QED
    BY <2>1, <1>1, PlacesLemma
<1>3. \A i \in DOMAIN sl : i \in Nat /\ 1 <= i
  OBVIOUS
<1>4. ASSUME NEW i \in A, Rank(sl, inf, i, m.prio) = m.n PROVE m.n < Cardinality(A)
  <2> DEFINE B == Before(sl, inf, i, m.prio)
  <2>1. B \cup {i} \subseteq A /\ i \notin B
    <3>1. DOMAIN sl = 1 .. Len(sl) /\ Len(sl) \in Nat
      OBVIOUS
    <3> QED
      BY <3>1 DEF Before
  <2>2. IsFiniteSet(B) /\ Cardinality(B) = m.n
    BY <1>3, <1>4, RankType DEF Rank
  <2> HIDE DEF A, B
  <2>3. Cardinality(B \cup {i}) = m.n + 1
    BY <2>1, <2>2, FS_AddElement
  <2>4. Cardinality(B \cup {i}) <= Cardinality(A)
    BY <2>1, <1>2, FS_Subset
  <2> QED
    BY <2>3, <2>4, <1>2
<1>5. ASSUME m.n < Cardinality(A) PROVE \E i \in A : Rank(sl, inf, i, m.prio) = m.n
  <2>1. A # {}
    BY <1>2, <1>5, FS_EmptySet
  <2>2. Len(sl) \in Nat /\ A \subseteq 1 .. Len(sl) /\ DOMAIN sl = 1 .. Len(sl)
    OBVIOUS
  <2>3. PICK k \in A : \A y \in A : y <= k
    <3> HIDE DEF A, sl
    <3> QED
      BY <2>1, <2>2, Greatest
  <2> DEFINE B == Before(sl, inf, k, m.prio)
  <2>4. A \ {k} = B
    <3>1. ASSUME NEW y \in A \ {k} PROVE y \in B
      <4>1. y \in 1 .. k - 1
        BY <3>1, <2>2, <2>3
      <4> QED
        BY <3>1, <4>1 DEF Before
    <3>2. ASSUME NEW y \in B PROVE y \in A \ {k}
      BY <3>2, <2>2, <2>3 DEF Before
    <3> QED
      BY <3>1, <3>2
  <2>5. Cardinality(A \ {k}) = Cardinality(A) - 1
    <3> HIDE DEF A
    <3> QED
      BY <2>3, <1>2, FS_RemoveElement
  <2>6. Rank(sl, inf, k, m.prio) >= m.n
    <3>1. Rank(sl, inf, k, m.prio) = Cardinality(A) - 1
      BY <2>4, <2>5 DEF Rank
    <3> QED
      BY <3>1, <1>2, <1>5
  <2>7. k \in Nat /\ 1 <= k /\ Supp(inf, sl[k], m.prio) /\ 1 .. k \subseteq DOMAIN sl
    BY <2>2, <2>3
  <2>8. PICK i \in 1 .. k : Supp(inf, sl[i], m.prio) /\ Rank(sl, inf, i, m.prio) = m.n
    BY <2>6, <2>7, RankHit
  <2> QED
    BY <2>7, <2>8
<1> DEFINE Hit(i) == Supp(inf, sl[i], m.prio) /\ Rank(sl, inf, i, m.prio) = m.n
<1>6. \A i : ListedAt(st, i, m) <=> Hit(i)
  BY ListedRank
<1>7. CASE m.n < Cardinality(S)
  <2>1. PICK j \in A : Rank(sl, inf, j, m.prio) = m.n
    BY <1>2, <1>5, <1>7
  <2>2. j \in DOMAIN sl /\ Hit(j)
    BY <2>1
  <2> HIDE DEF Hit
  <2>3. PICK i \in DOMAIN sl : Hit(i) /\ ListReply(st, m) = NameReply(Sent(sl[i]))
    BY <2>2, <1>6 DEF ListReply
  <2>4. i \in A
    BY <2>3 DEF Hit
  <2>5. sl[i] \in S
    BY <2>4, <1>1
  <2> QED
    BY <2>3, <2>5, <1>7
<1>8. CASE ~(m.n < Cardinality(S))
  <2>1. \A i \in DOMAIN sl : ~Hit(i)
    BY <1>2, <1>4, <1>8
  <2> HIDE DEF Hit
  <2>2. ListReply(st, m) = Failed
    BY <2>1, <1>6 DEF ListReply
  <2> QED
    BY <2>2, <1>8
<1> QED
  BY <1>7, <1>8

(* Serving a call is serving what it asks of the table.                    *)
LEMMA ServeStep ==
  ASSUME Inv, Inv', NoticeInv, ListInv, ServeTransaction PROVE \E c \in Clients : R!Serve(c)
<1> SUFFICES ASSUME NEW c, c = Head(todo), NEW m, m = call[c] PROVE c \in Clients /\ R!Serve(c)
  OBVIOUS
<1> DEFINE st == [State EXCEPT !.todo = Tail(todo)]
           r == svcmgr_reply(st, m)
<1>1. /\ c \in Clients /\ m \in Message /\ UNCHANGED alive /\ R!Answered(c, r)
      /\ \A n \in Names : Kept(info'[n].handle)
      /\ ~(m.op = "add" /\ Acceptable(m)) => UNCHANGED <<svclist, info>>
      /\ m.op = "add" /\ Acceptable(m) =>
           \E a : Entered(State, a, m) /\ svclist' = a.svclist /\ info' = a.info
  BY ServeEffect
<1>2. /\ st.refs = refs /\ st.info = info /\ st.svclist = svclist
      /\ State.info = info /\ State.svclist = svclist
  BY DEF State
<1>3. /\ info \in [Names -> SvcInfo] /\ refs \in [Handles -> Ref] /\ svclist \in Seq(Names)
      /\ ListedOK(State) /\ Balanced(State, call) /\ UnusedOK(State)
      /\ NameLen \in [Names -> Nat]
  BY ConstantsAssumption DEF Inv, TypeOK
<1>4. Req[c] = AbstractCall(m)
  BY <1>1 DEF Req
<1> HIDE DEF st
<1>5. ASSUME ~(m.op = "add" /\ Acceptable(m)) PROVE UNCHANGED <<Tab, Known, Att, alive>>
  <2>1. UNCHANGED <<svclist, info>>
    BY <1>1, <1>5
  <2>2. \A k \in Names : info'[k].handle = info[k].handle /\ Kept(info[k].handle)
    BY <1>1, <2>1
  <2>3. Tab' = Tab
    BY <2>2, TabSame
  <2> QED
    BY <1>1, <2>1, <2>3 DEF Known, Att
<1>6. CASE m.op = "add"
  <2> DEFINE v == Req[c]
  <2>1. m \in AddMsg /\ m.name \in Names /\ m.handle \in Handles \cup {NoHandle}
    BY <1>1, <1>6, CallSeen DEF AddMsg
  <2>2. v = [op |-> "add", name |-> m.name, binder |-> Denotes(m.handle),
             allow_isolated |-> m.allow_isolated, dumpsys_priority |-> m.dumpsys_priority]
    BY <1>1, <1>4, <1>6, CallSeen
  <2>3. /\ v.op = "add" /\ v.name = m.name /\ v.binder = Denotes(m.handle)
        /\ v.allow_isolated = m.allow_isolated /\ v.dumpsys_priority = m.dumpsys_priority
    BY <2>2
  <2>4. m.handle # NoHandle => Denotes(m.handle) # NoBinder
    <3> SUFFICES ASSUME m.handle # NoHandle PROVE refs[m.handle].node # NoBinder
      BY DEF Denotes
    <3>1. CarriedOK(State, call) /\ State.refs = refs
      BY DEF NoticeInv, Bound, State
    <3>2. <<refs[m.handle].node, m.name>> \in Binders \X Names
      BY <3>1, <1>1, <1>6, ConstantsAssumption DEF CarriedOK
    <3> QED
      BY <3>2, ConstantsAssumption
  <2>5. Acceptable(m) <=> NameLen[m.name] \in 1 .. MaxNameLen /\ v.binder # NoBinder
    <3>1. NameLen[m.name] \in Nat
      BY <1>3, <2>1
    <3>2. m.handle = NoHandle => v.binder = NoBinder
      BY <2>3 DEF Denotes
    <3> QED
      BY <3>1, <3>2, <2>3, <2>4 DEF Acceptable, MaxNameLen
  <2>6. CASE Acceptable(m)
    <3>1. PICK a : Entered(State, a, m) /\ svclist' = a.svclist /\ info' = a.info
      BY <1>1, <1>6, <2>6
    <3>2. /\ \A k \in Names \ {m.name} : info'[k] = info[k]
          /\ info'[m.name].handle = m.handle
      BY <3>1, <1>2 DEF Entered
    <3>3. m.handle # NoHandle
      BY <2>6 DEF Acceptable
    <3>4. Kept(m.handle)
      BY <1>1, <2>1, <3>2
    <3>5. Tab' = [Tab EXCEPT ![m.name] = v.binder]
      <4>1. Denotes(info[m.name].handle)' = Denotes(m.handle)
        BY <3>2, <3>3, <3>4 DEF Denotes, Kept
      <4>2. \A k \in Names \ {m.name} : info'[k].handle = info[k].handle /\ Kept(info[k].handle)
        BY <1>1, <3>2
      <4>3. Tab' = [Tab EXCEPT ![m.name] = Denotes(m.handle)]
        BY <4>1, <4>2, <2>1, TabLemma
      <4> QED
        BY <4>3, <2>3
    <3>6. Known' = Known \cup {m.name}
      <4>1. CASE m.name \in Known
        BY <4>1, <3>1, <1>2 DEF Entered, find_svc, Known
      <4>2. CASE m.name \notin Known
        <5>1. svclist' = <<m.name>> \o svclist
          BY <4>2, <3>1, <1>2 DEF Entered, find_svc, Known
        <5>2. Range(<<m.name>> \o svclist) = Range(svclist) \cup {m.name}
          BY <1>3, <2>1, RangePrepend
        <5> QED
          BY <5>1, <5>2 DEF Known
      <4> QED
        BY <4>1, <4>2
    <3>7. Att' = IF m.name \in Known THEN Att
                 ELSE [Att EXCEPT ![m.name] = [allow_isolated |-> m.allow_isolated,
                                               dumpsys_priority |-> m.dumpsys_priority]]
      <4>1. CASE m.name \in Known
        <5>1. /\ info'[m.name].allow_isolated = info[m.name].allow_isolated
              /\ info'[m.name].dumpsys_priority = info[m.name].dumpsys_priority
          BY <4>1, <3>1, <1>2 DEF Entered, find_svc, Known
        <5> QED
          BY <4>1, <5>1, <3>2 DEF Att
      <4>2. CASE m.name \notin Known
        <5>1. /\ info'[m.name].allow_isolated = m.allow_isolated
              /\ info'[m.name].dumpsys_priority = m.dumpsys_priority
          BY <4>2, <3>1, <1>2 DEF Entered, find_svc, Known
        <5> QED
          BY <4>2, <5>1, <3>2, <2>1 DEF Att
      <4> QED
        BY <4>1, <4>2
    <3>8. r = Zero
      BY <1>6, <2>6 DEF svcmgr_reply
    <3> HIDE DEF v, r
    <3>9. R!Answered(c, Zero)
      BY <1>1, <3>8
    <3>10. R!Serve(c)
      BY <1>1, <2>1, <2>3, <2>5, <2>6, <3>5, <3>6, <3>7, <3>9, AddStep DEF v
    <3> QED
      BY <1>1, <3>10
  <2>7. CASE ~Acceptable(m)
    <3>1. r = Failed
      BY <1>6, <2>7 DEF svcmgr_reply
    <3>2. R!Answered(c, Failed)
      BY <1>1, <3>1
    <3> QED
      BY <1>1, <1>5, <2>3, <2>5, <2>7, <3>2, RefuseStep
  <2> QED
    BY <2>6, <2>7
<1>7. CASE m.op = "find"
  <2> DEFINE v == Req[c]
  <2>1. m \in FindMsg /\ m.name \in Names
    BY <1>1, <1>7, CallSeen DEF FindMsg
  <2>2. v = [op |-> "find", name |-> m.name, isolated |-> IsIsolated(m.uid)]
    BY <1>1, <1>4, <1>7, CallSeen
  <2>3. v.op = "find" /\ v.name = m.name /\ v.isolated = IsIsolated(m.uid)
    BY <2>2
  <2>4. r = FindReply(st, m)
    BY <1>7 DEF svcmgr_reply
  <2> DEFINE h == info[m.name].handle
             ok == v.isolated => Att[m.name].allow_isolated
  <2>5. Tab[m.name] = Denotes(h) /\ Att[m.name].allow_isolated = info[m.name].allow_isolated
    BY <2>1 DEF Tab, Att
  <2>6. h # NoHandle => h \in Handles /\ refs[h].node # NoBinder
    <3> SUFFICES ASSUME h # NoHandle PROVE h \in Handles /\ refs[h].node # NoBinder
      OBVIOUS
    <3>1. h \in Handles
      BY <1>3, <2>1 DEF SvcInfo
    <3>2. LinkedOK(State) /\ CookieOK(State) /\ State.refs = refs
      BY DEF NoticeInv, Bound, State
    <3>3. refs[h].death = m.name /\ m.name # NoName
      BY <3>2, <2>1, <1>2, ConstantsAssumption DEF LinkedOK
    <3>4. <<refs[h].node, refs[h].death>> \in Binders \X Names
      BY <3>1, <3>2, <3>3, ConstantsAssumption DEF CookieOK
    <3> QED
      BY <3>1, <3>4, ConstantsAssumption
  <2>7. h # NoHandle => find_svc(st, m.name)
    BY <1>2, <1>3, <2>1 DEF ListedOK, find_svc
  <2>8. do_find_service(st, m) = IF h # NoHandle /\ ok THEN h ELSE NoHandle
    BY <1>2, <2>3, <2>5, <2>7 DEF do_find_service
  <2> HIDE DEF h, ok, v
  <2>9. FindReply(st, m) = IF Tab[m.name] # NoBinder /\ ok THEN BinderReply(Tab[m.name]) ELSE Zero
    <3>1. CASE h # NoHandle /\ ok
      <4>1. do_find_service(st, m) = h
        BY <2>8, <3>1
      <4>2. FindReply(st, m) = BC_REPLY(st, h)
        BY <4>1, <3>1 DEF FindReply
      <4>3. Tab[m.name] = refs[h].node /\ refs[h].node # NoBinder
        BY <2>5, <2>6, <3>1 DEF Denotes
      <4> QED
        BY <4>2, <4>3, <3>1, <1>2 DEF BC_REPLY
    <3>2. CASE ~(h # NoHandle /\ ok)
      <4>1. FindReply(st, m) = Zero
        BY <2>8, <3>2 DEF FindReply
      <4>2. h = NoHandle => Tab[m.name] = NoBinder
        BY <2>5 DEF Denotes
      <4> QED
        BY <4>1, <4>2, <3>2
    <3> QED
      BY <3>1, <3>2
  <2>10. R!Answered(c, IF Tab[m.name] # NoBinder /\ ok THEN BinderReply(Tab[m.name]) ELSE Zero)
    BY <1>1, <2>4, <2>9
  <2> QED
    BY <1>1, <1>5, <1>7, <2>1, <2>3, <2>10, FindStep DEF v, ok
<1>8. CASE m.op = "list"
  <2>1. Req[c] = m
    BY <1>1, <1>4, <1>8, CallSeen
  <2>2. m.n \in Nat
    BY <1>1, <1>8 DEF Message, AddMsg, FindMsg, ListMsg, PlainMsg
  <2> DEFINE S == {n \in Known : Att[n].dumpsys_priority \cap m.prio # {}}
  <2>3. S = {n \in Range(st.svclist) : Supp(st.info, n, m.prio)}
    <3>1. Range(svclist) \subseteq Names
      BY <1>3 DEF Range
    <3> QED
      BY <3>1, <1>2 DEF Known, Att, Supp
  <2> HIDE DEF S
  <2>4. IF m.n < Cardinality(S) THEN \E n \in S : ListReply(st, m) = NameReply(Sent(n))
                                ELSE ListReply(st, m) = Failed
    <3>1. st.svclist \in Seq(Names) /\ OnceListed(st.svclist)
      BY <1>2, <1>3 DEF ListInv
    <3> QED
      BY <3>1, <2>2, <2>3, ListExact
  <2>5. r = ListReply(st, m)
    BY <1>8 DEF svcmgr_reply
  <2>6. R!Answered(c, ListReply(st, m))
    BY <1>1, <2>5
  <2>7. IF m.n < Cardinality(S) THEN \E n \in S : R!Answered(c, NameReply(Sent(n)))
                                ELSE R!Answered(c, Failed)
    BY <2>4, <2>6
  <2>8. UNCHANGED <<Tab, Known, Att, alive>>
    BY <1>5, <1>8
  <2> QED
    BY <1>1, <1>3, <1>8, <2>1, <2>7, <2>8, ListStep DEF S
<1>9. CASE m.op = "ping"
  <2>1. Req[c] = m /\ r = Nothing
    BY <1>1, <1>4, <1>9, CallSeen DEF svcmgr_reply
  <2>2. R!Answered(c, Nothing)
    BY <1>1, <2>1
  <2> QED
    BY <1>1, <1>5, <1>9, <2>1, <2>2, PingStep
<1>10. CASE m.op = "bad"
  <2>1. Req[c] = m /\ r = Failed
    BY <1>1, <1>4, <1>10, CallSeen DEF svcmgr_reply
  <2>2. R!Answered(c, Failed)
    BY <1>1, <2>1
  <2> QED
    BY <1>1, <1>5, <1>10, <2>1, <2>2, RefuseStep
<1>11. m.op \in {"add", "find", "list", "ping", "bad"}
  BY <1>1 DEF Message, AddMsg, FindMsg, ListMsg, PlainMsg
<1> QED
  BY <1>6, <1>7, <1>8, <1>9, <1>10, <1>11

----------------------------------------------------------------------------
(* The initial table is empty.                                             *)
LEMMA InitTable == Init => R!Init
<1> SUFFICES ASSUME Init PROVE R!Init
  OBVIOUS
<1>1. Range(svclist) = {}
  BY DEF Init, Range
<1>2. \A n \in Names : Denotes(info[n].handle) = NoBinder
  BY DEF Init, NoInfo, Denotes
<1>3. \A c \in Clients : AbstractCall(call[c]) = R!None
  BY DEF Init, AbstractCall, NoCall, R!None
<1> QED
  BY <1>1, <1>2, <1>3 DEF Init, R!Init, NoInfo, R!NoAnswer, NoReply

(* The service manager is a table of binders: when every binder is         *)
(* published under one name by the process that hosts it, a lookup answers *)
(* the binder that was registered last although handles are reused, a name *)
(* is listed exactly when it was registered, and only the death of a       *)
(* binder withdraws its registration.                                      *)
THEOREM ServiceManagerRefines ==
  ASSUME SingleNamed, ~ForeignAdds
  PROVE  Spec => ImplementsRegistry
<1>1. ASSUME Inv, Inv', NoticeInv, ListInv, [Next]_vars PROVE [R!Next]_(R!vars)
  <2>1. CASE ServeTransaction
    BY <1>1, <2>1, ServeStep DEF R!Next
  <2>2. CASE DeadBinder
    BY <1>1, <2>2, DeadBinderStep DEF R!Next
  <2>3. ASSUME NEW c \in Clients, CallAnything(c) \/ NextInList(c) PROVE R!Next
    BY <1>1, <2>3, ClientAsks DEF R!Next
  <2>4. ASSUME NEW c \in Clients, EndList(c) PROVE UNCHANGED R!vars
    BY <2>4, EndListStutters
  <2>5. ASSUME NEW b \in Binders, BinderDies(b) PROVE R!Next
    BY <1>1, <2>5, BinderDiesStep DEF R!Next
  <2>6. CASE UNCHANGED vars
    BY <2>6 DEF vars, R!vars, Denotes, AbstractCall
  <2> QED
    BY <1>1, <2>1, <2>2, <2>3, <2>4, <2>5, <2>6 DEF Next
<1> QED
  BY <1>1, InitTable, InvInductive, NoticesInOrder, ListInductive, PTL
  DEF Spec, ImplementsRegistry, R!Spec
=============================================================================
