------------------------ MODULE ServiceManagerProofs ------------------------
(***************************************************************************)
(* Proofs about ServiceManager for every set of clients, names, binders    *)
(* and handles.                                                            *)
(***************************************************************************)
EXTENDS ServiceManager, FiniteSetTheorems, TLAPS

(* The state a command of the service manager works on.                    *)
StateType == [svclist : Seq(Names), info : [Names -> SvcInfo],
              refs : [Handles -> Ref], todo : Seq(Clients \cup Handles)]

(* A queued notice belongs to a reference that asked for one and whose     *)
(* node is dead, and is queued once.                                       *)
QueueOK(st) ==
  /\ \A i \in DOMAIN st.todo : st.todo[i] \in Handles =>
       st.refs[st.todo[i]].death \in Names /\ st.refs[st.todo[i]].node \notin alive
  /\ \A i, j \in DOMAIN st.todo : st.todo[i] = st.todo[j] /\ st.todo[i] \in Handles => i = j

(* A descriptor without strong references is unused.                       *)
UnusedOK(st) == \A h \in Handles : st.refs[h].strong = 0 => st.refs[h] = NoRef

Good(st) == st \in StateType /\ QueueOK(st) /\ UnusedOK(st)

----------------------------------------------------------------------------
(* Removing the only occurrence of x leaves the other elements once each.  *)
LEMMA WithoutLemma ==
  ASSUME NEW S, NEW s \in Seq(S), NEW x,
         \A i, j \in DOMAIN s : s[i] = s[j] /\ s[i] = x => i = j
  PROVE  /\ Without(s, x) \in Seq(S)
         /\ \A i \in DOMAIN Without(s, x) : Without(s, x)[i] # x
         /\ \A i \in DOMAIN Without(s, x) : \E k \in DOMAIN s : s[k] = Without(s, x)[i]
         /\ \A i, j \in DOMAIN Without(s, x) : i < j =>
              \E k, l \in DOMAIN s : k < l /\ s[k] = Without(s, x)[i] /\ s[l] = Without(s, x)[j]
<1>1. CASE x \notin Range(s)
  BY <1>1 DEF Without, Range
<1>2. CASE x \in Range(s)
  <2> DEFINE i == CHOOSE j \in DOMAIN s : s[j] = x
             w == [j \in 1 .. Len(s) - 1 |-> IF j < i THEN s[j] ELSE s[j + 1]]
  <2>1. i \in 1 .. Len(s) /\ s[i] = x
    BY <1>2 DEF Range
  <2>2. Without(s, x) = w
    BY <1>2 DEF Without
  <2> HIDE DEF i
  <2>3. /\ w \in Seq(S) /\ DOMAIN w = 1 .. Len(s) - 1
        /\ \A j \in 1 .. Len(s) - 1 : w[j] = IF j < i THEN s[j] ELSE s[j + 1]
    <3>1. \A j \in 1 .. Len(s) : s[j] \in S
      OBVIOUS
    <3>2. Len(s) - 1 \in Nat
      BY <2>1
    <3>3. \A j \in 1 .. Len(s) - 1 : (IF j < i THEN s[j] ELSE s[j + 1]) \in S
      BY <2>1, <3>1
    <3> QED
      BY <3>2, <3>3
  <2>4. \A j \in 1 .. Len(s) : s[j] = x => j = i
    BY <2>1
  <2> HIDE DEF w
  <2>5. \A j \in DOMAIN w : w[j] # x
    BY <2>1, <2>3, <2>4
  <2> DEFINE old(j) == IF j < i THEN j ELSE j + 1
  <2>6. \A j \in DOMAIN w : old(j) \in DOMAIN s /\ s[old(j)] = w[j]
    BY <2>1, <2>3
  <2>7. \A j, k \in DOMAIN w : j < k => old(j) < old(k)
    BY <2>1, <2>3
  <2> HIDE DEF old
  <2>8. \A j, k \in DOMAIN w : j < k => \E a, b \in DOMAIN s : a < b /\ s[a] = w[j] /\ s[b] = w[k]
    BY <2>6, <2>7
  <2> QED
    BY <2>2, <2>3, <2>5, <2>6, <2>8
<1> QED
  BY <1>1, <1>2

----------------------------------------------------------------------------
(* The driver's commands: what they keep and how they count.               *)

(* A release leaves a good state with one strong reference less.           *)
LEMMA ReleaseLemma ==
  ASSUME NEW st, Good(st), NEW h \in Handles
  PROVE  /\ Good(BC_RELEASE(st, h))
         /\ BC_RELEASE(st, h).info = st.info
         /\ BC_RELEASE(st, h).svclist = st.svclist
         /\ \A g \in Handles : BC_RELEASE(st, h).refs[g].strong =
              IF g = h /\ st.refs[h].strong # 0 THEN st.refs[g].strong - 1
                                               ELSE st.refs[g].strong
<1> DEFINE new == BC_RELEASE(st, h)
<1>0. st \in StateType /\ QueueOK(st) /\ UnusedOK(st)
  BY DEF Good
<1>t. st.refs \in [Handles -> Ref] /\ st.todo \in Seq(Clients \cup Handles)
  BY <1>0 DEF StateType
<1>1. CASE st.refs[h].strong = 0
  BY <1>0, <1>1 DEF BC_RELEASE, Good
<1>2. CASE st.refs[h].strong = 1
  <2> DEFINE w == Without(st.todo, h)
  <2>1. new = [st EXCEPT !.refs[h] = NoRef, !.todo = w]
    BY <1>2, <1>t DEF BC_RELEASE, Ref
  <2>2. /\ w \in Seq(Clients \cup Handles)
        /\ \A i \in DOMAIN w : w[i] # h
        /\ \A i \in DOMAIN w : \E k \in DOMAIN st.todo : st.todo[k] = w[i]
        /\ \A i, j \in DOMAIN w : i < j =>
             \E k, l \in DOMAIN st.todo : k < l /\ st.todo[k] = w[i] /\ st.todo[l] = w[j]
    <3>1. \A i, j \in DOMAIN st.todo : st.todo[i] = st.todo[j] /\ st.todo[i] = h => i = j
      BY <1>0 DEF QueueOK
    <3> QED
      BY <1>t, <3>1, WithoutLemma
  <2> HIDE DEF w
  <2>3. NoRef \in Ref
    BY DEF NoRef, Ref
  <2>4. [st.refs EXCEPT ![h] = NoRef] \in [Handles -> Ref]
    BY <1>t, <2>3
  <2>5. /\ new \in StateType
        /\ new.todo = w /\ new.refs = [st.refs EXCEPT ![h] = NoRef]
        /\ new.info = st.info /\ new.svclist = st.svclist
    BY <1>0, <2>1, <2>2, <2>4 DEF StateType
  <2>6. QueueOK(new)
    <3>1. ASSUME NEW i \in DOMAIN w, w[i] \in Handles
          PROVE  new.refs[w[i]].death \in Names /\ new.refs[w[i]].node \notin alive
      <4>1. PICK k \in DOMAIN st.todo : st.todo[k] = w[i]
        BY <2>2
      <4>2. new.refs[w[i]] = st.refs[w[i]]
        BY <2>2, <2>5, <3>1, <1>t
      <4> QED
        BY <4>1, <4>2, <3>1, <1>0 DEF QueueOK
    <3>2. ASSUME NEW i \in DOMAIN w, NEW j \in DOMAIN w, w[i] = w[j], w[i] \in Handles
          PROVE  i = j
      <4>1. i \in Nat /\ j \in Nat
        BY <2>2
      <4>2. ASSUME NEW p \in DOMAIN w, NEW q \in DOMAIN w, w[p] = w[q], w[p] \in Handles, p < q
            PROVE  FALSE
        <5>1. PICK k, l \in DOMAIN st.todo : k < l /\ st.todo[k] = w[p] /\ st.todo[l] = w[q]
          BY <2>2, <4>2
        <5>2. k = l
          BY <5>1, <4>2, <1>0 DEF QueueOK
        <5>3. k \in Nat
          BY <1>t
        <5> QED
          BY <5>1, <5>2, <5>3
      <4>3. ~(i < j) /\ ~(j < i)
        BY <4>2, <3>2
      <4> QED
        BY <4>1, <4>3
    <3> QED
      BY <2>5, <3>1, <3>2 DEF QueueOK
  <2>7. UnusedOK(new)
    BY <1>0, <1>t, <2>5 DEF UnusedOK
  <2>8. \A g \in Handles : new.refs[g].strong =
           IF g = h THEN st.refs[g].strong - 1 ELSE st.refs[g].strong
    BY <2>5, <1>t, <1>2 DEF NoRef
  <2> QED
    BY <2>5, <2>6, <2>7, <2>8, <1>2 DEF Good
<1>3. CASE st.refs[h].strong \notin {0, 1}
  <2>1. new = [st EXCEPT !.refs[h].strong = @ - 1]
    BY <1>3 DEF BC_RELEASE
  <2>2. /\ new.todo = st.todo /\ new.info = st.info /\ new.svclist = st.svclist
        /\ new.refs = [st.refs EXCEPT ![h].strong = @ - 1]
    BY <1>0, <2>1 DEF StateType
  <2>3. st.refs[h].strong \in Nat /\ st.refs[h].strong - 1 \in Nat \ {0}
    BY <1>t, <1>3 DEF Ref
  <2>4. new.refs \in [Handles -> Ref]
    BY <2>2, <2>3, <1>t DEF Ref
  <2>5. new \in StateType
    BY <2>1, <2>2, <2>4, <1>0 DEF StateType
  <2>6. /\ \A g \in Handles : /\ new.refs[g].death = st.refs[g].death
                               /\ new.refs[g].node = st.refs[g].node
        /\ \A g \in Handles : g # h => new.refs[g] = st.refs[g]
        /\ new.refs[h].strong = st.refs[h].strong - 1
    <3>1. new.refs[h] = [st.refs[h] EXCEPT !.strong = @ - 1]
      BY <2>2, <1>t
    <3>2. \A g \in Handles : g # h => new.refs[g] = st.refs[g]
      BY <2>2, <1>t
    <3>3. st.refs[h] \in Ref
      BY <1>t
    <3>4. /\ new.refs[h].death = st.refs[h].death /\ new.refs[h].node = st.refs[h].node
          /\ new.refs[h].strong = st.refs[h].strong - 1
      BY <3>1, <3>3 DEF Ref
    <3> QED
      BY <3>2, <3>4
  <2>7. QueueOK(new)
    BY <2>2, <2>6, <1>0 DEF QueueOK
  <2>8. UnusedOK(new)
    <3>1. new.refs[h].strong # 0
      BY <2>3, <2>6
    <3>2. \A g \in Handles : new.refs[g].strong = 0 => g # h
      BY <3>1
    <3> QED
      BY <3>2, <2>6, <1>0 DEF UnusedOK
  <2> QED
    BY <2>2, <2>5, <2>6, <2>7, <2>8, <1>3 DEF Good
<1> QED
  BY <1>1, <1>2, <1>3

(* An acquire of a handle in use leaves a good state with one strong       *)
(* reference more.                                                         *)
LEMMA AcquireLemma ==
  ASSUME NEW st, Good(st), NEW h \in Handles, st.refs[h].strong # 0
  PROVE  /\ Good(BC_ACQUIRE(st, h))
         /\ BC_ACQUIRE(st, h).info = st.info
         /\ BC_ACQUIRE(st, h).svclist = st.svclist
         /\ \A g \in Handles : g # h => BC_ACQUIRE(st, h).refs[g] = st.refs[g]
         /\ BC_ACQUIRE(st, h).refs[h].strong = st.refs[h].strong + 1
<1> DEFINE new == BC_ACQUIRE(st, h)
<1>0. st \in StateType /\ QueueOK(st) /\ UnusedOK(st)
  BY DEF Good
<1>t. st.refs \in [Handles -> Ref] /\ st.todo \in Seq(Clients \cup Handles)
  BY <1>0 DEF StateType
<1>1. new = [st EXCEPT !.refs[h].strong = @ + 1]
  BY DEF BC_ACQUIRE
<1>2. /\ new.todo = st.todo /\ new.info = st.info /\ new.svclist = st.svclist
      /\ new.refs = [st.refs EXCEPT ![h].strong = @ + 1]
  BY <1>0, <1>1 DEF StateType
<1>3. st.refs[h] \in Ref /\ st.refs[h].strong \in Nat
  BY <1>t DEF Ref
<1>4. new.refs[h] = [st.refs[h] EXCEPT !.strong = @ + 1]
  BY <1>2, <1>t
<1>5. \A g \in Handles : g # h => new.refs[g] = st.refs[g]
  BY <1>2, <1>t
<1>6. /\ new.refs[h].death = st.refs[h].death /\ new.refs[h].node = st.refs[h].node
      /\ new.refs[h].strong = st.refs[h].strong + 1
  BY <1>4, <1>3 DEF Ref
<1>7. new.refs \in [Handles -> Ref]
  <2>1. [st.refs[h] EXCEPT !.strong = @ + 1] \in Ref
    BY <1>3 DEF Ref
  <2> QED
    BY <1>2, <2>1, <1>t
<1>8. new \in StateType
  BY <1>1, <1>2, <1>7, <1>0 DEF StateType
<1>9. \A g \in Handles : /\ new.refs[g].death = st.refs[g].death
                         /\ new.refs[g].node = st.refs[g].node
  BY <1>5, <1>6
<1>10. QueueOK(new)
  BY <1>2, <1>9, <1>0 DEF QueueOK
<1>11. UnusedOK(new)
  <2>1. \A g \in Handles : new.refs[g].strong = 0 => g # h
    BY <1>6, <1>3
  <2> QED
    BY <2>1, <1>5, <1>0 DEF UnusedOK
<1> QED
  BY <1>2, <1>5, <1>6, <1>8, <1>10, <1>11 DEF Good

(* Asking for a death notification changes no count.                       *)
LEMMA LinkLemma ==
  ASSUME NEW st, Good(st), NEW h \in Handles, NEW cookie \in Names,
         alive \in SUBSET Binders
  PROVE  LET new == BC_REQUEST_DEATH_NOTIFICATION(st, h, cookie)
         IN  /\ Good(new)
             /\ new.info = st.info /\ new.svclist = st.svclist
             /\ \A g \in Handles : new.refs[g].strong = st.refs[g].strong
<1> DEFINE new == BC_REQUEST_DEATH_NOTIFICATION(st, h, cookie)
<1>0. st \in StateType /\ QueueOK(st) /\ UnusedOK(st)
  BY DEF Good
<1>t. st.refs \in [Handles -> Ref] /\ st.todo \in Seq(Clients \cup Handles)
  BY <1>0 DEF StateType
<1>1. CASE st.refs[h].strong = 0 \/ st.refs[h].death # NoName
  BY <1>0, <1>1 DEF BC_REQUEST_DEATH_NOTIFICATION, Good
<1>2. CASE ~(st.refs[h].strong = 0 \/ st.refs[h].death # NoName)
  <2> DEFINE q == IF st.refs[h].node \in alive THEN st.todo ELSE Append(st.todo, h)
             r == [st.refs EXCEPT ![h].death = cookie]
  <2>1. new = [st EXCEPT !.refs[h].death = cookie, !.todo = q]
    BY <1>2 DEF BC_REQUEST_DEATH_NOTIFICATION
  <2>2. st.refs[h] \in Ref
    BY <1>t
  <2>3. /\ r[h].death = cookie /\ r[h].node = st.refs[h].node
        /\ r[h].strong = st.refs[h].strong
    BY <1>t, <2>2 DEF Ref
  <2>4. \A g \in Handles : g # h => r[g] = st.refs[g]
    BY <1>t
  <2>5. r \in [Handles -> Ref]
    BY <1>t, <2>2 DEF Ref
  <2>6. q \in Seq(Clients \cup Handles)
    BY <1>t
  <2>7. /\ new \in StateType /\ new.todo = q /\ new.refs = r
        /\ new.info = st.info /\ new.svclist = st.svclist
    BY <1>0, <2>1, <2>5, <2>6 DEF StateType
  <2> HIDE DEF r, new
  <2>8. \A i \in DOMAIN st.todo : st.todo[i] # h
    <3>1. \A i \in DOMAIN st.todo : st.todo[i] = h => st.refs[h].death \in Names
      BY <1>0 DEF QueueOK
    <3> QED
      BY <3>1, <1>2, ConstantsAssumption
  <2>9. QueueOK(new)
    <3>1. CASE st.refs[h].node \in alive
      <4>1. q = st.todo
        BY <3>1
      <4> QED
        BY <4>1, <2>7, <2>8, <2>4, <1>0 DEF QueueOK
    <3>2. CASE st.refs[h].node \notin alive
      <4>1. q = Append(st.todo, h)
        BY <3>2
      <4> HIDE DEF q
      <4>2. /\ DOMAIN q = 1 .. Len(st.todo) + 1 /\ DOMAIN st.todo = 1 .. Len(st.todo)
            /\ Len(st.todo) \in Nat
            /\ q[Len(st.todo) + 1] = h /\ \A i \in 1 .. Len(st.todo) : q[i] = st.todo[i]
        BY <4>1, <1>t
      <4>3. ASSUME NEW i \in DOMAIN q, q[i] \in Handles
            PROVE  r[q[i]].death \in Names /\ r[q[i]].node \notin alive
        <5>1. CASE i = Len(st.todo) + 1
          BY <5>1, <4>2, <2>3, <3>2
        <5>2. CASE i # Len(st.todo) + 1
          <6>1. i \in DOMAIN st.todo /\ q[i] = st.todo[i] /\ q[i] # h
            BY <5>2, <4>2, <2>8
          <6> QED
            BY <6>1, <4>3, <2>4, <1>0 DEF QueueOK
        <5> QED
          BY <5>1, <5>2
      <4>4. ASSUME NEW i \in DOMAIN q, NEW j \in DOMAIN q, q[i] = q[j], q[i] \in Handles
            PROVE  i = j
        <5>1. CASE q[i] = h
          BY <5>1, <4>2, <4>4, <2>8
        <5>2. CASE q[i] # h
          <6>1. /\ i \in DOMAIN st.todo /\ q[i] = st.todo[i]
                /\ j \in DOMAIN st.todo /\ q[j] = st.todo[j]
            BY <5>2, <4>2, <4>4
          <6> QED
            BY <6>1, <4>4, <1>0 DEF QueueOK
        <5> QED
          BY <5>1, <5>2
      <4> QED
        BY <4>3, <4>4, <2>7 DEF QueueOK
    <3> QED
      BY <3>1, <3>2
  <2>10. UnusedOK(new)
    <3>1. r[h].strong # 0
      BY <2>3, <1>2
    <3>2. \A g \in Handles : r[g].strong = 0 => g # h
      BY <3>1
    <3> QED
      BY <2>4, <2>7, <3>2, <1>0 DEF UnusedOK
  <2>11. \A g \in Handles : new.refs[g].strong = st.refs[g].strong
    BY <2>3, <2>4, <2>7
  <2> QED
    BY <2>7, <2>9, <2>10, <2>11 DEF Good, new
<1> QED
  BY <1>1, <1>2

----------------------------------------------------------------------------
(* Counting the holders of a handle.                                       *)

Holders(inf, h) == {n \in Names : inf[n].handle = h}
Carriers(cl, h) == {c \in Clients : cl[c].op = "add" /\ cl[c].handle = h}

(* Every count of the driver is explained by the table and the calls.      *)
Balanced(st, cl) ==
  \A h \in Handles : st.refs[h].strong = Cardinality(Holders(st.info, h))
                                           + Cardinality(Carriers(cl, h))

(* The holders and the carriers of a handle are finitely many.             *)
LEMMA CountType ==
  ASSUME NEW inf, NEW cl, NEW h
  PROVE  /\ IsFiniteSet(Holders(inf, h)) /\ Cardinality(Holders(inf, h)) \in Nat
         /\ IsFiniteSet(Carriers(cl, h)) /\ Cardinality(Carriers(cl, h)) \in Nat
<1>1. Holders(inf, h) \subseteq Names /\ Carriers(cl, h) \subseteq Clients
  BY DEF Holders, Carriers
<1> QED
  BY <1>1, FS_Subset, FS_CardinalityType, ConstantsAssumption

(* How the holders of h change from table f to table g, which differ at x. *)
Moved(f, g, x, h) ==
  LET before == Cardinality(Holders(f, h))
      after == Cardinality(Holders(g, h))
  IN  /\ g[x].handle = h /\ f[x].handle # h => after = before + 1
      /\ g[x].handle # h /\ f[x].handle = h => after = before - 1
      /\ (g[x].handle = h <=> f[x].handle = h) => after = before

(* A table that differs at one name moves that name from the holders of    *)
(* one handle to those of another.                                         *)
LEMMA HoldersLemma ==
  ASSUME NEW f, NEW g, NEW x \in Names, \A n \in Names \ {x} : g[n].handle = f[n].handle, NEW h
  PROVE  Moved(f, g, x, h)
<1>1. ASSUME g[x].handle = h, f[x].handle # h
      PROVE  Cardinality(Holders(g, h)) = Cardinality(Holders(f, h)) + 1
  <2>1. Holders(g, h) = Holders(f, h) \cup {x} /\ x \notin Holders(f, h)
    BY <1>1 DEF Holders
  <2> QED
    BY <2>1, CountType, FS_AddElement
<1>2. ASSUME g[x].handle # h, f[x].handle = h
      PROVE  Cardinality(Holders(g, h)) = Cardinality(Holders(f, h)) - 1
  <2>1. Holders(g, h) = Holders(f, h) \ {x} /\ x \in Holders(f, h)
    BY <1>2 DEF Holders
  <2> QED
    BY <2>1, CountType, FS_RemoveElement
<1>3. ASSUME g[x].handle = h <=> f[x].handle = h
      PROVE  Holders(g, h) = Holders(f, h)
  BY <1>3 DEF Holders
<1> QED
  BY <1>1, <1>2, <1>3 DEF Moved

Carrying(cl, x, h) == cl[x].op = "add" /\ cl[x].handle = h

(* How the carriers of h change when the call of client x changes.         *)
Recalled(f, g, x, h) ==
  LET before == Cardinality(Carriers(f, h))
      after == Cardinality(Carriers(g, h))
  IN  /\ Carrying(g, x, h) /\ ~Carrying(f, x, h) => after = before + 1
      /\ ~Carrying(g, x, h) /\ Carrying(f, x, h) => after = before - 1
      /\ (Carrying(g, x, h) <=> Carrying(f, x, h)) => after = before

(* A client starts or stops carrying a handle.                             *)
LEMMA CarriersLemma ==
  ASSUME NEW f, NEW g, NEW x \in Clients, \A c \in Clients \ {x} : g[c] = f[c], NEW h
  PROVE  Recalled(f, g, x, h)
<1>1. ASSUME Carrying(g, x, h), ~Carrying(f, x, h)
      PROVE  Cardinality(Carriers(g, h)) = Cardinality(Carriers(f, h)) + 1
  <2>1. Carriers(g, h) = Carriers(f, h) \cup {x} /\ x \notin Carriers(f, h)
    BY <1>1 DEF Carriers, Carrying
  <2> QED
    BY <2>1, CountType, FS_AddElement
<1>2. ASSUME ~Carrying(g, x, h), Carrying(f, x, h)
      PROVE  Cardinality(Carriers(g, h)) = Cardinality(Carriers(f, h)) - 1
  <2>1. Carriers(g, h) = Carriers(f, h) \ {x} /\ x \in Carriers(f, h)
    BY <1>2 DEF Carriers, Carrying
  <2> QED
    BY <2>1, CountType, FS_RemoveElement
<1>3. ASSUME Carrying(g, x, h) <=> Carrying(f, x, h)
      PROVE  Carriers(g, h) = Carriers(f, h)
  BY <1>3 DEF Carriers, Carrying
<1> QED
  BY <1>1, <1>2, <1>3 DEF Recalled

----------------------------------------------------------------------------
(* The operations of the service manager.                                  *)

(* Only a listed name holds a handle.                                      *)
ListedOK(st) == \A n \in Names : n \notin Range(st.svclist) => st.info[n].handle = NoHandle

(* svcinfo_death drops the reference of the entry it clears, no other.     *)
LEMMA DeathLemma ==
  ASSUME NEW st, Good(st), ListedOK(st), NEW n \in Names, NEW cl, Balanced(st, cl)
  PROVE  LET new == svcinfo_death(st, n)
         IN  /\ Good(new) /\ ListedOK(new) /\ Balanced(new, cl)
             /\ new.svclist = st.svclist
             /\ new.info[n].handle = NoHandle
<1> DEFINE h == st.info[n].handle
           rel == BC_RELEASE(st, h)
           new == svcinfo_death(st, n)
<1>0. st \in StateType /\ st.info \in [Names -> SvcInfo] /\ st.info[n] \in SvcInfo
  BY DEF Good, StateType
<1>1. CASE h = NoHandle
  BY <1>1 DEF svcinfo_death
<1>2. CASE h # NoHandle
  <2>1. h \in Handles
    BY <1>0, <1>2 DEF SvcInfo
  <2>2. /\ Good(rel) /\ rel.info = st.info /\ rel.svclist = st.svclist
        /\ \A g \in Handles : rel.refs[g].strong =
              IF g = h /\ st.refs[h].strong # 0 THEN st.refs[g].strong - 1
                                               ELSE st.refs[g].strong
    BY <2>1, ReleaseLemma
  <2>3. rel \in StateType /\ QueueOK(rel) /\ UnusedOK(rel)
    BY <2>2 DEF Good
  <2>4. new = [rel EXCEPT !.info[n].handle = NoHandle]
    BY <1>2 DEF svcinfo_death, binder_release
  <2> HIDE DEF rel, new
  <2> DEFINE inf == [st.info EXCEPT ![n].handle = NoHandle]
  <2>5. /\ inf \in [Names -> SvcInfo] /\ inf[n].handle = NoHandle
        /\ \A k \in Names \ {n} : inf[k] = st.info[k]
    BY <1>0 DEF SvcInfo
  <2>6. /\ new \in StateType /\ new.info = inf /\ new.refs = rel.refs /\ new.todo = rel.todo
        /\ new.svclist = st.svclist
    BY <2>2, <2>3, <2>4, <2>5 DEF StateType
  <2>7. QueueOK(new) /\ UnusedOK(new)
    BY <2>3, <2>6 DEF QueueOK, UnusedOK
  <2>8. Balanced(new, cl)
    <3> SUFFICES ASSUME NEW g \in Handles
                 PROVE  new.refs[g].strong = Cardinality(Holders(inf, g)) + Cardinality(Carriers(cl, g))
      BY <2>6 DEF Balanced
    <3> HIDE DEF inf
    <3>1. st.refs[g].strong = Cardinality(Holders(st.info, g)) + Cardinality(Carriers(cl, g))
      BY DEF Balanced
    <3>2. \A k \in Names \ {n} : inf[k].handle = st.info[k].handle
      BY <2>5
    <3>3. Moved(st.info, inf, n, g)
      BY <3>2, HoldersLemma
    <3>4. inf[n].handle # g
      BY <2>5, ConstantsAssumption
    <3>5. /\ Cardinality(Holders(st.info, g)) \in Nat /\ Cardinality(Holders(inf, g)) \in Nat
          /\ Cardinality(Carriers(cl, g)) \in Nat
      BY CountType
    <3>6. CASE g = h
      <4>1. Cardinality(Holders(inf, g)) = Cardinality(Holders(st.info, g)) - 1
        BY <3>3, <3>4, <3>6 DEF Moved
      <4>2. st.refs[g].strong # 0
        BY <4>1, <3>1, <3>5
      <4>3. rel.refs[g].strong = st.refs[g].strong - 1
        BY <4>2, <3>6, <2>2
      <4> QED
        BY <4>1, <4>3, <3>1, <3>5, <2>6
    <3>7. CASE g # h
      <4>1. Cardinality(Holders(inf, g)) = Cardinality(Holders(st.info, g))
        BY <3>3, <3>4, <3>7 DEF Moved
      <4>2. rel.refs[g].strong = st.refs[g].strong
        BY <3>7, <2>2
      <4> QED
        BY <4>1, <4>2, <3>1, <2>6
    <3> QED
      BY <3>6, <3>7
  <2>9. ListedOK(new)
    BY <2>5, <2>6 DEF ListedOK
  <2> QED
    BY <2>5, <2>6, <2>7, <2>8, <2>9 DEF Good, new
<1> QED
  BY <1>1, <1>2

(* A registration gives the entry a reference of its own.                  *)
LEMMA AddLemma ==
  ASSUME NEW st, Good(st), ListedOK(st), NEW cl, Balanced(st, cl),
         alive \in SUBSET Binders,
         NEW x \in Clients, NEW m \in AddMsg, cl[x] = m
  PROVE  LET new == do_add_service(st, m)
         IN  Good(new) /\ ListedOK(new) /\ Balanced(new, cl)
<1> DEFINE h == m.handle
           e == EnterService(st, m)
           a == BC_ACQUIRE(e, h)
           l == BC_REQUEST_DEATH_NOTIFICATION(a, h, m.name)
<1>1. CASE ~Acceptable(m)
  BY <1>1 DEF do_add_service
<1>2. CASE Acceptable(m)
  <2>1. h \in Handles /\ m.name \in Names /\ m.op = "add"
    BY <1>2 DEF Acceptable, AddMsg
  <2>2. do_add_service(st, m) = l
    BY <1>2 DEF do_add_service, binder_acquire, binder_link_to_death
  <2> DEFINE Before(d) ==
               /\ Good(d) /\ ListedOK(d) /\ Balanced(d, cl)
               /\ d.info[m.name].handle = NoHandle
             After(d) ==
               /\ e \in StateType /\ e.refs = d.refs /\ e.todo = d.todo
               /\ e.info[m.name].handle = h
               /\ \A k \in Names \ {m.name} : e.info[k] = d.info[k]
               /\ ListedOK(e)
  <2>3. \E d : Before(d) /\ After(d)
    <3>1. CASE find_svc(st, m.name)
      <4> DEFINE d == svcinfo_death(st, m.name)
      <4>1. Before(d)
        BY <2>1, DeathLemma
      <4>2. e = [d EXCEPT !.info[m.name].handle = h] /\ d.svclist = st.svclist
        BY <3>1, <2>1, DeathLemma DEF EnterService
      <4>3. d \in StateType /\ ListedOK(d)
        BY <4>1 DEF Good
      <4> HIDE DEF d, e
      <4>4. [d.info EXCEPT ![m.name].handle = h] \in [Names -> SvcInfo]
        BY <4>3, <2>1 DEF StateType, SvcInfo
      <4>5. /\ e \in StateType /\ e.refs = d.refs /\ e.todo = d.todo /\ e.svclist = d.svclist
            /\ e.info = [d.info EXCEPT ![m.name].handle = h]
        BY <4>2, <4>3, <4>4 DEF StateType
      <4>6. d.info \in [Names -> SvcInfo] /\ d.info[m.name] \in SvcInfo
        BY <4>3, <2>1 DEF StateType
      <4>7. e.info[m.name].handle = h /\ \A k \in Names \ {m.name} : e.info[k] = d.info[k]
        BY <4>5, <4>6, <2>1 DEF SvcInfo
      <4>8. m.name \in Range(e.svclist)
        BY <3>1, <4>2, <4>5 DEF find_svc
      <4>9. ListedOK(e)
        BY <4>3, <4>5, <4>7, <4>8 DEF ListedOK
      <4> QED
        BY <4>1, <4>5, <4>7, <4>9
    <3>2. CASE ~find_svc(st, m.name)
      <4> DEFINE i == [handle |-> h, allow_isolated |-> m.allow_isolated,
                       dumpsys_priority |-> m.dumpsys_priority]
                 s == <<m.name>> \o st.svclist
      <4>1. e = [st EXCEPT !.svclist = s, !.info[m.name] = i]
        BY <3>2 DEF EnterService
      <4>2. st \in StateType /\ st.info \in [Names -> SvcInfo] /\ st.svclist \in Seq(Names)
        BY DEF Good, StateType
      <4>3. i \in SvcInfo
        BY <2>1 DEF SvcInfo, AddMsg
      <4>4. s \in Seq(Names) /\ Range(st.svclist) \subseteq Range(s) /\ m.name \in Range(s)
        <5>1. /\ s \in Seq(Names) /\ Len(s) = Len(st.svclist) + 1 /\ s[1] = m.name
              /\ Len(st.svclist) \in Nat
              /\ \A k \in 1 .. Len(st.svclist) : s[k + 1] = st.svclist[k]
          BY <4>2, <2>1
        <5> HIDE DEF s
        <5>2. \A k \in DOMAIN st.svclist : k + 1 \in DOMAIN s /\ s[k + 1] = st.svclist[k]
          BY <5>1, <4>2
        <5>3. 1 \in DOMAIN s
          BY <5>1
        <5> QED
          BY <5>1, <5>2, <5>3 DEF Range
      <4>5. [st.info EXCEPT ![m.name] = i] \in [Names -> SvcInfo]
        BY <4>2, <4>3
      <4> HIDE DEF e, s
      <4>6. /\ e \in StateType /\ e.refs = st.refs /\ e.todo = st.todo /\ e.svclist = s
            /\ e.info = [st.info EXCEPT ![m.name] = i]
        BY <4>1, <4>2, <4>4, <4>5 DEF StateType
      <4>7. e.info[m.name].handle = h /\ \A k \in Names \ {m.name} : e.info[k] = st.info[k]
        BY <4>6, <4>2, <2>1
      <4>8. ListedOK(e)
        <5>1. \A k \in Names : k \notin Range(s) => k \notin Range(st.svclist) /\ k # m.name
          BY <4>4
        <5> QED
          BY <4>6, <4>7, <5>1 DEF ListedOK
      <4>9. st.info[m.name].handle = NoHandle
        BY <3>2, <2>1 DEF ListedOK, find_svc
      <4> QED
        BY <4>6, <4>7, <4>8, <4>9
    <3> QED
      BY <3>1, <3>2
  <2> HIDE DEF e
  <2>4. PICK d : Before(d) /\ After(d)
    BY <2>3
  <2>5. Good(e)
    BY <2>4 DEF Good, QueueOK, UnusedOK
  <2>6. \A g \in Handles : /\ Cardinality(Holders(e.info, g)) \in Nat
                           /\ Cardinality(Holders(d.info, g)) \in Nat
                           /\ Cardinality(Carriers(cl, g)) \in Nat
    BY CountType
  <2>7. \A g \in Handles : Moved(d.info, e.info, m.name, g)
    BY <2>1, <2>4, HoldersLemma
  <2>8. \A g \in Handles : Cardinality(Holders(e.info, g)) =
           IF g = h THEN Cardinality(Holders(d.info, g)) + 1 ELSE Cardinality(Holders(d.info, g))
    <3>1. \A g \in Handles : d.info[m.name].handle # g
      BY <2>4, ConstantsAssumption
    <3> QED
      BY <2>4, <2>7, <3>1 DEF Moved
  <2>9. e.refs[h].strong # 0
    <3>1. x \in Carriers(cl, h)
      BY <2>1 DEF Carriers
    <3>2. Cardinality(Carriers(cl, h)) # 0
      BY <3>1, CountType, FS_EmptySet
    <3>3. e.refs[h].strong = Cardinality(Holders(d.info, h)) + Cardinality(Carriers(cl, h))
      BY <2>1, <2>4 DEF Balanced
    <3> QED
      BY <3>2, <3>3, <2>1, <2>6
  <2>10. /\ Good(a) /\ a.info = e.info /\ a.svclist = e.svclist
         /\ \A g \in Handles : g # h => a.refs[g] = e.refs[g]
         /\ a.refs[h].strong = e.refs[h].strong + 1
    BY <2>1, <2>5, <2>9, AcquireLemma
  <2> HIDE DEF a
  <2>11. Balanced(a, cl)
    <3> SUFFICES ASSUME NEW g \in Handles
                 PROVE  a.refs[g].strong = Cardinality(Holders(e.info, g)) + Cardinality(Carriers(cl, g))
      BY <2>10 DEF Balanced
    <3>1. e.refs[g].strong = Cardinality(Holders(d.info, g)) + Cardinality(Carriers(cl, g))
      BY <2>4 DEF Balanced
    <3>2. CASE g = h
      BY <3>1, <3>2, <2>6, <2>8, <2>10
    <3>3. CASE g # h
      BY <3>1, <3>3, <2>6, <2>8, <2>10
    <3> QED
      BY <3>2, <3>3
  <2>12. /\ Good(l) /\ l.info = a.info /\ l.svclist = a.svclist
         /\ \A g \in Handles : l.refs[g].strong = a.refs[g].strong
    BY <2>1, <2>10, LinkLemma
  <2> HIDE DEF l
  <2>13. Balanced(l, cl)
    BY <2>11, <2>12 DEF Balanced
  <2>14. ListedOK(l)
    <3>1. l.info = e.info /\ l.svclist = e.svclist
      BY <2>10, <2>12
    <3>2. ListedOK(e)
      BY <2>4
    <3> QED
      BY <3>1, <3>2 DEF ListedOK
  <2> QED
    BY <2>2, <2>12, <2>13, <2>14
<1> QED
  BY <1>1, <1>2

(* Freeing the buffer of a call drops the reference the call carried.      *)
LEMMA FreeBufferLemma ==
  ASSUME NEW st, Good(st), ListedOK(st), NEW cl \in [Clients -> Message \cup {NoCall}],
         Balanced(st, cl), NEW x \in Clients
  PROVE  LET new == BC_FREE_BUFFER(st, cl[x])
         IN  Good(new) /\ ListedOK(new) /\ Balanced(new, [cl EXCEPT ![x] = NoCall])
<1> DEFINE m == cl[x]
           after == [cl EXCEPT ![x] = NoCall]
           new == BC_FREE_BUFFER(st, m)
<1>1. after[x] = NoCall /\ \A c \in Clients \ {x} : after[c] = cl[c]
  OBVIOUS
<1>2. \A g : ~Carrying(after, x, g)
  BY <1>1 DEF Carrying, NoCall
<1>3. \A g : Recalled(cl, after, x, g)
  BY <1>1, CarriersLemma
<1> HIDE DEF after
<1>4. CASE m.op = "add" /\ m.handle # NoHandle
  <2> DEFINE h == m.handle
  <2>1. h \in Handles
    BY <1>4 DEF Message, AddMsg, FindMsg, ListMsg, PlainMsg, NoCall
  <2>2. new = BC_RELEASE(st, h)
    BY <1>4 DEF BC_FREE_BUFFER
  <2>3. /\ Good(new) /\ new.info = st.info /\ new.svclist = st.svclist
        /\ \A g \in Handles : new.refs[g].strong =
              IF g = h /\ st.refs[h].strong # 0 THEN st.refs[g].strong - 1
                                               ELSE st.refs[g].strong
    BY <2>1, <2>2, ReleaseLemma
  <2> HIDE DEF new
  <2>4. Balanced(new, after)
    <3> SUFFICES ASSUME NEW g \in Handles
                 PROVE  new.refs[g].strong =
                          Cardinality(Holders(st.info, g)) + Cardinality(Carriers(after, g))
      BY <2>3 DEF Balanced
    <3>1. st.refs[g].strong = Cardinality(Holders(st.info, g)) + Cardinality(Carriers(cl, g))
      BY DEF Balanced
    <3>2. /\ Cardinality(Holders(st.info, g)) \in Nat
          /\ Cardinality(Carriers(cl, g)) \in Nat /\ Cardinality(Carriers(after, g)) \in Nat
      BY CountType
    <3>3. CASE g = h
      <4>1. Cardinality(Carriers(after, g)) = Cardinality(Carriers(cl, g)) - 1
        BY <1>2, <1>3, <1>4, <3>3 DEF Recalled, Carrying
      <4>2. st.refs[g].strong # 0
        BY <3>1, <3>2, <4>1
      <4>3. new.refs[g].strong = st.refs[g].strong - 1
        BY <2>3, <3>3, <4>2
      <4> QED
        BY <3>1, <3>2, <4>1, <4>3
    <3>4. CASE g # h
      <4>1. ~Carrying(cl, x, g)
        BY <3>4 DEF Carrying
      <4>2. Cardinality(Carriers(after, g)) = Cardinality(Carriers(cl, g))
        BY <4>1, <1>2, <1>3 DEF Recalled
      <4>3. new.refs[g].strong = st.refs[g].strong
        BY <2>3, <3>4
      <4> QED
        BY <3>1, <4>2, <4>3
    <3> QED
      BY <3>3, <3>4
  <2>5. ListedOK(new)
    BY <2>3 DEF ListedOK
  <2> QED
    BY <2>3, <2>4, <2>5 DEF new, after
<1>5. CASE ~(m.op = "add" /\ m.handle # NoHandle)
  <2>1. new = st
    BY <1>5 DEF BC_FREE_BUFFER
  <2>2. \A g \in Handles : ~Carrying(cl, x, g)
    BY <1>5, ConstantsAssumption DEF Carrying
  <2>3. \A g \in Handles : Cardinality(Carriers(after, g)) = Cardinality(Carriers(cl, g))
    BY <2>2, <1>2, <1>3 DEF Recalled
  <2>4. Balanced(new, after)
    BY <2>1, <2>3 DEF Balanced
  <2> QED
    BY <2>1, <2>4 DEF after
<1> QED
  BY <1>4, <1>5

----------------------------------------------------------------------------
(* The inductive invariant: types alone are not preserved, because a death *)
(* notice is handled through the cookie of its reference, and counts alone *)
(* are not, because the cookie and the list decide which entry is touched. *)
Inv ==
  /\ TypeOK
  /\ QueueOK(State) /\ UnusedOK(State) /\ ListedOK(State)
  /\ Balanced(State, call)

(* The initial state, in which nothing is registered or queued, is one.    *)
LEMMA InitInv == Init => Inv
<1> SUFFICES ASSUME Init PROVE Inv
  OBVIOUS
<1>1. TypeOK
  BY ConstantsAssumption DEF Init, TypeOK, NoInfo, SvcInfo, NoRef, Ref, Reply, NoReply
<1>2. QueueOK(State) /\ UnusedOK(State)
  BY DEF Init, QueueOK, UnusedOK, State
<1>3. ListedOK(State)
  BY DEF Init, ListedOK, State, NoInfo
<1>4. Balanced(State, call)
  <2> SUFFICES ASSUME NEW h \in Handles
               PROVE  refs[h].strong = Cardinality(Holders(info, h)) + Cardinality(Carriers(call, h))
    BY DEF Balanced, State
  <2>1. Holders(info, h) = {} /\ Carriers(call, h) = {}
    BY ConstantsAssumption DEF Init, Holders, Carriers, NoInfo, NoCall
  <2>2. refs[h].strong = 0
    BY DEF Init, NoRef
  <2> QED
    BY <2>1, <2>2, FS_EmptySet
<1> QED
  BY <1>1, <1>2, <1>3, <1>4 DEF Inv

(* The facts of the invariant, for the state record.                       *)
LEMMA GoodState ==
  ASSUME Inv
  PROVE  Good(State) /\ ListedOK(State) /\ Balanced(State, call)
BY DEF Inv, Good, State, StateType, TypeOK

(* Taking the first item off the queue leaves a good state.                *)
LEMMA PopLemma ==
  ASSUME Inv, todo # <<>>
  PROVE  LET st == [State EXCEPT !.todo = Tail(todo)]
         IN  Good(st) /\ ListedOK(st) /\ Balanced(st, call)
<1> DEFINE st == [State EXCEPT !.todo = Tail(todo)]
<1>1. Good(State) /\ ListedOK(State) /\ Balanced(State, call)
  BY GoodState
<1>2. /\ todo \in Seq(Clients \cup Handles) /\ State \in StateType
      /\ State.todo = todo /\ State.refs = refs
  BY DEF Inv, TypeOK, State, StateType
<1>3. /\ Tail(todo) \in Seq(Clients \cup Handles)
      /\ \A i \in DOMAIN Tail(todo) : i \in Nat /\ i + 1 \in DOMAIN todo /\ Tail(todo)[i] = todo[i + 1]
  BY <1>2
<1>4. /\ st \in StateType /\ st.todo = Tail(todo) /\ st.refs = refs
      /\ st.info = State.info /\ st.svclist = State.svclist
  BY <1>2, <1>3 DEF StateType
<1> HIDE DEF st
<1>5. QueueOK(st)
  <2>1. QueueOK(State)
    BY <1>1 DEF Good
  <2>2. \A i \in DOMAIN Tail(todo) : Tail(todo)[i] \in Handles =>
          refs[Tail(todo)[i]].death \in Names /\ refs[Tail(todo)[i]].node \notin alive
    BY <2>1, <1>2, <1>3 DEF QueueOK
  <2>3. ASSUME NEW i \in DOMAIN Tail(todo), NEW j \in DOMAIN Tail(todo),
               Tail(todo)[i] = Tail(todo)[j], Tail(todo)[i] \in Handles
        PROVE  i = j
    <3>1. i + 1 = j + 1
      BY <2>1, <2>3, <1>2, <1>3 DEF QueueOK
    <3> QED
      BY <3>1, <1>3
  <2> QED
    BY <2>2, <2>3, <1>4 DEF QueueOK
<1>6. UnusedOK(st) /\ ListedOK(st) /\ Balanced(st, call)
  BY <1>1, <1>2, <1>4 DEF Good, UnusedOK, ListedOK, Balanced
<1> QED
  BY <1>4, <1>5, <1>6 DEF Good, st

(* A step of the service manager that becomes a good state keeps the       *)
(* driver's part of the invariant.                                         *)
LEMMA BecomeLemma ==
  ASSUME NEW st, Become(st), Good(st), ListedOK(st), NEW cl, Balanced(st, cl),
         call' = cl, UNCHANGED alive
  PROVE  /\ svclist' \in Seq(Names) /\ info' \in [Names -> SvcInfo]
         /\ refs' \in [Handles -> Ref] /\ todo' \in Seq(Clients \cup Handles)
         /\ QueueOK(State)' /\ UnusedOK(State)' /\ ListedOK(State)' /\ Balanced(State, call)'
<1>1. /\ svclist' = st.svclist /\ info' = st.info /\ refs' = st.refs /\ todo' = st.todo
  BY DEF Become
<1>2. /\ svclist' \in Seq(Names) /\ info' \in [Names -> SvcInfo]
      /\ refs' \in [Handles -> Ref] /\ todo' \in Seq(Clients \cup Handles)
  BY <1>1 DEF Good, StateType
<1>3. /\ State'.svclist = svclist' /\ State'.info = info'
      /\ State'.refs = refs' /\ State'.todo = todo'
  BY DEF State
<1>4. QueueOK(State)'
  BY <1>1, <1>3 DEF Good, QueueOK, State
<1>5. UnusedOK(State)'
  BY <1>1, <1>3 DEF Good, UnusedOK, State
<1>6. ListedOK(State)'
  BY <1>1, <1>3 DEF ListedOK, State
<1>7. Balanced(State, call)'
  BY <1>1, <1>3 DEF Balanced, State, Holders, Carriers
<1> QED
  BY <1>2, <1>4, <1>5, <1>6, <1>7

----------------------------------------------------------------------------
(* One lemma per kind of step. *)

(* Whatever the handler answers is a reply.                                *)
LEMMA ReplyType ==
  ASSUME NEW st, Good(st), NEW m \in Message \cup {NoCall}
  PROVE  svcmgr_reply(st, m) \in Reply
<1>1. st.svclist \in Seq(Names) /\ st.refs \in [Handles -> Ref] /\ st.info \in [Names -> SvcInfo]
  BY DEF Good, StateType
<1>2. Failed \in Reply /\ Zero \in Reply /\ Nothing \in Reply
  BY DEF Reply
<1>3. CASE m.op = "find"
  <2> DEFINE h == do_find_service(st, m)
  <2>1. m.name \in Names
    BY <1>3 DEF Message, AddMsg, FindMsg, ListMsg, PlainMsg, NoCall
  <2>2. h \in Handles \cup {NoHandle}
    BY <1>1, <2>1 DEF do_find_service, SvcInfo
  <2> HIDE DEF h
  <2>3. h # NoHandle => BC_REPLY(st, h) \in Reply
    <3>1. h # NoHandle => st.refs[h].node \in Binders \cup {NoBinder}
      BY <1>1, <2>2 DEF Ref
    <3> QED
      BY <3>1, <1>2 DEF BC_REPLY, Reply
  <2>4. FindReply(st, m) \in Reply
    BY <2>3, <1>2 DEF FindReply, h
  <2> QED
    BY <2>4, <1>3 DEF svcmgr_reply
<1>4. CASE m.op = "list"
  <2>1. \A i \in DOMAIN st.svclist : NameReply(Sent(st.svclist[i])) \in Reply
    BY <1>1 DEF Reply, Sent
  <2>2. ListReply(st, m) \in Reply
    BY <2>1, <1>2 DEF ListReply
  <2> QED
    BY <2>2, <1>4 DEF svcmgr_reply
<1>5. CASE m.op \notin {"find", "list"}
  BY <1>2, <1>5 DEF svcmgr_reply
<1> QED
  BY <1>3, <1>4, <1>5

(* Serving a transaction keeps the invariant.                              *)
LEMMA ServeTransactionInv == ASSUME Inv, ServeTransaction PROVE Inv'
<1> DEFINE c == Head(todo)
           st == [State EXCEPT !.todo = Tail(todo)]
           h == svcmgr_handler(st, call[c])
           f == BC_FREE_BUFFER(h, call[c])
           cl == [call EXCEPT ![c] = NoCall]
<1>1. /\ c \in Clients /\ todo # <<>> /\ Become(f) /\ call' = cl
      /\ reply' = [reply EXCEPT ![c] = svcmgr_reply(st, call[c])]
      /\ UNCHANGED <<alive, walk>>
  BY DEF ServeTransaction
<1>2. Good(st) /\ ListedOK(st) /\ Balanced(st, call)
  BY <1>1, PopLemma
<1>3. /\ call \in [Clients -> Message \cup {NoCall}] /\ call[c] \in Message \cup {NoCall}
      /\ alive \in SUBSET Binders /\ reply \in [Clients -> Reply]
      /\ walk \in [Clients -> Walk \cup {NoWalk}]
  BY <1>1 DEF Inv, TypeOK
<1> HIDE DEF st, c
<1>4. Good(h) /\ ListedOK(h) /\ Balanced(h, call)
  <2>1. CASE call[c].op = "add"
    <3>1. call[c] \in AddMsg
      BY <2>1, <1>3 DEF Message, AddMsg, FindMsg, ListMsg, PlainMsg, NoCall
    <3>2. h = do_add_service(st, call[c])
      BY <2>1 DEF svcmgr_handler
    <3> QED
      BY <3>1, <3>2, <1>1, <1>2, <1>3, AddLemma
  <2>2. CASE call[c].op # "add"
    BY <2>2, <1>2 DEF svcmgr_handler
  <2> QED
    BY <2>1, <2>2
<1> HIDE DEF h
<1>5. Good(f) /\ ListedOK(f) /\ Balanced(f, cl)
  BY <1>1, <1>3, <1>4, FreeBufferLemma
<1> HIDE DEF f
<1>6. cl \in [Clients -> Message \cup {NoCall}]
  BY <1>3
<1> HIDE DEF cl
<1>7. reply' \in [Clients -> Reply]
  BY <1>1, <1>2, <1>3, ReplyType
<1>8. /\ svclist' \in Seq(Names) /\ info' \in [Names -> SvcInfo]
      /\ refs' \in [Handles -> Ref] /\ todo' \in Seq(Clients \cup Handles)
      /\ QueueOK(State)' /\ UnusedOK(State)' /\ ListedOK(State)' /\ Balanced(State, call)'
  BY <1>1, <1>5, BecomeLemma
<1> QED
  BY <1>1, <1>3, <1>6, <1>7, <1>8 DEF Inv, TypeOK

(* Handling a death notice keeps the invariant.                            *)
LEMMA DeadBinderInv == ASSUME Inv, DeadBinder PROVE Inv'
<1> DEFINE h == Head(todo)
           st == [State EXCEPT !.todo = Tail(todo)]
           d == svcinfo_death(st, refs[h].death)
<1>1. /\ h \in Handles /\ todo # <<>> /\ Become(d)
      /\ UNCHANGED <<alive, call, reply, walk>>
  BY DEF DeadBinder
<1>2. Good(st) /\ ListedOK(st) /\ Balanced(st, call)
  BY <1>1, PopLemma
<1>3. refs[h].death \in Names
  <2>1. 1 \in DOMAIN todo /\ todo[1] = h
    BY <1>1 DEF Inv, TypeOK
  <2> QED
    BY <2>1, <1>1 DEF Inv, QueueOK, State
<1> HIDE DEF st
<1>4. Good(d) /\ ListedOK(d) /\ Balanced(d, call)
  BY <1>2, <1>3, DeathLemma
<1> HIDE DEF d
<1>5. /\ svclist' \in Seq(Names) /\ info' \in [Names -> SvcInfo]
      /\ refs' \in [Handles -> Ref] /\ todo' \in Seq(Clients \cup Handles)
      /\ QueueOK(State)' /\ UnusedOK(State)' /\ ListedOK(State)' /\ Balanced(State, call)'
  BY <1>1, <1>4, BecomeLemma
<1> QED
  BY <1>1, <1>5 DEF Inv, TypeOK

(* A message that carries no handle only joins the queue.                  *)
LEMMA SendInv ==
  ASSUME Inv, NEW c \in Clients, call[c] = NoCall, NEW m \in Message,
         m.op = "add" => m.handle = NoHandle,
         Send(c, m), UNCHANGED <<svclist, info, refs, alive>>,
         walk' \in [Clients -> Walk \cup {NoWalk}]
  PROVE  Inv'
<1>1. /\ call' = [call EXCEPT ![c] = m] /\ reply' = [reply EXCEPT ![c] = NoReply]
      /\ todo' = Append(todo, c)
  BY DEF Send
<1>2. TypeOK'
  <2>1. NoReply \in Reply
    BY DEF Reply
  <2> QED
    BY <1>1, <2>1 DEF Inv, TypeOK
<1>3. QueueOK(State)'
  <2>1. c \notin Handles
    BY ConstantsAssumption
  <2>2. /\ todo \in Seq(Clients \cup Handles) /\ DOMAIN todo = 1 .. Len(todo)
        /\ Len(todo) \in Nat /\ DOMAIN todo' = 1 .. Len(todo) + 1
        /\ todo'[Len(todo) + 1] = c /\ \A i \in 1 .. Len(todo) : todo'[i] = todo[i]
    BY <1>1 DEF Inv, TypeOK
  <2>3. \A i \in DOMAIN todo' : todo'[i] \in Handles => i \in DOMAIN todo /\ todo'[i] = todo[i]
    BY <2>1, <2>2
  <2> QED
    BY <2>3 DEF Inv, QueueOK, State
<1>4. UnusedOK(State)' /\ ListedOK(State)'
  BY DEF Inv, UnusedOK, ListedOK, State
<1>5. Balanced(State, call)'
  <2>1. call'[c] = m /\ \A x \in Clients \ {c} : call'[x] = call[x]
    BY <1>1 DEF Inv, TypeOK
  <2>2. \A h \in Handles : ~Carrying(call, c, h) /\ ~Carrying(call', c, h)
    BY <2>1, ConstantsAssumption DEF Carrying, NoCall
  <2>3. \A h \in Handles : Recalled(call, call', c, h)
    BY <2>1, CarriersLemma
  <2>4. \A h \in Handles : Cardinality(Carriers(call', h)) = Cardinality(Carriers(call, h))
    BY <2>2, <2>3 DEF Recalled
  <2>5. \A h \in Handles : refs[h].strong = Cardinality(Holders(info, h)) + Cardinality(Carriers(call, h))
    BY DEF Inv, Balanced, State
  <2> QED
    BY <2>4, <2>5 DEF Balanced, State, Holders, Carriers
<1> QED
  BY <1>2, <1>3, <1>4, <1>5 DEF Inv

(* An add call carries a reference, of a handle in use or of an unused one.*)
LEMMA CallAddInv ==
  ASSUME Inv, NEW c \in Clients, NEW n \in Names, NEW b \in Binders,
         NEW allow \in BOOLEAN, NEW prio \in Masks, CallAdd(c, n, b, allow, prio)
  PROVE  Inv'
<1>1. PICK h \in Handles :
        /\ Translate(b, h)
        /\ refs' = [refs EXCEPT ![h] = [node |-> b, strong |-> @.strong + 1, death |-> @.death]]
        /\ Send(c, [op |-> "add", name |-> n, handle |-> h, allow_isolated |-> allow,
                    dumpsys_priority |-> prio])
  BY DEF CallAdd
<1> DEFINE m == [op |-> "add", name |-> n, handle |-> h, allow_isolated |-> allow,
                 dumpsys_priority |-> prio]
<1>2. /\ call[c] = NoCall /\ UNCHANGED <<svclist, info, alive, walk>>
      /\ call' = [call EXCEPT ![c] = m] /\ reply' = [reply EXCEPT ![c] = NoReply]
      /\ todo' = Append(todo, c)
  BY <1>1 DEF CallAdd, Free, Send
<1>3. /\ refs \in [Handles -> Ref] /\ refs[h] \in Ref /\ todo \in Seq(Clients \cup Handles)
      /\ call \in [Clients -> Message \cup {NoCall}]
  BY DEF Inv, TypeOK
<1>4. /\ \A g \in Handles : g # h => refs'[g] = refs[g]
      /\ refs'[h].strong = refs[h].strong + 1 /\ refs'[h].death = refs[h].death
      /\ refs'[h].node = b
  BY <1>1, <1>3
<1>5. [node |-> b, strong |-> refs[h].strong + 1, death |-> refs[h].death] \in Ref
  BY <1>3 DEF Ref
<1>6. refs' \in [Handles -> Ref]
  BY <1>1, <1>3, <1>5
<1>7. m \in Message
  BY DEF Message, AddMsg
<1>8. TypeOK'
  <2>1. NoReply \in Reply
    BY DEF Reply
  <2> QED
    BY <1>2, <1>6, <1>7, <2>1 DEF Inv, TypeOK
<1>9. QueueOK(State)'
  <2>1. c \notin Handles
    BY ConstantsAssumption
  <2>2. /\ DOMAIN todo = 1 .. Len(todo) /\ Len(todo) \in Nat
        /\ DOMAIN todo' = 1 .. Len(todo) + 1
        /\ todo'[Len(todo) + 1] = c /\ \A i \in 1 .. Len(todo) : todo'[i] = todo[i]
    BY <1>2, <1>3
  <2>3. \A i \in DOMAIN todo' : todo'[i] \in Handles => i \in DOMAIN todo /\ todo'[i] = todo[i]
    BY <2>1, <2>2
  <2>4. \A i \in DOMAIN todo : todo[i] \in Handles =>
          refs[todo[i]].death \in Names /\ refs[todo[i]].node \notin alive
    BY DEF Inv, QueueOK, State
  <2>5. \A i \in DOMAIN todo : todo[i] = h => refs[h].node = b
    <3>1. \A i \in DOMAIN todo : todo[i] = h => refs[h] # NoRef
      BY <2>4, ConstantsAssumption DEF NoRef
    <3> QED
      BY <3>1, <1>1 DEF Translate
  <2>6. \A i \in DOMAIN todo : todo[i] \in Handles =>
          refs'[todo[i]].death \in Names /\ refs'[todo[i]].node \notin alive
    BY <2>4, <2>5, <1>4
  <2>7. \A i, j \in DOMAIN todo : todo[i] = todo[j] /\ todo[i] \in Handles => i = j
    BY DEF Inv, QueueOK, State
  <2> QED
    BY <2>3, <2>6, <2>7, <1>2 DEF QueueOK, State
<1>10. UnusedOK(State)'
  <2>1. refs'[h].strong # 0
    BY <1>3, <1>4 DEF Ref
  <2>2. \A g \in Handles : refs'[g].strong = 0 => g # h
    BY <2>1
  <2> QED
    BY <1>4, <2>2 DEF Inv, UnusedOK, State
<1>11. ListedOK(State)'
  BY <1>2 DEF Inv, ListedOK, State
<1>12. Balanced(State, call)'
  <2>1. call'[c] = m /\ \A x \in Clients \ {c} : call'[x] = call[x]
    BY <1>2, <1>3
  <2>2. \A g \in Handles : Recalled(call, call', c, g)
    BY <2>1, CarriersLemma
  <2> SUFFICES ASSUME NEW g \in Handles
               PROVE  refs'[g].strong = Cardinality(Holders(info, g)) + Cardinality(Carriers(call', g))
    BY <1>2 DEF Balanced, State, Holders, Carriers
  <2>3. refs[g].strong = Cardinality(Holders(info, g)) + Cardinality(Carriers(call, g))
    BY DEF Inv, Balanced, State
  <2>4. ~Carrying(call, c, g) /\ (Carrying(call', c, g) <=> g = h)
    BY <1>2, <2>1 DEF Carrying, NoCall
  <2>5. Cardinality(Holders(info, g)) \in Nat /\ Cardinality(Carriers(call, g)) \in Nat
    BY CountType
  <2>6. CASE g = h
    <3>1. Cardinality(Carriers(call', g)) = Cardinality(Carriers(call, g)) + 1
      BY <2>2, <2>4, <2>6 DEF Recalled
    <3>2. refs'[g].strong = refs[g].strong + 1
      BY <1>4, <2>6
    <3> QED
      BY <3>1, <3>2, <2>3, <2>5
  <2>7. CASE g # h
    <3>1. Cardinality(Carriers(call', g)) = Cardinality(Carriers(call, g))
      BY <2>2, <2>4, <2>7 DEF Recalled
    <3>2. refs'[g].strong = refs[g].strong
      BY <1>4, <2>7
    <3> QED
      BY <3>1, <3>2, <2>3
  <2> QED
    BY <2>6, <2>7
<1> QED
  BY <1>8, <1>9, <1>10, <1>11, <1>12 DEF Inv

(* Every other step of a client keeps the invariant.                       *)
LEMMA ClientInv ==
  ASSUME Inv, NEW c \in Clients, CallAnything(c) \/ NextInList(c) \/ EndList(c)
  PROVE  Inv'
<1>0. walk \in [Clients -> Walk \cup {NoWalk}] /\ info \in [Names -> SvcInfo]
      /\ svclist \in Seq(Names) /\ reply \in [Clients -> Reply]
  BY DEF Inv, TypeOK
<1>1. ASSUME NEW n \in Names, NEW b \in Binders, NEW allow \in BOOLEAN, NEW prio \in Masks,
             CallAdd(c, n, b, allow, prio)
      PROVE  Inv'
  BY <1>1, CallAddInv
<1>2. ASSUME NEW n \in Names, CallAddNull(c, n) PROVE Inv'
  <2>1. PICK prio \in Masks :
          Send(c, [op |-> "add", name |-> n, handle |-> NoHandle, allow_isolated |-> FALSE,
                   dumpsys_priority |-> prio])
    BY <1>2 DEF CallAddNull
  <2> DEFINE m == [op |-> "add", name |-> n, handle |-> NoHandle, allow_isolated |-> FALSE,
                   dumpsys_priority |-> prio]
  <2>2. m \in Message /\ m.handle = NoHandle
    BY DEF Message, AddMsg
  <2>3. call[c] = NoCall /\ UNCHANGED <<svclist, info, refs, alive, walk>>
    BY <1>2 DEF CallAddNull, Free
  <2> QED
    BY <2>1, <2>2, <2>3, <1>0, SendInv
<1>3. ASSUME NEW n \in Names, NEW uid \in Uids, CallFind(c, n, uid) PROVE Inv'
  <2> DEFINE m == [op |-> "find", name |-> n, uid |-> uid]
  <2>1. m \in Message /\ m.op # "add"
    BY DEF Message, FindMsg
  <2>2. call[c] = NoCall /\ UNCHANGED <<svclist, info, refs, alive, walk>> /\ Send(c, m)
    BY <1>3 DEF CallFind, Free
  <2> QED
    BY <2>1, <2>2, <1>0, SendInv
<1>4. ASSUME NEW m \in PlainMsg, CallPlain(c, m) PROVE Inv'
  <2>1. m \in Message /\ m.op # "add"
    BY DEF Message, PlainMsg
  <2>2. call[c] = NoCall /\ UNCHANGED <<svclist, info, refs, alive, walk>> /\ Send(c, m)
    BY <1>4 DEF CallPlain, Free
  <2> QED
    BY <2>1, <2>2, <1>0, SendInv
<1>5. ASSUME NEW prio \in Masks, BeginList(c, prio) PROVE Inv'
  <2> DEFINE m == [op |-> "list", n |-> 0, prio |-> prio]
             w == [active |-> TRUE, prio |-> prio, n |-> 0, seen |-> {},
                   start |-> {n \in Range(svclist) : Supports(State, n, prio)}]
  <2>1. m \in Message /\ m.op # "add"
    BY DEF Message, ListMsg
  <2>2. /\ call[c] = NoCall /\ UNCHANGED <<svclist, info, refs, alive>> /\ Send(c, m)
        /\ walk' = [walk EXCEPT ![c] = w]
    BY <1>5 DEF BeginList, Free
  <2>3. w \in Walk
    <3>1. Range(svclist) \subseteq Names
      BY <1>0 DEF Range
    <3> QED
      BY <3>1 DEF Walk
  <2>4. walk' \in [Clients -> Walk \cup {NoWalk}]
    BY <2>2, <2>3, <1>0
  <2> QED
    BY <2>1, <2>2, <2>4, SendInv
<1>6. ASSUME NextInList(c) PROVE Inv'
  <2> DEFINE m == [op |-> "list", n |-> walk[c].n + 1, prio |-> walk[c].prio]
  <2>1. /\ call[c] = NoCall /\ UNCHANGED <<svclist, info, refs, alive>> /\ Send(c, m)
        /\ walk' = [walk EXCEPT ![c].n = @ + 1, ![c].seen = @ \cup {reply[c].name}]
        /\ walk[c] # NoWalk /\ reply[c].kind = "name"
    BY <1>6 DEF NextInList
  <2>2. walk[c] \in Walk
    BY <2>1, <1>0
  <2>3. reply[c].name \in Names \cup {NoName}
    BY <2>1, <1>0 DEF Reply, NoReply, Failed, Zero, Nothing, BinderReply, NameReply
  <2>w. walk[c].n + 1 \in Nat /\ walk[c].prio \in Masks /\ walk[c].seen \in SUBSET (Names \cup {NoName})
    <3>1. walk[c].n \in Nat
      BY <2>2, Zenon DEF Walk
    <3>2. walk[c].prio \in Masks
      BY <2>2, Zenon DEF Walk
    <3>3. walk[c].seen \in SUBSET (Names \cup {NoName})
      BY <2>2, Zenon DEF Walk
    <3> QED
      BY <3>1, <3>2, <3>3
  <2>4. m \in Message /\ m.op # "add"
    BY <2>w DEF Message, ListMsg
  <2>5. [walk[c] EXCEPT !.n = @ + 1, !.seen = @ \cup {reply[c].name}] \in Walk
    <3>1. walk[c].seen \cup {reply[c].name} \in SUBSET (Names \cup {NoName})
      BY <2>w, <2>3
    <3> QED
      BY <2>2, <2>w, <3>1 DEF Walk
  <2>6. walk' \in [Clients -> Walk \cup {NoWalk}]
    BY <2>1, <2>5, <1>0
  <2> QED
    BY <2>1, <2>4, <2>6, SendInv
<1>7. ASSUME EndList(c) PROVE Inv'
  <2>1. /\ walk' = [walk EXCEPT ![c] = NoWalk]
        /\ UNCHANGED <<svclist, info, refs, todo, alive, call, reply>>
    BY <1>7 DEF EndList
  <2>2. TypeOK'
    BY <2>1 DEF Inv, TypeOK
  <2>3. QueueOK(State)' /\ UnusedOK(State)' /\ ListedOK(State)'
    BY <2>1 DEF Inv, QueueOK, UnusedOK, ListedOK, State
  <2>4. Balanced(State, call)'
    BY <2>1 DEF Inv, Balanced, State, Holders, Carriers
  <2> QED
    BY <2>2, <2>3, <2>4 DEF Inv
<1> QED
  BY <1>1, <1>2, <1>3, <1>4, <1>5, <1>6, <1>7 DEF CallAnything

(* The death of a binder queues one notice at most.                        *)
LEMMA BinderDiesInv == ASSUME Inv, NEW b \in Binders, BinderDies(b) PROVE Inv'
<1> DEFINE noticed == {h \in Handles : refs[h].node = b /\ refs[h].death # NoName}
<1>1. /\ b \in alive /\ alive' = alive \ {b}
      /\ todo' = IF noticed = {} THEN todo ELSE Append(todo, CHOOSE h \in noticed : TRUE)
      /\ UNCHANGED <<svclist, info, refs, call, reply, walk>>
  BY DEF BinderDies
<1>2. todo \in Seq(Clients \cup Handles) /\ refs \in [Handles -> Ref]
  BY DEF Inv, TypeOK
<1>3. UnusedOK(State)' /\ ListedOK(State)'
  BY <1>1 DEF Inv, UnusedOK, ListedOK, State
<1>4. Balanced(State, call)'
  BY <1>1 DEF Inv, Balanced, State, Holders, Carriers
<1>5. \A i \in DOMAIN todo : todo[i] \in Handles =>
        refs[todo[i]].death \in Names /\ refs[todo[i]].node \notin alive
  BY DEF Inv, QueueOK, State
<1>6. \A i, j \in DOMAIN todo : todo[i] = todo[j] /\ todo[i] \in Handles => i = j
  BY DEF Inv, QueueOK, State
<1>7. CASE noticed = {}
  <2>1. todo' = todo
    BY <1>1, <1>7
  <2>2. TypeOK'
    BY <2>1, <1>1 DEF Inv, TypeOK
  <2>3. QueueOK(State)'
    BY <2>1, <1>1, <1>5, <1>6 DEF QueueOK, State
  <2> QED
    BY <2>2, <2>3, <1>3, <1>4 DEF Inv
<1>8. CASE noticed # {}
  <2>1. PICK h \in noticed : todo' = Append(todo, h)
    BY <1>1, <1>8
  <2>2. h \in Handles /\ refs[h].node = b /\ refs[h].death \in Names
    BY <1>2 DEF Ref
  <2>3. TypeOK'
    BY <2>1, <2>2, <1>1 DEF Inv, TypeOK
  <2>4. /\ DOMAIN todo = 1 .. Len(todo) /\ Len(todo) \in Nat
        /\ DOMAIN todo' = 1 .. Len(todo) + 1
        /\ todo'[Len(todo) + 1] = h /\ \A i \in 1 .. Len(todo) : todo'[i] = todo[i]
    BY <2>1, <2>2, <1>2
  <2>5. \A i \in DOMAIN todo : todo[i] # h
    BY <2>2, <1>1, <1>5
  <2>6. \A i \in DOMAIN todo' : todo'[i] \in Handles =>
          refs[todo'[i]].death \in Names /\ refs[todo'[i]].node \notin alive'
    <3> SUFFICES ASSUME NEW i \in DOMAIN todo', todo'[i] \in Handles
                 PROVE  refs[todo'[i]].death \in Names /\ refs[todo'[i]].node \notin alive'
      OBVIOUS
    <3>1. CASE i = Len(todo) + 1
      BY <3>1, <2>2, <2>4, <1>1
    <3>2. CASE i # Len(todo) + 1
      <4>1. i \in DOMAIN todo /\ todo'[i] = todo[i]
        BY <3>2, <2>4
      <4> QED
        BY <4>1, <1>1, <1>5
    <3> QED
      BY <3>1, <3>2
  <2>7. ASSUME NEW i \in DOMAIN todo', NEW j \in DOMAIN todo',
               todo'[i] = todo'[j], todo'[i] \in Handles
        PROVE  i = j
    <3>1. CASE todo'[i] = h
      BY <3>1, <2>4, <2>5, <2>7
    <3>2. CASE todo'[i] # h
      <4>1. i \in DOMAIN todo /\ todo'[i] = todo[i] /\ j \in DOMAIN todo /\ todo'[j] = todo[j]
        BY <3>2, <2>4, <2>7
      <4> QED
        BY <4>1, <2>7, <1>6
    <3> QED
      BY <3>1, <3>2
  <2>8. QueueOK(State)'
    BY <2>6, <2>7, <1>1 DEF QueueOK, State
  <2> QED
    BY <2>3, <2>8, <1>3, <1>4 DEF Inv
<1> QED
  BY <1>7, <1>8

(* A step that changes nothing keeps the invariant.                        *)
LEMMA StutterInv == ASSUME Inv, UNCHANGED vars PROVE Inv'
BY DEF Inv, vars, TypeOK, QueueOK, UnusedOK, ListedOK, Balanced, State, Holders, Carriers

----------------------------------------------------------------------------
(* Every step keeps the invariant.                                         *)
THEOREM InvInductive == Spec => []Inv
<1>1. ASSUME Inv, [Next]_vars PROVE Inv'
  <2>1. CASE ServeTransaction
    BY <1>1, <2>1, ServeTransactionInv
  <2>2. CASE DeadBinder
    BY <1>1, <2>2, DeadBinderInv
  <2>3. ASSUME NEW c \in Clients, CallAnything(c) \/ NextInList(c) \/ EndList(c) PROVE Inv'
    BY <1>1, <2>3, ClientInv
  <2>4. ASSUME NEW b \in Binders, BinderDies(b) PROVE Inv'
    BY <1>1, <2>4, BinderDiesInv
  <2>5. CASE UNCHANGED vars
    BY <1>1, <2>5, StutterInv
  <2> QED
    BY <1>1, <2>1, <2>2, <2>3, <2>4, <2>5 DEF Next
<1> QED
  BY <1>1, InitInv, PTL DEF Spec

(* Type correctness of the service manager and the driver's view of it,    *)
(* for every number of clients, names, binders and handles.                *)
THEOREM TypeCorrect == Spec => []TypeOK
<1>1. Inv => TypeOK
  BY DEF Inv
<1> QED
  BY <1>1, InvInductive, PTL

(* The reference count of every handle is the number of its registrations  *)
(* plus the number of add calls under way that carry it: no sequence of    *)
(* registrations, overrides, deaths and refused calls leaks a reference or *)
(* releases one that is still in use.                                      *)
THEOREM ReferencesBalance == Spec => []RefBalance
<1>1. Inv => RefBalance
  BY DEF Inv, Balanced, RefBalance, State, Holders, Carriers, Registered, Carried
<1> QED
  BY <1>1, InvInductive, PTL
=============================================================================
