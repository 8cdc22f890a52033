--------------------------- MODULE AppDataProofs ---------------------------
(***************************************************************************)
(* The properties of installd's operations on app data, for any number of  *)
(* volumes, users, snapshots, files, calls, failures and deaths.           *)
(***************************************************************************)
EXTENDS AppData, WellFoundedInduction, TLAPS

----------------------------------------------------------------------------
(* Sequences of steps.                                                     *)

(* A set of numbers has a least one.                                       *)
LEMMA Least ==
  ASSUME NEW T, T \subseteq Nat, T # {}
  PROVE  \E x \in T : \A y \in T : x <= y
<1> DEFINE Less == OpToRel(<, Nat)
<1>1. \A x, y \in Nat : <<y, x>> \in Less <=> y < x
  BY DEF OpToRel
<1>2. IsWellFoundedOn(Less, Nat)
  BY NatLessThanWellFounded, Zenon
<1> HIDE DEF Less
<1>3. \E x \in T : \A y \in T : ~(<<y, x>> \in Less)
  BY <1>2, WFMin, Zenon
<1>4. \A x \in T, y \in T : ~(y < x) => x <= y
  OBVIOUS
<1>5. \A x \in T, y \in T : <<y, x>> \in Less <=> y < x
  BY <1>1
<1> QED
  BY <1>3, <1>4, <1>5

(* What one sequence after the other holds.                                *)
LEMMA Joined ==
  ASSUME NEW K, NEW s \in Seq(K), NEW t \in Seq(K)
  PROVE  s \o t \in Seq(K) /\ ToSet(s \o t) = ToSet(s) \cup ToSet(t)
<1>1. s \o t \in Seq(K) /\ DOMAIN (s \o t) = 1..(Len(s) + Len(t)) /\ DOMAIN s = 1..Len(s) /\ DOMAIN t = 1..Len(t)
      /\ Len(s) \in Nat /\ Len(t) \in Nat
  OBVIOUS
<1>2. \A i \in 1..Len(s) : (s \o t)[i] = s[i]
  OBVIOUS
<1>3. \A i \in 1..Len(t) : (s \o t)[Len(s) + i] = t[i]
  OBVIOUS
<1>4. \A i \in 1..(Len(s) + Len(t)) : i \in 1..Len(s) \/ \E j \in 1..Len(t) : i = Len(s) + j
  <2> TAKE i \in 1..(Len(s) + Len(t))
  <2>1. CASE i > Len(s)
    <3>1. i - Len(s) \in 1..Len(t) /\ i = Len(s) + (i - Len(s))
      BY <1>1, <2>1
    <3> QED BY <3>1
  <2> QED BY <1>1, <2>1
<1>5. \A i \in 1..Len(s) : i \in 1..(Len(s) + Len(t))
  BY <1>1
<1>6. \A i \in 1..Len(t) : Len(s) + i \in 1..(Len(s) + Len(t))
  BY <1>1
<1> DEFINE u == s \o t
           n == Len(s)
           k == Len(t)
<1>7. ToSet(u) = {u[i] : i \in 1..(n + k)} /\ ToSet(s) = {s[i] : i \in 1..n} /\ ToSet(t) = {t[i] : i \in 1..k}
  BY <1>1, Zenon DEF ToSet
<1> HIDE DEF u, n, k
<1>8. ASSUME NEW x \in ToSet(u) PROVE x \in ToSet(s) \cup ToSet(t)
  <2>1. PICK i \in 1..(n + k) : x = u[i]
    BY <1>7
  <2>2. CASE i \in 1..n
    BY <1>2, <1>7, <2>1, <2>2, Zenon DEF u, n
  <2>3. CASE \E j \in 1..k : i = n + j
    BY <1>3, <1>7, <2>1, <2>3, Zenon DEF u, n, k
  <2> QED
    BY <1>4, <2>2, <2>3, Zenon DEF n, k
<1>9. ASSUME NEW x \in ToSet(s) \cup ToSet(t) PROVE x \in ToSet(u)
  BY <1>2, <1>3, <1>5, <1>6, <1>7, Zenon DEF u, n, k
<1> QED
  BY <1>1, <1>8, <1>9 DEF u

(* f flattens the first n sequences of S.                                  *)
Flat(f, S, n) == f = [i \in 1..n |-> IF i = 1 THEN S[i] ELSE f[i - 1] \o S[i]]

(* There is such a function: otherwise there is a least n without one, and *)
(* one for n - 1 can be continued.                                         *)
LEMMA FlatThere ==
  ASSUME NEW S, NEW n \in Nat
  PROVE  \E f : Flat(f, S, n)
<1> DEFINE T == {k \in Nat : ~ \E f : Flat(f, S, k)}
<1> SUFFICES ASSUME T # {} PROVE FALSE
  OBVIOUS
<1>1. PICK m \in T : \A y \in T : m <= y
  BY Least
<1>2. m # 0
  <2> DEFINE g == [i \in 1..0 |-> 0]
  <2>1. Flat(g, S, 0)
    BY DEF Flat
  <2> QED BY <2>1
<1>3. PICK f : Flat(f, S, m - 1)
  BY <1>1, <1>2
<1> DEFINE last == IF m = 1 THEN S[m] ELSE f[m - 1] \o S[m]
           g == [i \in 1..m |-> IF i < m THEN f[i] ELSE last]
<1>4. Flat(g, S, m)
  <2> HIDE DEF last
  <2>1. \A i \in 1..m : g[i] = IF i = 1 THEN S[i] ELSE g[i - 1] \o S[i]
    <3> TAKE i \in 1..m
    <3>1. CASE i < m
      <4>1. i \in 1..(m - 1) /\ g[i] = f[i] /\ (i # 1 => g[i - 1] = f[i - 1])
        BY <3>1
      <4>2. f[i] = IF i = 1 THEN S[i] ELSE f[i - 1] \o S[i]
        BY <4>1, <1>3, Zenon DEF Flat
      <4> QED BY <4>1, <4>2
    <3>2. CASE i = m
      BY <3>2 DEF last
    <3> QED BY <3>1, <3>2
  <2>2. g = [i \in 1..m |-> g[i]]
    OBVIOUS
  <2> HIDE DEF g
  <2> QED BY <2>1, <2>2 DEF Flat
<1> QED
  BY <1>1, <1>4

(* FlattenSeq is defined by it.                                            *)
LEMMA FlattenIs ==
  ASSUME NEW S, Len(S) \in Nat, Len(S) # 0
  PROVE  \E f : Flat(f, S, Len(S)) /\ FlattenSeq(S) = f[Len(S)]
<1> DEFINE f == CHOOSE f : Flat(f, S, Len(S))
<1>1. Flat(f, S, Len(S))
  BY FlatThere
<1>2. FlattenSeq(S) = f[Len(S)]
  BY Zenon DEF FlattenSeq, Flat
<1> QED BY <1>1, <1>2

(* What the first k sequences hold.                                        *)
Upto(S, k) == UNION {ToSet(S[i]) : i \in 1..k}

(* Flattening sequences over K gives one over K that holds what they hold. *)
LEMMA Flattened ==
  ASSUME NEW K, NEW S, Len(S) \in Nat, \A i \in 1..Len(S) : S[i] \in Seq(K), DOMAIN S = 1..Len(S),
         Len(S) = 0 => S = <<>>
  PROVE  /\ FlattenSeq(S) \in Seq(K)
         /\ ToSet(FlattenSeq(S)) = Upto(S, Len(S))
<1>1. CASE Len(S) = 0
  BY <1>1 DEF FlattenSeq, ToSet, Upto
<1>2. CASE Len(S) # 0
  <2>1. PICK f : Flat(f, S, Len(S)) /\ FlattenSeq(S) = f[Len(S)]
    BY <1>2, FlattenIs
  <2>2. \A i \in 1..Len(S) : f[i] = IF i = 1 THEN S[i] ELSE f[i - 1] \o S[i]
    BY <2>1, Zenon DEF Flat
  <2> DEFINE T == {k \in 1..Len(S) :
                     ~(f[k] \in Seq(K) /\ ToSet(f[k]) = Upto(S, k))}
  <2>3. T = {}
    <3> SUFFICES ASSUME T # {} PROVE FALSE
      OBVIOUS
    <3>0. T \subseteq Nat
      OBVIOUS
    <3>1. PICK m \in T : \A y \in T : m <= y
      BY <3>0, Least
    <3>2. m \in 1..Len(S)
      OBVIOUS
    <3>3. CASE m = 1
      <4>1. f[1] = S[1] /\ S[1] \in Seq(K)
        BY <2>2, <3>2
      <4>2. Upto(S, 1) = ToSet(S[1])
        BY DEF Upto
      <4> QED BY <3>3, <4>1, <4>2
    <3>4. CASE m # 1
      <4>1. m - 1 \in 1..Len(S) /\ m - 1 \notin T
        BY <3>1, <3>2, <3>4
      <4>2. f[m - 1] \in Seq(K) /\ ToSet(f[m - 1]) = Upto(S, m - 1)
        BY <4>1
      <4>3. f[m] = f[m - 1] \o S[m] /\ S[m] \in Seq(K)
        BY <2>2, <3>2, <3>4
      <4>4. f[m] \in Seq(K) /\ ToSet(f[m]) = ToSet(f[m - 1]) \cup ToSet(S[m])
        BY <4>2, <4>3, Joined
      <4>5. Upto(S, m) = Upto(S, m - 1) \cup ToSet(S[m])
        BY <3>2, <3>4 DEF Upto
      <4> QED BY <4>2, <4>4, <4>5
    <3> QED BY <3>3, <3>4
  <2> QED BY <1>2, <2>1, <2>3
<1> QED BY <1>1, <1>2

(* A sequence that is not empty has a first element, and others.           *)
LEMMA HeadAndTail ==
  ASSUME NEW K, NEW s \in Seq(K), s # <<>>
  PROVE  Head(s) \in K /\ Tail(s) \in Seq(K) /\ ToSet(s) = {Head(s)} \cup ToSet(Tail(s))
<1>1. /\ Head(s) \in K /\ Tail(s) \in Seq(K) /\ Head(s) = s[1] /\ Len(s) \in Nat /\ Len(s) >= 1
      /\ DOMAIN s = 1..Len(s) /\ DOMAIN Tail(s) = 1..(Len(s) - 1)
  OBVIOUS
<1>2. \A i \in 1..(Len(s) - 1) : Tail(s)[i] = s[i + 1]
  OBVIOUS
<1>3. \A i \in 1..Len(s) : i = 1 \/ (i - 1 \in 1..(Len(s) - 1) /\ i = (i - 1) + 1)
  BY <1>1
<1>4. 1 \in 1..Len(s) /\ \A i \in 1..(Len(s) - 1) : i + 1 \in 1..Len(s)
  BY <1>1
<1> DEFINE t == Tail(s)
           n == Len(s)
<1>5. ToSet(s) = {s[i] : i \in 1..n} /\ ToSet(t) = {t[i] : i \in 1..(n - 1)}
  BY <1>1, Zenon DEF ToSet
<1> HIDE DEF t, n
<1>6. ASSUME NEW x \in ToSet(s) PROVE x \in {Head(s)} \cup ToSet(t)
  <2>1. PICK i \in 1..n : x = s[i]
    BY <1>5
  <2>2. CASE i = 1
    BY <1>1, <2>1, <2>2
  <2>3. CASE i - 1 \in 1..(n - 1) /\ i = (i - 1) + 1
    <3>1. t[i - 1] = s[i]
      BY <1>2, <2>3 DEF t, n
    <3> QED
      BY <1>5, <2>1, <2>3, <3>1
  <2> QED
    BY <1>3, <2>2, <2>3 DEF n
<1>7. ASSUME NEW x \in {Head(s)} \cup ToSet(t) PROVE x \in ToSet(s)
  <2>1. CASE x = Head(s)
    BY <1>1, <1>4, <1>5, <2>1 DEF n
  <2>2. CASE x \in ToSet(t)
    BY <1>2, <1>4, <1>5, <2>2 DEF t, n
  <2> QED
    BY <2>1, <2>2
<1> QED
  BY <1>1, <1>6, <1>7 DEF t

(* A sequence of one element.                                              *)
LEMMA Single ==
  ASSUME NEW K, NEW x \in K
  PROVE  <<x>> \in Seq(K) /\ ToSet(<<x>>) = {x} /\ Ordered(<<x>>)
BY DEF ToSet, Ordered

(* The empty one.                                                          *)
LEMMA Nothing ==
  ASSUME NEW K
  PROVE  <<>> \in Seq(K) /\ ToSet(<<>>) = {} /\ Ordered(<<>>)
BY DEF ToSet, Ordered

(* Steps that are taken on a condition.                                    *)
LEMMA Conditional ==
  ASSUME NEW K, NEW b, NEW s, b => s \in Seq(K)
  PROVE  When(b, s) \in Seq(K)
BY DEF When

(* Elements of a smaller set are elements of a larger one.                 *)
LEMMA Wider ==
  ASSUME NEW K, NEW L, K \subseteq L
  PROVE  Seq(K) \subseteq Seq(L)
OBVIOUS

(* What sequences hold, one element at a time.                             *)
LEMMA Elements ==
  ASSUME NEW K, NEW s \in Seq(K)
  PROVE  \A x \in ToSet(s) : x \in K
BY DEF ToSet

(* Order: of what is left after the first step, and of one program after   *)
(* another.                                                                *)
LEMMA OrderedTail ==
  ASSUME NEW K, NEW s \in Seq(K), s # <<>>, Ordered(s)
  PROVE  Ordered(Tail(s)) /\ \A y \in ToSet(Tail(s)) : InOrder(Head(s), y)
<1>1. /\ Tail(s) \in Seq(K) /\ Head(s) = s[1] /\ Len(s) \in Nat /\ Len(s) >= 1
      /\ DOMAIN s = 1..Len(s) /\ DOMAIN Tail(s) = 1..(Len(s) - 1)
  OBVIOUS
<1>2. \A i \in 1..(Len(s) - 1) : Tail(s)[i] = s[i + 1]
  OBVIOUS
<1>3. 1 \in 1..Len(s) /\ \A i \in 1..(Len(s) - 1) : i + 1 \in 1..Len(s) /\ 1 < i + 1
  BY <1>1
<1>4. Ordered(Tail(s))
  <2> SUFFICES ASSUME NEW i \in 1..(Len(s) - 1), NEW j \in 1..(Len(s) - 1), i < j
               PROVE  InOrder(Tail(s)[i], Tail(s)[j])
    BY <1>1, Zenon DEF Ordered
  <2>1. i + 1 \in DOMAIN s /\ j + 1 \in DOMAIN s /\ i + 1 < j + 1
    BY <1>1
  <2>2. InOrder(s[i + 1], s[j + 1])
    BY <2>1, Zenon DEF Ordered
  <2> QED
    BY <1>2, <2>2
<1>5. ASSUME NEW y \in ToSet(Tail(s)) PROVE InOrder(Head(s), y)
  <2>1. PICK i \in 1..(Len(s) - 1) : y = Tail(s)[i]
    BY <1>1 DEF ToSet
  <2>2. InOrder(s[1], s[i + 1])
    BY <1>1, <1>3, Zenon DEF Ordered
  <2> QED
    BY <1>1, <1>2, <2>1, <2>2
<1> QED
  BY <1>4, <1>5

(* One program after another is in order if the steps of the first may     *)
(* come before those of the second.                                        *)
LEMMA OrderedJoin ==
  ASSUME NEW K, NEW s \in Seq(K), NEW t \in Seq(K), Ordered(s), Ordered(t),
         \A x \in ToSet(s), y \in ToSet(t) : InOrder(x, y)
  PROVE  Ordered(s \o t)
<1> DEFINE u == s \o t
           n == Len(s)
           k == Len(t)
<1>1. /\ DOMAIN u = 1..(n + k) /\ DOMAIN s = 1..n /\ DOMAIN t = 1..k /\ n \in Nat /\ k \in Nat
  OBVIOUS
<1>2. \A i \in 1..n : u[i] = s[i]
  OBVIOUS
<1>3. \A i \in 1..k : u[n + i] = t[i]
  OBVIOUS
<1> HIDE DEF u, n, k
<1> SUFFICES ASSUME NEW i \in 1..(n + k), NEW j \in 1..(n + k), i < j
             PROVE  InOrder(u[i], u[j])
  BY <1>1, Zenon DEF Ordered, u
<1>4. CASE j <= n
  <2>1. i \in DOMAIN s /\ j \in DOMAIN s /\ u[i] = s[i] /\ u[j] = s[j]
    BY <1>1, <1>2, <1>4
  <2>2. InOrder(s[i], s[j])
    BY <2>1, Zenon DEF Ordered
  <2> QED
    BY <2>1, <2>2
<1>5. CASE i <= n /\ j > n
  <2>1. i \in DOMAIN s /\ u[i] = s[i]
    BY <1>1, <1>2, <1>5
  <2>2. j - n \in DOMAIN t /\ u[n + (j - n)] = t[j - n] /\ n + (j - n) = j
    BY <1>1, <1>3, <1>5
  <2>3. s[i] \in ToSet(s) /\ t[j - n] \in ToSet(t)
    BY <2>1, <2>2 DEF ToSet
  <2> QED
    BY <2>1, <2>2, <2>3
<1>6. CASE i > n
  <2>1. i - n \in DOMAIN t /\ u[n + (i - n)] = t[i - n] /\ n + (i - n) = i
    BY <1>1, <1>3, <1>6
  <2>2. j - n \in DOMAIN t /\ u[n + (j - n)] = t[j - n] /\ n + (j - n) = j
    BY <1>1, <1>3, <1>6
  <2>3. i - n < j - n
    BY <1>1
  <2>4. InOrder(t[i - n], t[j - n])
    BY <2>1, <2>2, <2>3, Zenon DEF Ordered
  <2> QED
    BY <2>1, <2>2, <2>4
<1> QED
  BY <1>1, <1>4, <1>5, <1>6

----------------------------------------------------------------------------
(* Directories and the steps of programs.                                  *)

(* Which directory it is can be read off its name.                         *)
LEMMA Names ==
  /\ \A v : App(v)[1] = "app" /\ App(v)[2] = v
  /\ \A s, v, u : Data(s, v, u)[1] = s /\ Data(s, v, u)[2] = v /\ Data(s, v, u)[3] = u
  /\ \A s, u, id : /\ Snap(s, u, id)[1] = "snapshot" /\ Snap(s, u, id)[2] = s
                   /\ Snap(s, u, id)[3] = u /\ Snap(s, u, id)[4] = id
  /\ \A u : Cur(u)[1] = "cur" /\ Ext(u)[1] = "ext"
  /\ Ref[1] = "ref"
BY DEF App, Data, Snap, Cur, Ext, Ref

(* The directories a call is about are among those of the app.             *)
LEMMA AmongDirs ==
  /\ Ref \in Dirs
  /\ \A v \in Volumes : App(v) \in Dirs
  /\ \A s \in Storages, v \in Volumes, u \in UserIds : Data(s, v, u) \in Dirs
  /\ \A u \in UserIds : Cur(u) \in Dirs /\ Ext(u) \in Dirs
  /\ \A s \in Storages, u \in UserIds, id \in Snapshots : Snap(s, u, id) \in Dirs
<1>1. Ref \in Dirs /\ (\A v \in Volumes : App(v) \in Dirs)
  BY DEF Dirs
<1>2. \A s \in Storages, v \in Volumes, u \in UserIds : Data(s, v, u) \in Dirs
  BY DEF Dirs
<1>3. \A u \in UserIds : Cur(u) \in Dirs /\ Ext(u) \in Dirs
  BY DEF Dirs
<1>4. \A s \in Storages, u \in UserIds, id \in Snapshots : Snap(s, u, id) \in Dirs
  BY DEF Dirs
<1> QED
  BY <1>1, <1>2, <1>3, <1>4

(* A directory whose name says so is one of a snapshot.                    *)
LEMMA SnapshotDirs ==
  \A d \in Dirs : d[1] = "snapshot" =>
    \E s \in Storages, u \in UserIds, id \in Snapshots : d = Snap(s, u, id)
BY Names DEF Dirs, Storages

(* A step of an operation that has nothing to do with snapshots.           *)
LEMMA PlainStep ==
  ASSUME NEW c, c.op \in {"create", "clear", "destroy", "profiles", "destroy_user"},
         NEW op \in {"prepare", "clear", "delete", "delete_if_there", "aside"},
         NEW d \in Dirs, d[1] # "snapshot", NEW fail \in {"return", "note", "ignore"}
  PROVE  <<Step(op, d, d, fail, <<>>)>> \in Seq(StepsOf(c))
<1>1. <<>> \in Seq(UndoOf(c)) /\ <<>> \in Seq(Undo)
  BY Nothing
<1>2. Step(op, d, d, fail, <<>>) \in StepsOf(c)
  BY <1>1 DEF Step, StepsOf, Steps
<1> QED
  BY <1>2, Single

(* The programs of the calls that neither copy nor rename.                 *)
LEMMA ProgramsOfDirs ==
  ASSUME NEW c \in Call, c.op \in {"create", "clear", "destroy", "profiles", "destroy_user"}
  PROVE  Program(c) \in Seq(StepsOf(c))
<1> DEFINE K == StepsOf(c)
<1>0. c.vol \in Volumes /\ c.user \in UserIds /\ Internal \in Volumes
  BY BoundsAssumption DEF Call
<1>1. /\ Data("ce", c.vol, c.user) \in Dirs /\ Data("de", c.vol, c.user) \in Dirs
      /\ Cur(c.user) \in Dirs /\ Ref \in Dirs /\ Ext(c.user) \in Dirs
      /\ \A u \in UserIds : Cur(u) \in Dirs
  BY <1>0, AmongDirs DEF Storages
<1>2. /\ Data("ce", c.vol, c.user)[1] # "snapshot" /\ Data("de", c.vol, c.user)[1] # "snapshot"
      /\ \A u : Cur(u)[1] # "snapshot" /\ Ext(u)[1] # "snapshot"
      /\ Ref[1] # "snapshot"
  BY Names
<1>3. ASSUME NEW d \in {Data("ce", c.vol, c.user), Data("de", c.vol, c.user), Ref, Ext(c.user)}
                          \cup {Cur(u) : u \in UserIds},
             NEW fail \in {"return", "note", "ignore"}
      PROVE  /\ Prepare(d, <<>>) \in Seq(K) /\ Clear(d, fail) \in Seq(K) /\ Delete(d, fail) \in Seq(K)
             /\ DeleteIfThere(d, fail) \in Seq(K) /\ Aside(d, fail, <<>>) \in Seq(K)
  <2>1. d \in Dirs /\ d[1] # "snapshot"
    BY <1>1, <1>2
  <2>2. \A op \in {"prepare", "clear", "delete", "delete_if_there", "aside"},
           how \in {"return", "note", "ignore"} : <<Step(op, d, d, how, <<>>)>> \in Seq(K)
    BY <2>1, PlainStep
  <2> QED
    BY <2>2 DEF Prepare, Clear, Delete, DeleteIfThere, Aside
<1>4. <<>> \in Seq(K) /\ \A s, t \in Seq(K) : s \o t \in Seq(K)
  BY Nothing, Joined
<1> HIDE DEF K
<1>5. CASE c.op = "create"
  <2>1. Program(c) = createAppData(c)
    BY <1>5 DEF Program
  <2>2. createAppData(c) \in Seq(K)
    BY <1>0, <1>3, <1>4, Zenon DEF createAppData, createSteps, When
  <2> QED
    BY <2>1, <2>2 DEF K
<1>6. CASE c.op = "clear"
  <2>1. Program(c) = clearAppData(c)
    BY <1>6 DEF Program
  <2>2. clearAppData(c) \in Seq(K)
    BY <1>0, <1>3, <1>4, Zenon DEF clearAppData, clearSteps, When
  <2> QED
    BY <2>1, <2>2 DEF K
<1>7. CASE c.op = "destroy"
  <2>1. Program(c) = destroyAppData(c)
    BY <1>7 DEF Program
  <2>2. destroyAppData(c) \in Seq(K)
    BY <1>0, <1>3, <1>4, Zenon DEF destroyAppData, When
  <2> QED
    BY <2>1, <2>2 DEF K
<1>8. CASE c.op = "profiles"
  <2>1. Program(c) = destroyAppProfiles(c)
    BY <1>8 DEF Program
  <2> DEFINE each == [i \in 1..Len(Users) |-> DeleteIfThere(Cur(Users[i]), "note")]
  <2>2. /\ Len(Users) \in Nat /\ \A i \in 1..Len(Users) : Users[i] \in UserIds
    BY BoundsAssumption
  <2>3. \A i \in 1..Len(Users) : each[i] \in Seq(K)
    BY <1>3, <2>2
  <2>4. Len(each) = Len(Users) /\ DOMAIN each = 1..Len(each) /\ (Len(each) = 0 => each = <<>>)
    BY <2>2
  <2>5. FlattenSeq(each) \in Seq(K)
    <3> HIDE DEF each
    <3> QED
      BY <2>2, <2>3, <2>4, Flattened
  <2>6. destroyAppProfiles(c) = FlattenSeq(each) \o DeleteIfThere(Ref, "note")
    BY DEF destroyAppProfiles, ForAll
  <2>7. DeleteIfThere(Ref, "note") \in Seq(K)
    BY <1>3
  <2> QED
    BY <1>4, <2>1, <2>5, <2>6, <2>7 DEF K
<1>9. CASE c.op = "destroy_user"
  <2>1. Program(c) = destroyUserData(c)
    BY <1>9 DEF Program
  <2>2. destroyUserData(c) \in Seq(K)
    BY <1>0, <1>3, <1>4, Zenon DEF destroyUserData, When
  <2> QED
    BY <2>1, <2>2 DEF K
<1> QED
  BY <1>5, <1>6, <1>7, <1>8, <1>9

(* The two programs of snapshots that are straight lines: forgetting one   *)
(* touches it alone, and so does taking one; the steps come in order and   *)
(* both storages are cleared and copied.                                   *)
LEMMA ProgramOfForget ==
  ASSUME NEW c \in Call, c.op = "forget"
  PROVE  Program(c) \in Seq(StepsOf(c))
<1>1. c.user \in UserIds /\ c.id \in Snapshots
  BY DEF Call
<1>2. ASSUME NEW s \in Storages, s \in c.flags
      PROVE  DeleteIfThere(Snap(s, c.user, c.id), "return") \in Seq(StepsOf(c))
  <2>1. Snap(s, c.user, c.id) \in Dirs /\ Snap(s, c.user, c.id) \in SnapDirs(c)
    BY <1>1, <1>2, AmongDirs DEF SnapDirs
  <2>2. <<>> \in Seq(UndoOf(c)) /\ <<>> \in Seq(Undo)
    BY Nothing
  <2>3. Step("delete_if_there", Snap(s, c.user, c.id), Snap(s, c.user, c.id), "return", <<>>) \in StepsOf(c)
    BY <2>1, <2>2 DEF Step, StepsOf, Steps
  <2> QED
    BY <2>3, Single DEF DeleteIfThere
<1>3. \A s, t \in Seq(StepsOf(c)) : s \o t \in Seq(StepsOf(c))
  BY Joined
<1>4. <<>> \in Seq(StepsOf(c))
  BY Nothing
<1>5. Program(c) = destroyAppDataSnapshot(c)
  BY DEF Program
<1>6. destroyAppDataSnapshot(c) \in Seq(StepsOf(c))
  BY <1>2, <1>3, <1>4, Zenon DEF destroyAppDataSnapshot, When, Storages
<1> QED
  BY <1>5, <1>6

(* The snapshot of one storage: the folder, the clearing and the copy, in  *)
(* this order, each with what is undone when it fails.                     *)
LEMMA SnapshotPart ==
  ASSUME NEW c \in Call, c.op = "snapshot", NEW s \in Storages, s \in c.flags
  PROVE  LET to == Snap(s, c.user, c.id)
             d == Data(s, Internal, c.user)
             p == SnapshotOf(s, c)
             a == Aside(to, "return", Delete(to, "ignore"))
         IN /\ p \in Seq(StepsOf(c)) /\ a \in Seq(StepsOf(c)) /\ Ordered(p)
            /\ ToSet(p) = {Step("aside", to, to, "return", <<>>), Step("clear", to, to, "return", <<>>),
                           Step("copy", to, d, "return", Delete(to, "ignore"))}
            /\ ToSet(a) = {Step("aside", to, to, "return", Delete(to, "ignore"))}
<1> DEFINE K == StepsOf(c)
           to == Snap(s, c.user, c.id)
           d == Data(s, Internal, c.user)
           x == Step("aside", to, to, "return", <<>>)
           y == Step("clear", to, to, "return", <<>>)
           z == Step("copy", to, d, "return", Delete(to, "ignore"))
           w == Step("aside", to, to, "return", Delete(to, "ignore"))
<1>1. to \in Dirs /\ to \in SnapDirs(c) /\ d \in Dirs /\ to[2] = s /\ to[1] = "snapshot"
  BY AmongDirs, Names, BoundsAssumption DEF SnapDirs, Call
<1> HIDE DEF to, d
<1>2. <<>> \in Seq(UndoOf(c)) /\ <<>> \in Seq(Undo)
  BY Nothing
<1>3. Delete(to, "ignore") \in Seq(UndoOf(c)) /\ Delete(to, "ignore") \in Seq(Undo)
  <2>1. Step("delete", to, to, "ignore", <<>>) \in UndoOf(c)
    BY <1>1 DEF UndoOf, Undo, Step
  <2>2. Step("delete", to, to, "ignore", <<>>) \in Undo
    BY <2>1 DEF UndoOf
  <2> QED
    BY <2>1, <2>2, Single DEF Delete
<1>4. x \in K /\ y \in K
  BY <1>1, <1>2 DEF Step, StepsOf, Steps, SnapshotStep
<1>5. z \in K
  BY <1>1, <1>3 DEF Step, StepsOf, Steps, SnapshotStep, d
<1>6. w \in K
  BY <1>1, <1>3 DEF Step, StepsOf, Steps, SnapshotStep
<1>7. InOrder(x, y) /\ InOrder(x, z) /\ InOrder(y, z)
  BY DEF InOrder, Step
<1> HIDE DEF K, x, y, z, w
<1>8. /\ <<x>> \in Seq(K) /\ <<y>> \in Seq(K) /\ <<z>> \in Seq(K) /\ <<w>> \in Seq(K)
      /\ ToSet(<<x>>) = {x} /\ ToSet(<<y>>) = {y} /\ ToSet(<<z>>) = {z} /\ ToSet(<<w>>) = {w}
      /\ Ordered(<<x>>) /\ Ordered(<<y>>) /\ Ordered(<<z>>)
  BY <1>4, <1>5, <1>6, Single
<1>9. /\ <<x>> \o <<y>> \in Seq(K) /\ ToSet(<<x>> \o <<y>>) = {x, y}
  <2> DEFINE e == <<x>>
             f == <<y>>
  <2> HIDE DEF e, f
  <2>1. e \in Seq(K) /\ f \in Seq(K) /\ ToSet(e) = {x} /\ ToSet(f) = {y}
    BY <1>8 DEF e, f
  <2>2. e \o f \in Seq(K) /\ ToSet(e \o f) = ToSet(e) \cup ToSet(f)
    BY <2>1, Joined
  <2> QED
    BY <2>1, <2>2 DEF e, f
<1>10. Ordered(<<x>> \o <<y>>)
  BY <1>7, <1>8, OrderedJoin
<1>11. /\ (<<x>> \o <<y>>) \o <<z>> \in Seq(K) /\ ToSet((<<x>> \o <<y>>) \o <<z>>) = {x, y, z}
  <2> DEFINE e == <<x>> \o <<y>>
             f == <<z>>
  <2> HIDE DEF e, f
  <2>1. e \in Seq(K) /\ f \in Seq(K) /\ ToSet(e) = {x, y} /\ ToSet(f) = {z}
    BY <1>8, <1>9 DEF e, f
  <2>2. e \o f \in Seq(K) /\ ToSet(e \o f) = ToSet(e) \cup ToSet(f)
    BY <2>1, Joined
  <2> QED
    BY <2>1, <2>2 DEF e, f
<1>12. Ordered((<<x>> \o <<y>>) \o <<z>>)
  <2>1. \A p \in Seq(K) : Ordered(p) /\ (\A q \in ToSet(p) : InOrder(q, z)) => Ordered(p \o <<z>>)
    BY <1>8, OrderedJoin
  <2> QED
    BY <1>7, <1>9, <1>10, <2>1
<1>13. /\ SnapshotOf(s, c) = (<<x>> \o <<y>>) \o <<z>>
       /\ Aside(to, "return", Delete(to, "ignore")) = <<w>>
  BY DEF SnapshotOf, Aside, Clear, Copy, x, y, z, w, to, d
<1> QED
  BY <1>8, <1>11, <1>12, <1>13 DEF K, x, y, z, w, to, d

(* The program of a snapshot clears and copies every storage asked for, if *)
(* the app has any data.                                                   *)
LEMMA ProgramOfSnapshot ==
  ASSUME NEW c \in Call, c.op = "snapshot"
  PROVE  /\ Program(c) \in Seq(StepsOf(c)) /\ Ordered(Program(c))
         /\ Exists(Data("ce", Internal, c.user)) =>
              \A s \in c.flags \cap Storages, op \in {"clear", "copy"} :
                \E x \in ToSet(Program(c)) : x.op = op /\ x.at = Snap(s, c.user, c.id)
<1> DEFINE K == StepsOf(c)
           to(s) == Snap(s, c.user, c.id)
           a == Aside(to("ce"), "return", Delete(to("ce"), "ignore"))
           p == When("de" \in c.flags, SnapshotOf("de", c))
           q == When("ce" \in c.flags, SnapshotOf("ce", c) \o a)
<1>1. Program(c) = When(Exists(Data("ce", Internal, c.user)), p \o q)
  BY DEF Program, snapshotAppData
<1>2. /\ p \in Seq(K) /\ Ordered(p) /\ \A x \in ToSet(p) : x.at = to("de") /\ x.op # "check" /\ x.op # "rename"
      /\ "de" \in c.flags => \A op \in {"clear", "copy"} : \E x \in ToSet(p) : x.op = op /\ x.at = to("de")
  <2>1. CASE "de" \in c.flags
    <3>1. p = SnapshotOf("de", c)
      BY <2>1 DEF When
    <3>2. /\ p \in Seq(K) /\ Ordered(p)
          /\ ToSet(p) = {Step("aside", to("de"), to("de"), "return", <<>>),
                         Step("clear", to("de"), to("de"), "return", <<>>),
                         Step("copy", to("de"), Data("de", Internal, c.user), "return",
                              Delete(to("de"), "ignore"))}
      BY <2>1, <3>1, SnapshotPart, Zenon DEF Storages
    <3> HIDE DEF p, to
    <3> QED
      BY <3>2 DEF Step
  <2>2. CASE "de" \notin c.flags
    <3>1. p = <<>>
      BY <2>2 DEF When
    <3> QED
      BY <2>2, <3>1, Nothing
  <2> QED
    BY <2>1, <2>2
<1>3. /\ q \in Seq(K) /\ Ordered(q) /\ \A x \in ToSet(q) : x.at = to("ce") /\ x.op # "check" /\ x.op # "rename"
      /\ "ce" \in c.flags => \A op \in {"clear", "copy"} : \E x \in ToSet(q) : x.op = op /\ x.at = to("ce")
  <2>1. CASE "ce" \in c.flags
    <3> DEFINE r == SnapshotOf("ce", c)
    <3>1. q = r \o a
      BY <2>1 DEF When
    <3>2. /\ r \in Seq(K) /\ Ordered(r) /\ \A x \in ToSet(r) : x.at = to("ce") /\ x.op # "check" /\ x.op # "rename"
          /\ \A op \in {"clear", "copy"} : \E x \in ToSet(r) : x.op = op /\ x.at = to("ce")
      <4>1. /\ r \in Seq(K) /\ Ordered(r)
            /\ ToSet(r) = {Step("aside", to("ce"), to("ce"), "return", <<>>),
                           Step("clear", to("ce"), to("ce"), "return", <<>>),
                           Step("copy", to("ce"), Data("ce", Internal, c.user), "return",
                                Delete(to("ce"), "ignore"))}
        BY <2>1, SnapshotPart, Zenon DEF Storages
      <4> HIDE DEF r, to
      <4> QED
        BY <4>1 DEF Step
    <3>3. a \in Seq(K) /\ \A x \in ToSet(a) : x.at = to("ce") /\ x.op = "aside"
      BY <2>1, SnapshotPart DEF Storages, Step
    <3>4. Ordered(a)
      BY <3>3, Single, SnapshotPart, <2>1 DEF Aside, Storages
    <3>5. \A x \in ToSet(r), y \in ToSet(a) : InOrder(x, y)
      BY <3>2, <3>3 DEF InOrder
    <3> HIDE DEF q, r, a
    <3>6. r \o a \in Seq(K) /\ ToSet(r \o a) = ToSet(r) \cup ToSet(a)
      BY <3>2, <3>3, Joined
    <3>7. Ordered(r \o a)
      BY <3>2, <3>3, <3>4, <3>5, OrderedJoin
    <3> QED
      BY <3>1, <3>2, <3>3, <3>6, <3>7
  <2>2. CASE "ce" \notin c.flags
    <3>1. q = <<>>
      BY <2>2 DEF When
    <3> QED
      BY <2>2, <3>1, Nothing
  <2> QED
    BY <2>1, <2>2
<1> HIDE DEF p, q, K
<1>4. \A x \in ToSet(p), y \in ToSet(q) : InOrder(x, y)
  BY <1>2, <1>3, Names DEF InOrder, to
<1>5. p \o q \in Seq(K) /\ ToSet(p \o q) = ToSet(p) \cup ToSet(q)
  BY <1>2, <1>3, Joined
<1>6. Ordered(p \o q)
  BY <1>2, <1>3, <1>4, OrderedJoin
<1>7. CASE Exists(Data("ce", Internal, c.user))
  <2>1. Program(c) = p \o q
    BY <1>1, <1>7 DEF When
  <2>2. \A s \in c.flags \cap Storages, op \in {"clear", "copy"} :
          \E x \in ToSet(p \o q) : x.op = op /\ x.at = to(s)
    BY <1>2, <1>3, <1>5 DEF Storages
  <2> QED
    BY <1>5, <1>6, <2>1, <2>2 DEF K
<1>8. CASE ~Exists(Data("ce", Internal, c.user))
  <2>1. Program(c) = <<>>
    BY <1>1, <1>8 DEF When
  <2> QED
    BY <1>8, <2>1, Nothing
<1> QED
  BY <1>7, <1>8

(* Steps that can come in any order.                                       *)
LEMMA OrderedPlain ==
  ASSUME NEW K, NEW s \in Seq(K), \A x \in ToSet(s) : x.op \notin {"copy", "check", "rename"}
  PROVE  Ordered(s)
BY DEF Ordered, InOrder, ToSet

(* One step, or none.                                                      *)
LEMMA OneStep ==
  ASSUME NEW K, NEW b, NEW op, NEW at, NEW from, NEW fail, NEW undo,
         b => <<Step(op, at, from, fail, undo)>> \in Seq(K)
  PROVE  LET w == When(b, <<Step(op, at, from, fail, undo)>>) IN
           /\ w \in Seq(K) /\ Ordered(w) /\ \A x \in ToSet(w) : x.op = op /\ x.at = at
           /\ b => \E x \in ToSet(w) : x.op = op /\ x.at = at
<1> DEFINE z == Step(op, at, from, fail, undo)
<1>1. z.op = op /\ z.at = at
  BY DEF Step
<1> HIDE DEF z
<1>2. CASE b
  <2>1. When(b, <<z>>) = <<z>>
    BY <1>2 DEF When
  <2>2. ToSet(<<z>>) = {z} /\ Ordered(<<z>>)
    BY Single
  <2> QED
    BY <1>1, <1>2, <2>1, <2>2 DEF z
<1>3. CASE ~b
  <2>1. When(b, <<z>>) = <<>>
    BY <1>3 DEF When
  <2> QED
    BY <1>3, <2>1, Nothing DEF z
<1> QED
  BY <1>2, <1>3

(* A restore clears, checks, copies back and labels, in this order.        *)
LEMMA RestoreSteps ==
  ASSUME NEW c \in Call, c.op = "restore"
  PROVE  /\ \A s \in Storages : Clear(Data(s, Internal, c.user), "note") \in Seq(StepsOf(c))
         /\ Clear(Ext(c.user), "note") \in Seq(StepsOf(c))
         /\ ReturnIfError \in Seq(StepsOf(c)) /\ Aside(Ref, "note", <<>>) \in Seq(StepsOf(c))
         /\ \A s \in Storages, undo \in {<<>>, Delete(Data("ce", Internal, c.user), "ignore")} :
              Copy(Snap(s, c.user, c.id), Data(s, Internal, c.user), undo) \in Seq(StepsOf(c))
<1>1. c.user \in UserIds /\ c.id \in Snapshots /\ Internal \in Volumes
  BY BoundsAssumption DEF Call
<1>2. <<>> \in Seq(UndoOf(c)) /\ <<>> \in Seq(Undo)
  BY Nothing
<1>3. ASSUME NEW s \in Storages
      PROVE  /\ Data(s, Internal, c.user) \in Dirs /\ Snap(s, c.user, c.id) \in Dirs
             /\ Data(s, Internal, c.user)[1] # "snapshot"
  BY <1>1, AmongDirs, Names DEF Storages
<1>4. Ext(c.user) \in Dirs /\ Ext(c.user)[1] # "snapshot" /\ Ref \in Dirs /\ Ref[1] # "snapshot"
  BY <1>1, AmongDirs, Names
<1>5. ASSUME NEW d \in Dirs, d[1] # "snapshot", NEW op \in {"clear", "check", "aside"},
             NEW fail \in {"note", "ignore"}, fail = "ignore" => op = "check"
      PROVE  <<Step(op, d, d, fail, <<>>)>> \in Seq(StepsOf(c))
  <2>1. Step(op, d, d, fail, <<>>) \in StepsOf(c)
    BY <1>2, <1>5 DEF Step, StepsOf, Steps, RestoreStep
  <2> QED
    BY <2>1, Single
<1>6. ASSUME NEW undo \in {<<>>, Delete(Data("ce", Internal, c.user), "ignore")}
      PROVE  undo \in Seq(UndoOf(c)) /\ undo \in Seq(Undo)
  <2> DEFINE d == Data("ce", Internal, c.user)
  <2>1. d \in Dirs /\ d[1] # "snapshot"
    BY <1>3 DEF Storages
  <2>2. Step("delete", d, d, "ignore", <<>>) \in UndoOf(c) /\ Step("delete", d, d, "ignore", <<>>) \in Undo
    <3> HIDE DEF d
    <3> QED
      BY <2>1 DEF UndoOf, Undo, Step
  <2>3. Delete(d, "ignore") \in Seq(UndoOf(c)) /\ Delete(d, "ignore") \in Seq(Undo)
    BY <2>2, Single DEF Delete
  <2> QED
    BY <1>2, <2>3
<1>7. ASSUME NEW s \in Storages, NEW undo \in {<<>>, Delete(Data("ce", Internal, c.user), "ignore")}
      PROVE  Copy(Snap(s, c.user, c.id), Data(s, Internal, c.user), undo) \in Seq(StepsOf(c))
  <2>1. Step("copy", Data(s, Internal, c.user), Snap(s, c.user, c.id), "return", undo) \in StepsOf(c)
    BY <1>3, <1>6 DEF Step, StepsOf, Steps, RestoreStep
  <2> QED
    BY <2>1, Single DEF Copy
<1> QED
  BY <1>3, <1>4, <1>5, <1>7, Zenon DEF Clear, ReturnIfError, Aside

(* The program of a restore: empty if there is no snapshot; else all that  *)
(* was asked for is cleared, the errors are looked at, and what has a      *)
(* snapshot is copied.                                                     *)
LEMMA ProgramOfRestore ==
  ASSUME NEW c \in Call, c.op = "restore"
  PROVE  /\ Program(c) \in Seq(StepsOf(c)) /\ Ordered(Program(c))
         /\ (\A s \in Storages : ~NeedsRollback(s, c)) => Program(c) = <<>>
         /\ (\E s \in Storages : NeedsRollback(s, c)) =>
              /\ \E x \in ToSet(Program(c)) : x.op = "check"
              /\ \A s \in c.flags \cap Storages : \E x \in ToSet(Program(c)) :
                   x.op = "clear" /\ x.at = Data(s, Internal, c.user)
              /\ \A s \in Storages : NeedsRollback(s, c) => \E x \in ToSet(Program(c)) :
                   x.op = "copy" /\ x.at = Data(s, Internal, c.user)
<1> DEFINE K == StepsOf(c)
           D(s) == Data(s, Internal, c.user)
           ce == NeedsRollback("ce", c)
           de == NeedsRollback("de", c)
           Back(s, undo) == Copy(Snap(s, c.user, c.id), D(s), undo)
           a1 == When("ce" \in c.flags, Clear(D("ce"), "note"))
           a2 == When("de" \in c.flags, Clear(D("de"), "note"))
           a3 == When("ext" \in c.flags, Clear(Ext(c.user), "note"))
           b == ReturnIfError
           e1 == When(ce, Back("ce", <<>>))
           e2 == When(de, Back("de", When(ce, Delete(D("ce"), "ignore"))))
           g == Aside(Ref, "note", <<>>)
<1>1. Program(c) = When(ce \/ de, ((((((a1 \o a2) \o a3) \o b) \o e1) \o e2) \o g))
  BY DEF Program, restoreAppDataSnapshot, clearSteps
<1>2. /\ a1 \in Seq(K) /\ \A x \in ToSet(a1) : x.op = "clear"
      /\ "ce" \in c.flags => \E x \in ToSet(a1) : x.op = "clear" /\ x.at = D("ce")
  <2>1. <<Step("clear", D("ce"), D("ce"), "note", <<>>)>> \in Seq(K)
    BY RestoreSteps DEF Clear, Storages
  <2>2. a1 = When("ce" \in c.flags, <<Step("clear", D("ce"), D("ce"), "note", <<>>)>>)
    BY DEF Clear
  <2> DEFINE b1 == "ce" \in c.flags
  <2> HIDE DEF D, K, b1
  <2>3. LET w == When(b1, <<Step("clear", D("ce"), D("ce"), "note", <<>>)>>) IN
          /\ w \in Seq(K) /\ Ordered(w) /\ \A x \in ToSet(w) : x.op = "clear" /\ x.at = D("ce")
          /\ b1 => \E x \in ToSet(w) : x.op = "clear" /\ x.at = D("ce")
    BY <2>1, OneStep
  <2> HIDE DEF a1
  <2> QED
    BY <2>2, <2>3 DEF b1
<1>3. /\ a2 \in Seq(K) /\ \A x \in ToSet(a2) : x.op = "clear"
      /\ "de" \in c.flags => \E x \in ToSet(a2) : x.op = "clear" /\ x.at = D("de")
  <2>1. <<Step("clear", D("de"), D("de"), "note", <<>>)>> \in Seq(K)
    BY RestoreSteps DEF Clear, Storages
  <2>2. a2 = When("de" \in c.flags, <<Step("clear", D("de"), D("de"), "note", <<>>)>>)
    BY DEF Clear
  <2> DEFINE b1 == "de" \in c.flags
  <2> HIDE DEF D, K, b1
  <2>3. LET w == When(b1, <<Step("clear", D("de"), D("de"), "note", <<>>)>>) IN
          /\ w \in Seq(K) /\ Ordered(w) /\ \A x \in ToSet(w) : x.op = "clear" /\ x.at = D("de")
          /\ b1 => \E x \in ToSet(w) : x.op = "clear" /\ x.at = D("de")
    BY <2>1, OneStep
  <2> HIDE DEF a2
  <2> QED
    BY <2>2, <2>3 DEF b1
<1>4. a3 \in Seq(K) /\ \A x \in ToSet(a3) : x.op = "clear"
  BY RestoreSteps, OneStep DEF Clear, Storages
<1>5. b \in Seq(K) /\ Ordered(b) /\ (\A x \in ToSet(b) : x.op = "check") /\ \E x \in ToSet(b) : x.op = "check"
  BY RestoreSteps, Single DEF ReturnIfError, Step
<1>6. /\ e1 \in Seq(K) /\ Ordered(e1) /\ \A x \in ToSet(e1) : x.op = "copy"
      /\ ce => \E x \in ToSet(e1) : x.op = "copy" /\ x.at = D("ce")
  <2>1. <<Step("copy", D("ce"), Snap("ce", c.user, c.id), "return", <<>>)>> \in Seq(K)
    BY RestoreSteps DEF Copy, Storages
  <2> HIDE DEF D, K, ce
  <2> QED
    BY <2>1, OneStep DEF Copy
<1>7. /\ e2 \in Seq(K) /\ Ordered(e2) /\ \A x \in ToSet(e2) : x.op = "copy"
      /\ de => \E x \in ToSet(e2) : x.op = "copy" /\ x.at = D("de")
  <2>1. When(ce, Delete(D("ce"), "ignore")) \in {<<>>, Delete(D("ce"), "ignore")}
    BY DEF When
  <2> DEFINE undo == When(ce, Delete(D("ce"), "ignore"))
  <2>2. <<Step("copy", D("de"), Snap("de", c.user, c.id), "return", undo)>> \in Seq(K)
    BY <2>1, RestoreSteps DEF Copy, Storages
  <2>3. e2 = When(de, <<Step("copy", D("de"), Snap("de", c.user, c.id), "return", undo)>>)
    BY DEF Copy
  <2> HIDE DEF D, K, de, undo, e2
  <2> QED
    BY <2>2, <2>3, OneStep
<1>8. g \in Seq(K) /\ Ordered(g) /\ \A x \in ToSet(g) : x.op = "aside"
  BY RestoreSteps, Single DEF Aside, Step
<1> HIDE DEF K, D, a1, a2, a3, b, e1, e2, g, ce, de
<1> DEFINE p1 == (a1 \o a2) \o a3
           p2 == p1 \o b
           p3 == (p2 \o e1) \o e2
           p4 == p3 \o g
<1>9. /\ a1 \o a2 \in Seq(K) /\ p1 \in Seq(K) /\ ToSet(p1) = (ToSet(a1) \cup ToSet(a2)) \cup ToSet(a3)
      /\ Ordered(p1)
  <2>1. a1 \o a2 \in Seq(K) /\ ToSet(a1 \o a2) = ToSet(a1) \cup ToSet(a2)
    BY <1>2, <1>3, Joined
  <2>2. p1 \in Seq(K) /\ ToSet(p1) = ToSet(a1 \o a2) \cup ToSet(a3)
    <3>1. \A p \in Seq(K) : p \o a3 \in Seq(K) /\ ToSet(p \o a3) = ToSet(p) \cup ToSet(a3)
      BY <1>4, Joined
    <3> QED
      BY <2>1, <3>1, Zenon
  <2>3. \A x \in ToSet(p1) : x.op = "clear"
    BY <1>2, <1>3, <1>4, <2>1, <2>2
  <2> HIDE DEF p1
  <2>4. Ordered(p1)
    BY <2>2, <2>3, OrderedPlain
  <2> QED
    BY <2>1, <2>2, <2>4
<1>10. \A x \in ToSet(p1) : x.op = "clear"
  BY <1>2, <1>3, <1>4, <1>9
<1> HIDE DEF p1
<1>11. p2 \in Seq(K) /\ ToSet(p2) = ToSet(p1) \cup ToSet(b) /\ Ordered(p2)
  <2>1. p2 \in Seq(K) /\ ToSet(p2) = ToSet(p1) \cup ToSet(b)
    BY <1>5, <1>9, Joined
  <2>2. \A x \in ToSet(p1), y \in ToSet(b) : InOrder(x, y)
    BY <1>5, <1>10 DEF InOrder
  <2>3. Ordered(p2)
    BY <1>5, <1>9, <2>2, OrderedJoin
  <2> QED
    BY <2>1, <2>3
<1> HIDE DEF p2
<1>12. p3 \in Seq(K) /\ ToSet(p3) = (ToSet(p2) \cup ToSet(e1)) \cup ToSet(e2) /\ Ordered(p3)
  <2>1. p2 \o e1 \in Seq(K) /\ ToSet(p2 \o e1) = ToSet(p2) \cup ToSet(e1)
    BY <1>6, <1>11, Joined
  <2>2. p3 \in Seq(K) /\ ToSet(p3) = ToSet(p2 \o e1) \cup ToSet(e2)
    <3>1. \A p \in Seq(K) : p \o e2 \in Seq(K) /\ ToSet(p \o e2) = ToSet(p) \cup ToSet(e2)
      BY <1>7, Joined
    <3> QED
      BY <2>1, <3>1, Zenon
  <2>3. \A x \in ToSet(p2), y \in ToSet(e1) : InOrder(x, y)
    BY <1>5, <1>6, <1>10, <1>11 DEF InOrder
  <2>4. Ordered(p2 \o e1)
    BY <1>6, <1>11, <2>3, OrderedJoin
  <2>5. \A x \in ToSet(p2 \o e1), y \in ToSet(e2) : InOrder(x, y)
    BY <1>5, <1>6, <1>7, <1>10, <1>11, <2>1 DEF InOrder
  <2>6. Ordered(p3)
    BY <1>7, <2>1, <2>4, <2>5, OrderedJoin
  <2> QED
    BY <2>1, <2>2, <2>6
<1> HIDE DEF p3
<1>13. p4 \in Seq(K) /\ ToSet(p4) = ToSet(p3) \cup ToSet(g) /\ Ordered(p4)
  <2>1. p4 \in Seq(K) /\ ToSet(p4) = ToSet(p3) \cup ToSet(g)
    BY <1>8, <1>12, Joined
  <2>2. \A x \in ToSet(p3), y \in ToSet(g) : InOrder(x, y)
    BY <1>5, <1>6, <1>7, <1>8, <1>10, <1>11, <1>12 DEF InOrder
  <2>3. Ordered(p4)
    BY <1>8, <1>12, <2>2, OrderedJoin
  <2> QED
    BY <2>1, <2>3
<1>14. Program(c) = When(ce \/ de, p4)
  BY <1>1 DEF p1, p2, p3
<1> HIDE DEF p4
<1>15. CASE ce \/ de
  <2>1. Program(c) = p4
    BY <1>14, <1>15 DEF When
  <2>2. \E x \in ToSet(p4) : x.op = "check"
    BY <1>5, <1>11, <1>12, <1>13
  <2>3. \A s \in c.flags \cap Storages : \E x \in ToSet(p4) : x.op = "clear" /\ x.at = D(s)
    BY <1>2, <1>3, <1>9, <1>11, <1>12, <1>13 DEF Storages
  <2>4. \A s \in Storages : NeedsRollback(s, c) => \E x \in ToSet(p4) : x.op = "copy" /\ x.at = D(s)
    BY <1>6, <1>7, <1>12, <1>13 DEF Storages, ce, de
  <2>5. ~ \A s \in Storages : ~NeedsRollback(s, c)
    BY <1>15 DEF Storages, ce, de
  <2> QED
    BY <1>13, <2>1, <2>2, <2>3, <2>4, <2>5 DEF K, D
<1>16. CASE ~(ce \/ de)
  <2>1. Program(c) = <<>>
    BY <1>14, <1>16 DEF When
  <2>2. ~ \E s \in Storages : NeedsRollback(s, c)
    BY <1>16 DEF Storages, ce, de
  <2> QED
    BY <2>1, <2>2, Nothing
<1> QED
  BY <1>15, <1>16

(* A migration marks CE if nothing is marked, and moves the default        *)
(* storage if it is not the one that was asked for.                        *)
LEMMA ProgramOfMigrate ==
  ASSUME NEW c \in Call, c.op = "migrate"
  PROVE  LET D(s) == Data(s, c.vol, c.user)
             P == ToSet(Program(c))
         IN /\ Program(c) \in Seq(StepsOf(c)) /\ Ordered(Program(c))
            /\ (\E x \in P : x.op = "mark") => default \cap {D("ce"), D("de")} = {}
            /\ Target(c) \notin Default(c.vol, c.user) => \E x \in P : x.op = "rename"
            /\ Target(c) \in Default(c.vol, c.user) => \A x \in P : x.op = "mark"
<1> DEFINE K == StepsOf(c)
           D(s) == Data(s, c.vol, c.user)
           b1 == default \cap {D("ce"), D("de")} = {}
           b2 == Target(c) \notin Default(c.vol, c.user)
           x1 == Step("mark", D("ce"), D("ce"), "return", <<>>)
           x2 == Step("delete", D(Target(c)), D(Target(c)), "return", <<>>)
           x3 == Step("rename", D(Target(c)), D(Source(c)), "return", <<>>)
           p == When(b1, <<x1>>)
           q == When(b2, <<x2>> \o <<x3>>)
<1>1. Program(c) = p \o q
  BY DEF Program, migrateAppData, Delete
<1>2. x1 \in K /\ x2 \in K /\ x3 \in K
  <2>1. <<>> \in Seq(UndoOf(c)) /\ <<>> \in Seq(Undo)
    BY Nothing
  <2>2. /\ D("ce") \in Dirs /\ D(Target(c)) \in Dirs /\ D(Source(c)) \in Dirs
        /\ D("ce")[1] # "snapshot" /\ D(Target(c))[1] # "snapshot"
    BY AmongDirs, Names DEF Call, Storages, Target, Source
  <2> HIDE DEF D
  <2> QED
    BY <2>1, <2>2 DEF Step, StepsOf, Steps, MigrateStep, D
<1>3. x1.op = "mark" /\ x2.op = "delete" /\ x3.op = "rename"
  BY DEF Step
<1>4. p \in Seq(K) /\ Ordered(p) /\ (\A x \in ToSet(p) : x.op = "mark") /\ (ToSet(p) # {} => b1)
  <2> HIDE DEF K, x1, b1
  <2>1. <<x1>> \in Seq(K) /\ ToSet(<<x1>>) = {x1} /\ Ordered(<<x1>>)
    BY <1>2, Single
  <2>2. <<>> \in Seq(K) /\ ToSet(<<>>) = {} /\ Ordered(<<>>)
    BY Nothing
  <2> QED
    BY <1>3, <2>1, <2>2, Zenon DEF When
<1>5. <<x2>> \o <<x3>> \in Seq(K) /\ Ordered(<<x2>> \o <<x3>>) /\ ToSet(<<x2>> \o <<x3>>) = {x2, x3}
  <2> DEFINE e == <<x2>>
             f == <<x3>>
  <2> HIDE DEF x2, x3, K
  <2>1. /\ e \in Seq(K) /\ f \in Seq(K) /\ ToSet(e) = {x2} /\ ToSet(f) = {x3}
        /\ Ordered(e) /\ Ordered(f)
    BY <1>2, Single
  <2>2. \A x \in ToSet(e), y \in ToSet(f) : InOrder(x, y)
    BY <1>3, <2>1 DEF InOrder
  <2> HIDE DEF e, f
  <2>3. e \o f \in Seq(K) /\ ToSet(e \o f) = ToSet(e) \cup ToSet(f) /\ Ordered(e \o f)
    BY <2>1, <2>2, Joined, OrderedJoin
  <2> QED
    BY <2>1, <2>3 DEF e, f
<1>6. /\ q \in Seq(K) /\ Ordered(q) /\ (\A x \in ToSet(q) : x.op # "mark")
      /\ (b2 => \E x \in ToSet(q) : x.op = "rename") /\ (~b2 => ToSet(q) = {})
  <2> DEFINE e == <<x2>> \o <<x3>>
  <2>1. e \in Seq(K) /\ Ordered(e) /\ ToSet(e) = {x2, x3}
    BY <1>5
  <2> HIDE DEF K, e, x2, x3, b2
  <2>2. <<>> \in Seq(K) /\ ToSet(<<>>) = {} /\ Ordered(<<>>)
    BY Nothing
  <2>3. q = IF b2 THEN e ELSE <<>>
    BY DEF When, e
  <2> HIDE DEF q
  <2> QED
    BY <1>3, <2>1, <2>2, <2>3
<1> HIDE DEF p, q, K, b1, b2
<1>7. p \o q \in Seq(K) /\ ToSet(p \o q) = ToSet(p) \cup ToSet(q)
  BY <1>4, <1>6, Joined
<1>8. Ordered(p \o q)
  <2>1. \A x \in ToSet(p), y \in ToSet(q) : InOrder(x, y)
    BY <1>4 DEF InOrder
  <2> QED
    BY <1>4, <1>6, <2>1, OrderedJoin
<1>9. (\E x \in ToSet(p \o q) : x.op = "mark") => b1
  BY <1>4, <1>6, <1>7
<1>10. b2 => \E x \in ToSet(p \o q) : x.op = "rename"
  BY <1>6, <1>7
<1>11. ~b2 => \A x \in ToSet(p \o q) : x.op = "mark"
  BY <1>4, <1>6, <1>7
<1> QED
  BY <1>1, <1>7, <1>8, <1>9, <1>10, <1>11 DEF K, b1, b2, D

(* A failed move deletes every directory at the new place.                 *)
LEMMA NukeAll ==
  ASSUME NEW c \in Call, c.op = "move"
  PROVE  /\ Nuke(c) \in Seq(UndoOf(c)) /\ Nuke(c) \in Seq(Undo)
         /\ \A d \in NewDirs(c) : \E y \in ToSet(Nuke(c)) : y.at = d
<1> DEFINE K == UndoOf(c)
           Of(u) == Delete(Data("de", c.to, u), "ignore") \o Delete(Data("ce", c.to, u), "ignore")
           each == [i \in 1..Len(Users) |-> Of(Users[i])]
           first == Delete(App(c.to), "ignore")
<1>1. c.to \in Volumes
  BY DEF Call
<1>2. ASSUME NEW d \in Dirs, d[1] # "snapshot"
      PROVE  /\ Delete(d, "ignore") \in Seq(K)
             /\ \E y \in ToSet(Delete(d, "ignore")) : y.at = d
  <2>1. Step("delete", d, d, "ignore", <<>>) \in K
    BY <1>2 DEF UndoOf, Undo, Step
  <2>2. Step("delete", d, d, "ignore", <<>>).at = d
    BY DEF Step
  <2>3. Delete(d, "ignore") \in Seq(K) /\ ToSet(Delete(d, "ignore")) = {Step("delete", d, d, "ignore", <<>>)}
    BY <2>1, Single DEF Delete
  <2> QED
    BY <2>2, <2>3
<1>3. first \in Seq(K) /\ \E y \in ToSet(first) : y.at = App(c.to)
  BY <1>1, <1>2, AmongDirs, Names
<1>4. ASSUME NEW u \in UserIds
      PROVE  /\ Of(u) \in Seq(K)
             /\ \A s \in Storages : \E y \in ToSet(Of(u)) : y.at = Data(s, c.to, u)
  <2> DEFINE p == Delete(Data("de", c.to, u), "ignore")
             q == Delete(Data("ce", c.to, u), "ignore")
  <2>1. p \in Seq(K) /\ \E y \in ToSet(p) : y.at = Data("de", c.to, u)
    BY <1>1, <1>2, AmongDirs, Names DEF Storages
  <2>2. q \in Seq(K) /\ \E y \in ToSet(q) : y.at = Data("ce", c.to, u)
    BY <1>1, <1>2, AmongDirs, Names DEF Storages
  <2>3. Of(u) = p \o q
    OBVIOUS
  <2> HIDE DEF p, q, K, Of
  <2>4. p \o q \in Seq(K) /\ ToSet(p \o q) = ToSet(p) \cup ToSet(q)
    BY <2>1, <2>2, Joined
  <2> QED
    BY <2>1, <2>2, <2>3, <2>4 DEF Storages
<1> HIDE DEF Of, K, first
<1>5. Len(Users) \in Nat /\ \A i \in 1..Len(Users) : Users[i] \in UserIds
  BY BoundsAssumption
<1>6. /\ \A i \in 1..Len(Users) : each[i] \in Seq(K) /\ each[i] = Of(Users[i])
      /\ Len(each) = Len(Users) /\ DOMAIN each = 1..Len(each) /\ (Len(each) = 0 => each = <<>>)
  BY <1>4, <1>5
<1>7. Nuke(c) = first \o FlattenSeq(each)
  BY DEF Nuke, ForAll, Of, first
<1> HIDE DEF each
<1>8. FlattenSeq(each) \in Seq(K) /\ ToSet(FlattenSeq(each)) = Upto(each, Len(each))
  BY <1>5, <1>6, Flattened
<1>9. first \o FlattenSeq(each) \in Seq(K)
      /\ ToSet(first \o FlattenSeq(each)) = ToSet(first) \cup ToSet(FlattenSeq(each))
  BY <1>3, <1>8, Joined
<1>10. ASSUME NEW s \in Storages, NEW u \in UserIds
       PROVE  \E y \in ToSet(Nuke(c)) : y.at = Data(s, c.to, u)
  <2>1. PICK i \in 1..Len(Users) : u = Users[i]
    BY <1>5, BoundsAssumption DEF UserIds
  <2>2. PICK y \in ToSet(each[i]) : y.at = Data(s, c.to, u)
    BY <1>4, <1>6, <2>1
  <2>3. y \in Upto(each, Len(each))
    BY <1>6, <2>1, <2>2 DEF Upto
  <2> QED
    BY <1>7, <1>8, <1>9, <2>2, <2>3
<1>11. \A d \in NewDirs(c) : \E y \in ToSet(Nuke(c)) : y.at = d
  BY <1>3, <1>7, <1>9, <1>10 DEF NewDirs
<1>12. K \subseteq Undo
  BY DEF K, UndoOf
<1>13. Nuke(c) \in Seq(Undo)
  BY <1>7, <1>9, <1>12, Wider
<1> QED
  BY <1>7, <1>9, <1>11, <1>13 DEF K

(* A move copies the app, and both storages of every user that has data.   *)
LEMMA ProgramOfMove ==
  ASSUME NEW c \in Call, c.op = "move"
  PROVE  /\ Program(c) \in Seq(StepsOf(c))
         /\ \E x \in ToSet(Program(c)) : x.op = "copy" /\ x.at = App(c.to)
         /\ \A s \in Storages, u \in UserIds : Exists(Data("ce", c.vol, u)) =>
              \E x \in ToSet(Program(c)) : x.op = "copy" /\ x.at = Data(s, c.to, u)
<1> DEFINE K == StepsOf(c)
           each == [i \in 1..Len(Users) |-> MoveUser(c, Users[i])]
           first == Copy(App(c.vol), App(c.to), Nuke(c))
           second == Aside(App(c.to), "return", Nuke(c))
           start == first \o second
<1>0. c.to \in Volumes /\ c.vol \in Volumes
  BY DEF Call
<1>1. ASSUME NEW op \in {"prepare", "aside", "copy"}, NEW d \in Dirs, d[1] # "snapshot", NEW e \in Dirs,
             d \in NewDirs(c) \cup {Ref} \cup {Cur(u) : u \in UserIds},
             op = "copy" => \/ d = App(c.to) /\ e = App(c.vol)
                            \/ \E s \in Storages, u \in UserIds :
                                 d = Data(s, c.to, u) /\ e = Data(s, c.vol, u)
      PROVE  /\ <<Step(op, d, e, "return", Nuke(c))>> \in Seq(K)
             /\ \E x \in ToSet(<<Step(op, d, e, "return", Nuke(c))>>) : x.op = op /\ x.at = d
  <2>1. Step(op, d, e, "return", Nuke(c)) \in Steps
    BY NukeAll DEF Steps, Step
  <2>2. MoveStep(c, Step(op, d, e, "return", Nuke(c)))
    BY <1>1, NukeAll DEF MoveStep, Step
  <2>3. Step(op, d, e, "return", Nuke(c)) \in K
    BY <1>1, <2>1, <2>2, NukeAll DEF StepsOf, Step
  <2>4. Step(op, d, e, "return", Nuke(c)).op = op /\ Step(op, d, e, "return", Nuke(c)).at = d
    BY DEF Step
  <2> QED
    BY <2>3, <2>4, Single
<1>2. first \in Seq(K) /\ \E x \in ToSet(first) : x.op = "copy" /\ x.at = App(c.to)
  BY <1>0, <1>1, AmongDirs, Names DEF Copy, NewDirs
<1>3. second \in Seq(K)
  <2>1. App(c.to) \in Dirs /\ App(c.to)[1] # "snapshot" /\ App(c.to) \in NewDirs(c)
    BY <1>0, AmongDirs, Names DEF NewDirs
  <2>2. <<Step("aside", App(c.to), App(c.to), "return", Nuke(c))>> \in Seq(K)
    BY <1>1, <2>1
  <2> QED
    BY <2>2 DEF Aside
<1>4. ASSUME NEW u \in UserIds
      PROVE  /\ MoveUser(c, u) \in Seq(K)
             /\ \A s \in Storages : Exists(Data("ce", c.vol, u)) =>
                  \E x \in ToSet(MoveUser(c, u)) : x.op = "copy" /\ x.at = Data(s, c.to, u)
  <2> DEFINE D(s) == Data(s, c.to, u)
             N == Nuke(c)
             p == createSteps(c.to, u, Storages, N)
             q == Copy(Data("de", c.vol, u), D("de"), N)
             r == Copy(Data("ce", c.vol, u), D("ce"), N)
             t == Aside(D("ce"), "return", N)
  <2>1. MoveUser(c, u) = When(Exists(Data("ce", c.vol, u)), ((p \o q) \o r) \o t)
    BY DEF MoveUser
  <2>2. ASSUME NEW s \in Storages
        PROVE  /\ D(s) \in Dirs /\ D(s)[1] # "snapshot" /\ D(s) \in NewDirs(c) /\ Data(s, c.vol, u) \in Dirs
               /\ Prepare(D(s), N) \in Seq(K) /\ Aside(D(s), "return", N) \in Seq(K)
    <3>1. /\ D(s) \in Dirs /\ D(s)[1] # "snapshot" /\ D(s) \in NewDirs(c) /\ Data(s, c.vol, u) \in Dirs
      BY <1>0, AmongDirs, Names DEF NewDirs, Storages
    <3> HIDE DEF D, N, K
    <3>2. <<Step("prepare", D(s), D(s), "return", N)>> \in Seq(K)
      BY <1>1, <3>1 DEF N
    <3>3. <<Step("aside", D(s), D(s), "return", N)>> \in Seq(K)
      BY <1>1, <3>1 DEF N
    <3> QED
      BY <3>1, <3>2, <3>3 DEF Prepare, Aside
  <2>3. ASSUME NEW s \in Storages
        PROVE  /\ Copy(Data(s, c.vol, u), D(s), N) \in Seq(K)
               /\ \E x \in ToSet(Copy(Data(s, c.vol, u), D(s), N)) : x.op = "copy" /\ x.at = D(s)
    BY <1>1, <2>2 DEF Copy
  <2>4. Prepare(Cur(u), N) \in Seq(K) /\ Prepare(Ref, N) \in Seq(K)
    <3>1. Cur(u) \in Dirs /\ Cur(u)[1] # "snapshot" /\ Ref \in Dirs /\ Ref[1] # "snapshot"
      BY AmongDirs, Names
    <3> DEFINE more == NewDirs(c) \cup {Ref} \cup {Cur(w) : w \in UserIds}
    <3>2. Cur(u) \in more /\ Ref \in more
      OBVIOUS
    <3>3. \A d, e \in Dirs : d \in more /\ d[1] # "snapshot" =>
            <<Step("prepare", d, e, "return", Nuke(c))>> \in Seq(K)
      BY <1>1
    <3> HIDE DEF N, K, more
    <3>4. <<Step("prepare", Cur(u), Cur(u), "return", N)>> \in Seq(K)
      BY <3>1, <3>2, <3>3 DEF N
    <3>5. <<Step("prepare", Ref, Ref, "return", N)>> \in Seq(K)
      BY <3>1, <3>2, <3>3 DEF N
    <3> QED
      BY <3>4, <3>5 DEF Prepare
  <2>5. t \in Seq(K)
    BY <2>2 DEF Storages
  <2>6. <<>> \in Seq(K) /\ \A a, b \in Seq(K) : a \o b \in Seq(K)
    BY Nothing, Joined
  <2>7. p \in Seq(K)
    <3>1. /\ Prepare(D("ce"), N) \in Seq(K) /\ Aside(D("ce"), "return", N) \in Seq(K)
          /\ Prepare(D("de"), N) \in Seq(K) /\ Aside(D("de"), "return", N) \in Seq(K)
      BY <2>2 DEF Storages
    <3> HIDE DEF N, K
    <3> QED
      BY <2>4, <2>6, <3>1, Zenon DEF createSteps, When
  <2>8. q \in Seq(K) /\ \E x \in ToSet(q) : x.op = "copy" /\ x.at = D("de")
    BY <2>3 DEF Storages
  <2>9. r \in Seq(K) /\ \E x \in ToSet(r) : x.op = "copy" /\ x.at = D("ce")
    BY <2>3 DEF Storages
  <2> HIDE DEF p, q, r, t, K, N, D
  <2>10. \A a, b \in Seq(K) : a \o b \in Seq(K) /\ ToSet(a \o b) = ToSet(a) \cup ToSet(b)
    BY Joined
  <2> DEFINE w == ((p \o q) \o r) \o t
  <2>11. w \in Seq(K) /\ ToSet(q) \subseteq ToSet(w) /\ ToSet(r) \subseteq ToSet(w)
    <3>1. p \o q \in Seq(K) /\ ToSet(q) \subseteq ToSet(p \o q)
      BY <2>7, <2>8, <2>10
    <3>2. (p \o q) \o r \in Seq(K) /\ ToSet((p \o q) \o r) = ToSet(p \o q) \cup ToSet(r)
      BY <2>9, <2>10, <3>1, Zenon
    <3>3. w \in Seq(K) /\ ToSet(w) = ToSet((p \o q) \o r) \cup ToSet(t)
      BY <2>5, <2>10, <3>2, Zenon
    <3> QED
      BY <3>1, <3>2, <3>3, Zenon
  <2> HIDE DEF w
  <2>12. CASE Exists(Data("ce", c.vol, u))
    <3>1. MoveUser(c, u) = w
      BY <2>1, <2>12 DEF When, w
    <3>2. \A s \in Storages : \E x \in ToSet(w) : x.op = "copy" /\ x.at = D(s)
      BY <2>8, <2>9, <2>11 DEF Storages
    <3> QED
      BY <2>11, <3>1, <3>2 DEF D
  <2>13. CASE ~Exists(Data("ce", c.vol, u))
    <3>1. MoveUser(c, u) = <<>>
      BY <2>1, <2>13 DEF When
    <3> QED
      BY <2>6, <2>13, <3>1
  <2> QED
    BY <2>12, <2>13
<1>5. Len(Users) \in Nat /\ \A i \in 1..Len(Users) : Users[i] \in UserIds
  BY BoundsAssumption
<1>6. /\ \A i \in 1..Len(Users) : each[i] \in Seq(K) /\ each[i] = MoveUser(c, Users[i])
      /\ Len(each) = Len(Users) /\ DOMAIN each = 1..Len(each) /\ (Len(each) = 0 => each = <<>>)
  BY <1>4, <1>5
<1>7. Program(c) = start \o FlattenSeq(each)
  BY DEF Program, moveCompleteApp, ForAll
<1> HIDE DEF each, first, second, K
<1>8. FlattenSeq(each) \in Seq(K) /\ ToSet(FlattenSeq(each)) = Upto(each, Len(each))
  BY <1>5, <1>6, Flattened
<1>9. start \in Seq(K) /\ ToSet(start) = ToSet(first) \cup ToSet(second)
  BY <1>2, <1>3, Joined
<1> HIDE DEF start
<1>10. /\ Program(c) \in Seq(K)
       /\ ToSet(Program(c)) = ToSet(start) \cup ToSet(FlattenSeq(each))
  BY <1>7, <1>8, <1>9, Joined
<1>11. ASSUME NEW s \in Storages, NEW u \in UserIds, Exists(Data("ce", c.vol, u))
       PROVE  \E x \in ToSet(Program(c)) : x.op = "copy" /\ x.at = Data(s, c.to, u)
  <2>1. PICK i \in 1..Len(Users) : u = Users[i]
    BY <1>5, BoundsAssumption DEF UserIds
  <2>2. PICK x \in ToSet(each[i]) : x.op = "copy" /\ x.at = Data(s, c.to, u)
    BY <1>4, <1>6, <1>11, <2>1
  <2>3. x \in Upto(each, Len(each))
    BY <1>6, <2>1, <2>2 DEF Upto
  <2> QED
    BY <1>8, <1>10, <2>2, <2>3
<1> QED
  BY <1>2, <1>9, <1>10, <1>11 DEF K

(* Every program consists of the steps of its call.                        *)
LEMMA Programs == \A c \in Call : Program(c) \in Seq(StepsOf(c))
<1> TAKE c \in Call
<1>1. c.op \in {"create", "migrate", "clear", "destroy", "profiles", "snapshot", "restore",
                "forget", "move", "destroy_user"}
  BY DEF Call
<1> QED
  BY <1>1, ProgramsOfDirs, ProgramOfForget, ProgramOfSnapshot, ProgramOfRestore,
     ProgramOfMigrate, ProgramOfMove

----------------------------------------------------------------------------
(* What a step changes.                                                    *)

(* What is copied over nothing, or over itself, is the same.               *)
LEMMA Merging ==
  ASSUME NEW c \in Contents, c # Missing, NEW d \in Contents
  PROVE  /\ Merge(c, d) \in [Files -> Nat]
         /\ d \in {Missing, Empty, c} => Merge(c, d) = c
<1>1. c \in [Files -> Nat] /\ (d # Missing => d \in [Files -> Nat])
  BY DEF Contents
<1>2. Merge(c, d) \in [Files -> Nat]
  BY <1>1 DEF Merge
<1>3. ASSUME d \in {Missing, Empty, c} PROVE \A f \in Files : Merge(c, d)[f] = c[f]
  BY <1>1, <1>3 DEF Merge, Empty
<1> QED
  BY <1>1, <1>2, <1>3

(* An empty directory is not a missing one.                                *)
LEMMA EmptyThere == Empty \in Contents /\ Empty # Missing /\ Missing \in Contents
BY BoundsAssumption DEF Empty, Contents

(* A step that succeeds changes the directory it is about, and a rename    *)
(* its source.                                                             *)
LEMMA DoneFrame ==
  ASSUME TypeOK, NEW x \in Steps, Possible(x), Succeeds(x)
  PROVE  /\ dir' \in [Dirs -> Contents]
         /\ default' \subseteq Dirs
         /\ \A d \in Dirs : d # x.at /\ (x.op = "rename" => d # x.from) => dir'[d] = dir[d]
         /\ x.op \notin {"mark", "rename"} => default' \subseteq default
<1>0. x.at \in Dirs /\ x.from \in Dirs
  BY DEF Steps
<1>1. dir \in [Dirs -> Contents] /\ default \subseteq Dirs
  BY DEF TypeOK
<1>2. CASE x.op = "prepare"
  BY <1>0, <1>1, <1>2, EmptyThere DEF Succeeds
<1>3. CASE x.op = "clear"
  BY <1>0, <1>1, <1>3, EmptyThere DEF Succeeds
<1>4. CASE x.op \in {"delete", "delete_if_there"}
  BY <1>0, <1>1, <1>4, EmptyThere DEF Succeeds
<1>5. CASE x.op = "copy"
  <2>1. dir[x.from] \in Contents /\ dir[x.from] # Missing /\ dir[x.at] \in Contents
    BY <1>0, <1>1, <1>5 DEF Possible, Exists
  <2>2. Merge(dir[x.from], dir[x.at]) \in Contents
    BY <2>1, Merging DEF Contents
  <2>3. dir' = [dir EXCEPT ![x.at] = Merge(dir[x.from], dir[x.at])] /\ default' = default
    BY <1>5 DEF Succeeds
  <2> QED
    BY <1>0, <1>1, <1>5, <2>2, <2>3
<1>6. CASE x.op = "rename"
  <2>1. /\ dir' = [dir EXCEPT ![x.at] = dir[x.from], ![x.from] = Missing]
        /\ default' = MarksAfterRename(x)
    BY <1>6 DEF Succeeds
  <2> QED
    BY <1>0, <1>1, <1>6, <2>1, EmptyThere DEF MarksAfterRename
<1>7. CASE x.op = "mark"
  BY <1>0, <1>1, <1>7 DEF Succeeds
<1>8. CASE x.op \in {"aside", "check"}
  BY <1>0, <1>1, <1>8 DEF Succeeds, world
<1> QED
  BY <1>2, <1>3, <1>4, <1>5, <1>6, <1>7, <1>8 DEF Steps

(* What it leaves there.                                                   *)
LEMMA DoneAt ==
  ASSUME TypeOK, NEW x \in Steps, Succeeds(x)
  PROVE  /\ x.op = "prepare" => dir'[x.at] = IF dir[x.at] = Missing THEN Empty ELSE dir[x.at]
         /\ x.op = "clear" => dir'[x.at] = Wiped(dir[x.at])
         /\ x.op \in {"delete", "delete_if_there"} => dir'[x.at] = Missing
         /\ x.op = "copy" => dir'[x.at] = Merge(dir[x.from], dir[x.at])
         /\ x.op = "rename" /\ x.at # x.from => dir'[x.at] = dir[x.from]
         /\ x.op \in {"mark", "aside", "check"} => dir' = dir
<1>0. x.at \in Dirs /\ x.from \in Dirs
  BY DEF Steps
<1>1. dir \in [Dirs -> Contents]
  BY DEF TypeOK
<1>2. x.op = "prepare" => dir'[x.at] = IF dir[x.at] = Missing THEN Empty ELSE dir[x.at]
  BY <1>0, <1>1 DEF Succeeds
<1>3. x.op = "clear" => dir'[x.at] = Wiped(dir[x.at])
  BY <1>0, <1>1 DEF Succeeds, Wiped
<1>4. x.op \in {"delete", "delete_if_there"} => dir'[x.at] = Missing
  BY <1>0, <1>1 DEF Succeeds
<1>5. x.op = "copy" => dir'[x.at] = Merge(dir[x.from], dir[x.at])
  BY <1>0, <1>1 DEF Succeeds
<1>6. x.op = "rename" /\ x.at # x.from => dir'[x.at] = dir[x.from]
  BY <1>0, <1>1 DEF Succeeds
<1>7. x.op \in {"mark", "aside", "check"} => dir' = dir
  BY DEF Succeeds, world
<1> QED
  BY <1>2, <1>3, <1>4, <1>5, <1>6, <1>7

(* One that fails, or is cut short, changes that directory alone, and      *)
(* there it leaves files that were there or were to be there.              *)
LEMMA HalfFrame ==
  ASSUME TypeOK, NEW x \in Steps, Halfway(x)
  PROVE  /\ dir' \in [Dirs -> Contents] /\ default' = default
         /\ \A d \in Dirs : d # x.at => dir'[d] = dir[d]
         /\ x.op \in {"aside", "check", "mark", "rename"} => dir' = dir
         /\ x.op \in {"clear", "delete", "delete_if_there"} =>
              \/ dir' = dir
              \/ /\ dir[x.at] # Missing /\ dir'[x.at] # Missing
                 /\ \A f \in Files : dir'[x.at][f] \in {0, dir[x.at][f]}
         /\ x.op = "copy" =>
              \/ dir' = dir
              \/ /\ dir[x.from] # Missing
                 /\ \A f \in Files : \/ dir'[x.at][f] \in {0, dir[x.from][f]}
                                     \/ dir[x.at] # Missing /\ dir'[x.at][f] = dir[x.at][f]
<1>0. x.at \in Dirs /\ x.from \in Dirs
  BY DEF Steps
<1>1. dir \in [Dirs -> Contents]
  BY DEF TypeOK
<1>2. CASE dir' = dir
  BY <1>1, <1>2 DEF Halfway
<1>3. CASE x.op = "prepare" /\ dir' = [dir EXCEPT ![x.at] = Empty]
  BY <1>0, <1>1, <1>3, EmptyThere DEF Halfway
<1>4. ASSUME NEW kept \in SUBSET Files, x.op \in {"clear", "delete", "delete_if_there"}, Exists(x.at),
             dir' = [dir EXCEPT ![x.at] = [f \in Files |-> IF f \in kept THEN @[f] ELSE 0]]
      PROVE  /\ dir' \in [Dirs -> Contents]
             /\ \A d \in Dirs : d # x.at => dir'[d] = dir[d]
             /\ dir[x.at] # Missing /\ dir'[x.at] # Missing
             /\ \A f \in Files : dir'[x.at][f] \in {0, dir[x.at][f]}
  <2> DEFINE w == [f \in Files |-> IF f \in kept THEN dir[x.at][f] ELSE 0]
  <2>1. dir[x.at] \in [Files -> Nat] /\ dir[x.at] # Missing
    BY <1>0, <1>1, <1>4 DEF Exists, Contents
  <2>2. w \in [Files -> Nat] /\ \A f \in Files : w[f] \in {0, dir[x.at][f]}
    BY <2>1
  <2>3. w \in Contents /\ w # Missing
    BY <2>2, BoundsAssumption DEF Contents
  <2>4. dir' = [dir EXCEPT ![x.at] = w]
    BY <1>4
  <2> HIDE DEF w
  <2> QED
    BY <1>0, <1>1, <2>1, <2>2, <2>3, <2>4
<1>5. ASSUME NEW done \in SUBSET Files, NEW gone \in SUBSET Files, x.op = "copy", Exists(x.from),
             dir' = [dir EXCEPT ![x.at] =
                       [f \in Files |-> IF f \in done THEN dir[x.from][f]
                                        ELSE IF f \in gone \/ @ = Missing THEN 0 ELSE @[f]]]
      PROVE  /\ dir' \in [Dirs -> Contents]
             /\ \A d \in Dirs : d # x.at => dir'[d] = dir[d]
             /\ dir[x.from] # Missing
             /\ \A f \in Files : \/ dir'[x.at][f] \in {0, dir[x.from][f]}
                                 \/ dir[x.at] # Missing /\ dir'[x.at][f] = dir[x.at][f]
  <2> DEFINE w == [f \in Files |-> IF f \in done THEN dir[x.from][f]
                                   ELSE IF f \in gone \/ dir[x.at] = Missing THEN 0 ELSE dir[x.at][f]]
  <2>1. /\ dir[x.from] \in [Files -> Nat] /\ dir[x.from] # Missing
        /\ dir[x.at] # Missing => dir[x.at] \in [Files -> Nat]
    BY <1>0, <1>1, <1>5 DEF Exists, Contents
  <2>2. /\ w \in [Files -> Nat]
        /\ \A f \in Files : w[f] \in {0, dir[x.from][f]} \/ (dir[x.at] # Missing /\ w[f] = dir[x.at][f])
    BY <2>1
  <2>3. w \in Contents
    BY <2>2 DEF Contents
  <2>4. dir' = [dir EXCEPT ![x.at] = w]
    BY <1>5
  <2> HIDE DEF w
  <2>5. dir'[x.at] = w
    BY <1>0, <1>1, <2>4
  <2> QED
    BY <1>0, <1>1, <2>1, <2>2, <2>3, <2>4, <2>5
<1>6. \/ dir' = dir
      \/ x.op = "prepare" /\ dir' = [dir EXCEPT ![x.at] = Empty]
      \/ /\ x.op \in {"clear", "delete", "delete_if_there"} /\ Exists(x.at)
         /\ \E kept \in SUBSET Files :
              dir' = [dir EXCEPT ![x.at] = [f \in Files |-> IF f \in kept THEN @[f] ELSE 0]]
      \/ /\ x.op = "copy" /\ Exists(x.from)
         /\ \E done, gone \in SUBSET Files :
              dir' = [dir EXCEPT ![x.at] =
                        [f \in Files |-> IF f \in done THEN dir[x.from][f]
                                         ELSE IF f \in gone \/ @ = Missing THEN 0 ELSE @[f]]]
  <2>1. SUBSET {f \in Files : dir[x.from][f] # 0} \subseteq SUBSET Files
    OBVIOUS
  <2> QED
    BY <2>1 DEF Halfway
<1>7. default' = default
  BY DEF Halfway
<1> QED
  BY <1>2, <1>3, <1>4, <1>5, <1>6, <1>7

----------------------------------------------------------------------------
(* The invariant.                                                          *)

(* The invariant holds at first.                                           *)
LEMMA InvInit == Init => Inv
<1> SUFFICES ASSUME Init PROVE Inv
  OBVIOUS
<1>1. ~Running /\ status = "none" /\ todo = <<>>
  BY DEF Init, Running
<1>2. TypeOK
  <2>1. PICK having \in Having :
          dir = [d \in Dirs |->
                   IF \/ d = App(Internal)
                      \/ \E s \in Storages, u \in having : d = Data(s, Internal, u)
                     THEN [f \in Files |-> 1] ELSE Missing]
    BY DEF Init
  <2>2. [f \in Files |-> 1] \in Contents /\ Missing \in Contents
    BY DEF Contents
  <2>3. dir \in [Dirs -> Contents]
    BY <2>1, <2>2
  <2>4. calls \subseteq Call
    BY CallsAssumption DEF Init
  <2>5. todo \in Seq(Steps)
    BY <1>1
  <2>6. before = [dir |-> dir, default |-> default] /\ default = {} /\ taken = [d \in Dirs |-> Missing]
    BY DEF Init
  <2>7. version \in Nat
    BY DEF Init
  <2> QED
    BY <1>1, <2>2, <2>3, <2>4, <2>5, <2>6, <2>7 DEF TypeOK
<1>3. SnapshotIsExact /\ TakenKnown
  BY <1>1 DEF Init, SnapshotIsExact, TakenKnown
<1>4. OneDefault
  BY DEF Init, OneDefault
<1> QED
  BY <1>1, <1>2, <1>3, <1>4
     DEF Inv, ProgramLeft, Snapshotting, Restoring, Unmixed, Migrating, MovedSoFar

(* In the middle of a call: the next step and those after it.              *)
LEMMA Doing ==
  ASSUME Inv, Running, todo # <<>>
  PROVE  /\ call \in Call /\ Head(todo) \in Steps /\ Tail(todo) \in Seq(Steps)
         /\ status \in {"running", "noted"} =>
              Head(todo) \in StepsOf(call) /\ Tail(todo) \in Seq(StepsOf(call))
         /\ status = "failing" => Head(todo) \in UndoOf(call) /\ Tail(todo) \in Seq(UndoOf(call))
         /\ ToSet(todo) = {Head(todo)} \cup ToSet(Tail(todo))
         /\ call.op \in {"snapshot", "restore", "migrate"} =>
              Ordered(Tail(todo)) /\ \A y \in ToSet(Tail(todo)) : InOrder(Head(todo), y)
<1>1. todo \in Seq(Steps) /\ call \in Call
  BY DEF Inv, TypeOK
<1>2. Head(todo) \in Steps /\ Tail(todo) \in Seq(Steps) /\ ToSet(todo) = {Head(todo)} \cup ToSet(Tail(todo))
  BY <1>1, HeadAndTail
<1>3. ASSUME status \in {"running", "noted"}
      PROVE  Head(todo) \in StepsOf(call) /\ Tail(todo) \in Seq(StepsOf(call))
  <2>1. todo \in Seq(StepsOf(call))
    BY <1>3 DEF Inv, ProgramLeft
  <2> QED
    BY <2>1, HeadAndTail
<1>4. ASSUME status = "failing"
      PROVE  Head(todo) \in UndoOf(call) /\ Tail(todo) \in Seq(UndoOf(call))
  <2>1. todo \in Seq(UndoOf(call))
    BY <1>4 DEF Inv, ProgramLeft
  <2> QED
    BY <2>1, HeadAndTail
<1>5. ASSUME call.op \in {"snapshot", "restore", "migrate"}
      PROVE  Ordered(Tail(todo)) /\ \A y \in ToSet(Tail(todo)) : InOrder(Head(todo), y)
  <2>1. Ordered(todo)
    BY <1>5 DEF Inv, ProgramLeft
  <2> QED
    BY <1>1, <2>1, OrderedTail
<1> QED
  BY <1>1, <1>2, <1>3, <1>4, <1>5

(* A step changes none of the snapshots that were taken.                   *)
LEMMA TakenSpared ==
  ASSUME Inv, Running, todo # <<>>, taken' = taken,
         \A d \in Dirs : d # Head(todo).at /\ (Head(todo).op = "rename" => d # Head(todo).from)
                         => dir'[d] = dir[d]
  PROVE  SnapshotIsExact'
<1> DEFINE x == Head(todo)
<1>0. status \in {"running", "noted", "failing"}
  BY DEF Running
<1>1. /\ x.at[1] = "snapshot" => call.op \in {"snapshot", "forget"} /\ x.at \in SnapDirs(call)
      /\ x.op = "rename" => x.from[1] # "snapshot"
  <2>1. CASE status = "failing"
    BY <2>1, Doing DEF UndoOf, Undo
  <2>2. CASE status \in {"running", "noted"}
    <3>1. x \in StepsOf(call)
      BY <2>2, Doing
    <3>2. x.op = "rename" => x.from = Data(Source(call), call.vol, call.user)
      BY <3>1 DEF StepsOf, MigrateStep
    <3> QED
      BY <3>1, <3>2, Names DEF StepsOf, Source
  <2> QED
    BY <1>0, <2>1, <2>2
<1> HIDE DEF x
<1>2. ASSUME NEW d \in Dirs, taken[d] # Missing PROVE dir'[d] = dir[d]
  <2>1. d[1] = "snapshot"
    BY <1>2 DEF Inv, TakenKnown
  <2>2. d # x.at
    BY <1>1, <1>2, <2>1 DEF Inv, TakenKnown
  <2>3. x.op = "rename" => d # x.from
    BY <1>1, <2>1
  <2> QED
    BY <2>2, <2>3 DEF x
<1> QED
  BY <1>2 DEF Inv, SnapshotIsExact

(* The parts of the invariant that a step of a call hardly touches.        *)
LEMMA StepKeeps ==
  ASSUME Inv, Running, todo # <<>>,
         calls' = calls, call' = call, version' = version, before' = before, taken' = taken,
         dir' \in [Dirs -> Contents], default' \subseteq Dirs,
         \A d \in Dirs : d # Head(todo).at /\ (Head(todo).op = "rename" => d # Head(todo).from)
                         => dir'[d] = dir[d],
         \/ status' \in {status, "noted"} /\ status' # "none" /\ (status = "failing" => status' = status)
            /\ todo' \in {Tail(todo), <<>>}
         \/ status' = "failing" /\ status # "failing" /\ todo' = Head(todo).undo
         \/ status' = "died" /\ todo' = <<>>
  PROVE  TypeOK' /\ ProgramLeft' /\ SnapshotIsExact' /\ TakenKnown'
<1>0. status \in {"running", "noted", "failing"}
  BY DEF Running
<1>1. todo' \in Seq(Steps)
  <2>1. Undo \subseteq Steps
    BY Nothing DEF Undo, Steps
  <2>2. Head(todo).undo \in Seq(Undo)
    BY Doing DEF Steps
  <2>3. Head(todo).undo \in Seq(Steps)
    BY <2>1, <2>2, Wider
  <2> QED
    BY <2>3, Doing, Nothing
<1>2. TypeOK'
  BY <1>0, <1>1 DEF Inv, TypeOK, Running
<1>3. SnapshotIsExact'
  BY TakenSpared
<1>4. TakenKnown'
  BY <1>0 DEF Inv, TakenKnown, Running, SnapDirs, Snap
<1>5. ProgramLeft'
  <2>1. StepsOf(call)' = StepsOf(call) /\ UndoOf(call)' = UndoOf(call)
    OBVIOUS
  <2>2. CASE /\ status' \in {status, "noted"} /\ (status = "failing" => status' = status)
             /\ todo' \in {Tail(todo), <<>>}
    <3>1. status' \in {"running", "noted"} => todo' \in Seq(StepsOf(call))
      BY <1>0, <2>2, Doing, Nothing
    <3>2. status' = "failing" => todo' \in Seq(UndoOf(call))
      BY <1>0, <2>2, Doing, Nothing
    <3>3. call.op \in {"snapshot", "restore", "migrate"} => Ordered(todo')
      BY <2>2, Doing, Nothing
    <3>4. Ordered(todo)' <=> Ordered(todo')
      BY DEF Ordered, InOrder
    <3> QED
      BY <2>1, <3>1, <3>2, <3>3, <3>4 DEF ProgramLeft
  <2>3. CASE status' = "failing" /\ status # "failing" /\ todo' = Head(todo).undo
    <3>1. Head(todo) \in StepsOf(call)
      BY <1>0, <2>3, Doing
    <3>2. todo' \in Seq(UndoOf(call))
      BY <2>3, <3>1 DEF StepsOf
    <3>3. \A y \in ToSet(todo') : y.op = "delete"
      BY <3>2, Elements DEF UndoOf, Undo
    <3>4. Ordered(todo')
      BY <3>2, <3>3, OrderedPlain
    <3>5. Ordered(todo)' <=> Ordered(todo')
      BY DEF Ordered, InOrder
    <3> QED
      BY <2>1, <2>3, <3>2, <3>4, <3>5 DEF ProgramLeft
  <2>4. CASE status' = "died"
    BY <2>4 DEF ProgramLeft, Running
  <2> QED
    BY <2>2, <2>3, <2>4
<1> QED
  BY <1>2, <1>3, <1>4, <1>5

(* What is left of a program, before and after its first step.             *)
LEMMA Left ==
  ASSUME Inv, Running, todo # <<>>, todo' = Tail(todo)
  PROVE  /\ \A op, d : Has(todo, op, d) <=> (Head(todo).op = op /\ Head(todo).at = d) \/ Has(todo', op, d)
         /\ \A op : HasOp(todo, op) <=> Head(todo).op = op \/ HasOp(todo', op)
<1>1. ToSet(todo) = {Head(todo)} \cup ToSet(todo')
  BY Doing
<1> QED
  BY <1>1 DEF Has, HasOp

(* Nothing is left.                                                        *)
LEMMA NothingLeft == \A op, d : ~Has(<<>>, op, d) /\ ~HasOp(<<>>, op)
BY DEF Has, HasOp, ToSet

(* A step that succeeds.                                                   *)
LEMMA DoneTodo ==
  ASSUME Inv, StepDone
  PROVE  /\ Running /\ todo # <<>> /\ Possible(Head(todo)) /\ Succeeds(Head(todo)) /\ TypeOK
         /\ status' = status /\ call' = call /\ before' = before /\ botched' = botched /\ taken' = taken
         /\ calls' = calls /\ version' = version /\ (Running)'
         /\ todo' \in {Tail(todo), <<>>}
         /\ Head(todo).op # "check" \/ status # "noted" => todo' = Tail(todo)
         /\ Head(todo).op = "check" /\ status = "noted" => todo' = <<>>
         /\ status \in {"running", "noted", "failing"}
BY DEF Inv, StepDone, history, Running

(* A step of a snapshot: the copy is made over nothing, so it is exact.    *)
LEMMA DoneSnapshotting ==
  ASSUME Inv, StepDone
  PROVE  Snapshotting'
<1> DEFINE x == Head(todo)
<1> SUFFICES ASSUME status = "running", call.op = "snapshot",
                    before.dir[Data("ce", Internal, call.user)] # Missing,
                    NEW s \in call.flags \cap Storages
             PROVE  LET d == Data(s, Internal, call.user)
                        to == Snap(s, call.user, call.id)
                    IN /\ dir'[d] = before.dir[d]
                       /\ Has(todo', "copy", to) \/ (~Has(todo', "clear", to) /\ dir'[to] = before.dir[d])
                       /\ Has(todo', "clear", to) \/ dir'[to] \in {Missing, Empty, before.dir[d]}
  BY DoneTodo DEF Snapshotting
<1> DEFINE d == Data(s, Internal, call.user)
           to == Snap(s, call.user, call.id)
<1>1. /\ dir[d] = before.dir[d]
      /\ Has(todo, "copy", to) \/ (~Has(todo, "clear", to) /\ dir[to] = before.dir[d])
      /\ Has(todo, "clear", to) \/ dir[to] \in {Missing, Empty, before.dir[d]}
  BY DEF Inv, Snapshotting
<1>2. /\ x \in Steps /\ SnapshotStep(call, x) /\ call \in Call
  BY DoneTodo, Doing DEF StepsOf
<1>3. x.op \in {"aside", "clear", "copy"} /\ todo' = Tail(todo)
  BY <1>2, DoneTodo DEF SnapshotStep
<1>4. \A op, e : Has(todo, op, e) <=> (x.op = op /\ x.at = e) \/ Has(todo', op, e)
  BY <1>3, DoneTodo, Left
<1>5. d \in Dirs /\ to \in Dirs /\ d # x.at /\ to[2] = s /\ d # to
  <2>1. x.at[1] = "snapshot"
    BY <1>2, Names DEF SnapshotStep, SnapDirs
  <2> QED
    BY <1>2, <2>1, AmongDirs, Names, BoundsAssumption DEF Call, Storages
<1>6. \A e \in Dirs : e # x.at => dir'[e] = dir[e]
  BY <1>2, <1>3, DoneTodo, DoneFrame
<1>7. CASE x.at # to
  BY <1>1, <1>4, <1>5, <1>6, <1>7
<1>8. CASE x.at = to /\ x.op = "aside"
  <2>1. dir' = dir
    BY <1>2, <1>8, DoneTodo, DoneAt
  <2> QED
    BY <1>1, <1>4, <1>8, <2>1
<1>9. CASE x.at = to /\ x.op = "clear"
  <2>1. dir'[to] \in {Missing, Empty}
    BY <1>2, <1>9, DoneTodo, DoneAt DEF Wiped
  <2>2. Has(todo', "copy", to)
    BY <1>1, <1>4, <1>9
  <2> QED
    BY <1>1, <1>5, <1>6, <2>1, <2>2
<1>10. CASE x.at = to /\ x.op = "copy"
  <2>1. x.from = d
    BY <1>2, <1>5, <1>10 DEF SnapshotStep
  <2>2. ~Has(todo', "clear", to)
    <3>1. \A y \in ToSet(Tail(todo)) : InOrder(x, y)
      BY DoneTodo, Doing
    <3> QED
      BY <1>3, <1>10, <3>1 DEF Has, InOrder
  <2>3. dir[to] \in {Missing, Empty, dir[d]}
    BY <1>1, <1>4, <1>10, <2>2
  <2>4. dir[d] # Missing /\ dir[d] \in Contents /\ dir[to] \in Contents
    BY <1>5, <1>10, <2>1, DoneTodo DEF Possible, Exists, TypeOK
  <2>5. dir'[to] = dir[d]
    BY <1>2, <1>10, <2>1, <2>3, <2>4, DoneTodo, DoneAt, Merging
  <2> QED
    BY <1>1, <1>5, <1>6, <2>2, <2>5
<1> QED
  BY <1>3, <1>7, <1>8, <1>9, <1>10

(* A step of a restore: the same, of every storage that is rolled back.    *)
LEMMA DoneRestoring ==
  ASSUME Inv, StepDone
  PROVE  Restoring'
<1> DEFINE x == Head(todo)
<1> SUFFICES ASSUME call.op = "restore" PROVE Restoring'
  BY DoneTodo DEF Restoring
<1>0. /\ call \in Call /\ x \in Steps /\ x.at[1] # "snapshot" /\ x.op # "rename"
      /\ \A d \in Dirs : d # x.at => dir'[d] = dir[d]
  <2>1. /\ call \in Call /\ x \in Steps /\ x.at[1] # "snapshot" /\ x.op # "rename"
    BY DoneTodo, Doing DEF StepsOf, UndoOf, Undo
  <2> QED
    BY <2>1, DoneTodo, DoneFrame
<1>1. \A d \in Dirs : d[1] = "snapshot" => dir'[d] = before.dir[d]
  <2>1. \A d \in Dirs : d[1] = "snapshot" => dir[d] = before.dir[d]
    BY DoneTodo DEF Inv, Restoring
  <2> QED
    BY <1>0, <2>1
<1>2. ~ \A s \in Storages : ~Rolls(s)
  BY DoneTodo DEF Inv, Restoring
<1>3. \A s : Rolls(s)' <=> Rolls(s)
  BY DoneTodo DEF Rolls
<1>4. ASSUME status = "running", NEW s \in call.flags \cap Storages
      PROVE  RestoredSoFar(s)'
  <2> DEFINE d == Data(s, Internal, call.user)
             from == Snap(s, call.user, call.id)
             Back == before.dir[from]
  <2>1. \/ Has(todo, "clear", d) /\ dir[d] = before.dir[d] /\ (Rolls(s) => Has(todo, "copy", d))
        \/ dir[d] = Wiped(before.dir[d]) /\ (Rolls(s) => Has(todo, "copy", d))
        \/ ~Has(todo, "clear", d) /\ Rolls(s) /\ dir[d] = Back
    <3>1. RestoredSoFar(s)
      BY <1>2, <1>4, DoneTodo DEF Inv, Restoring
    <3> QED
      BY <3>1 DEF RestoredSoFar
  <2> SUFFICES \/ Has(todo', "clear", d) /\ dir'[d] = before.dir[d] /\ (Rolls(s) => Has(todo', "copy", d))
               \/ dir'[d] = Wiped(before.dir[d]) /\ (Rolls(s) => Has(todo', "copy", d))
               \/ ~Has(todo', "clear", d) /\ Rolls(s) /\ dir'[d] = Back
    BY <1>3, DoneTodo DEF RestoredSoFar
  <2>2. RestoreStep(call, x)
    BY <1>4, DoneTodo, Doing DEF StepsOf
  <2>3. x.op \in {"clear", "check", "copy", "aside"} /\ todo' = Tail(todo)
    BY <1>4, <2>2, DoneTodo DEF RestoreStep
  <2>4. \A op, e : Has(todo, op, e) <=> (x.op = op /\ x.at = e) \/ Has(todo', op, e)
    BY <2>3, DoneTodo, Left
  <2>5. d \in Dirs /\ from \in Dirs /\ from[1] = "snapshot" /\ from # d
    BY <1>0, AmongDirs, Names, BoundsAssumption DEF Call, Storages
  <2>6. CASE x.at # d
    BY <1>0, <2>1, <2>4, <2>5, <2>6
  <2>7. CASE x.at = d /\ x.op \in {"aside", "check"}
    <3>1. dir' = dir
      BY <1>0, <2>7, DoneTodo, DoneAt
    <3> QED
      BY <2>1, <2>4, <2>7, <3>1
  <2>8. CASE x.at = d /\ x.op = "clear"
    <3>1. dir'[d] = Wiped(dir[d])
      BY <1>0, <2>8, DoneTodo, DoneAt
    <3>2. Has(todo, "clear", d)
      BY <2>4, <2>8
    <3>3. Wiped(Wiped(before.dir[d])) = Wiped(before.dir[d])
      BY EmptyThere DEF Wiped
    <3> QED
      BY <2>1, <2>4, <2>8, <3>1, <3>2, <3>3
  <2>9. CASE x.at = d /\ x.op = "copy"
    <3>1. x.from = from
      <4>1. PICK r \in Storages : x.at = Data(r, Internal, call.user) /\ x.from = Snap(r, call.user, call.id)
        BY <2>2, <2>9 DEF RestoreStep
      <4>2. r = s
        BY <2>9, <4>1, Names
      <4> QED
        BY <4>1, <4>2
    <3>2. ~Has(todo', "clear", d)
      <4>1. \A y \in ToSet(Tail(todo)) : InOrder(x, y)
        BY DoneTodo, Doing
      <4> QED
        BY <2>3, <2>9, <4>1 DEF Has, InOrder
    <3>3. dir[from] = Back /\ Back # Missing
      BY <2>5, <2>9, <3>1, DoneTodo DEF Inv, Restoring, Possible, Exists
    <3>4. dir[d] \in {Missing, Empty, Back}
      BY <2>1, <2>4, <2>9, <3>2 DEF Wiped
    <3>5. dir'[d] = Back
      <4>1. dir[from] \in Contents /\ dir[d] \in Contents
        BY <2>5, DoneTodo DEF TypeOK
      <4>2. dir'[d] = Merge(dir[from], dir[d])
        BY <1>0, <2>9, <3>1, DoneTodo, DoneAt
      <4> QED
        BY <3>3, <3>4, <4>1, <4>2, Merging
    <3>6. Rolls(s)
      BY <3>3 DEF Rolls
    <3> QED
      BY <3>2, <3>5, <3>6
  <2> QED
    BY <2>3, <2>6, <2>7, <2>8, <2>9
<1> QED
  BY <1>1, <1>2, <1>3, <1>4, DoneTodo DEF Restoring

(* What it means to have files of some contents only.                      *)
LEMMA Parts ==
  /\ \A w : PartOf(Missing, w) /\ PartOf(Empty, w) /\ PartOf(w, w)
  /\ \A c, w : PartOf(c, w) => PartOf(Wiped(c), w)
  /\ \A c, d \in Contents : c # Missing /\ PartOf(d, c) => PartOf(Merge(c, d), c)
  /\ \A c, d, w : /\ PartOf(c, w) /\ (d # Missing => c # Missing /\ \A f \in Files : d[f] \in {0, c[f]})
                  => PartOf(d, w)
<1>1. \A w : PartOf(Missing, w) /\ PartOf(Empty, w) /\ PartOf(w, w)
  BY DEF PartOf, Empty
<1>2. \A c, w : PartOf(c, w) => PartOf(Wiped(c), w)
  BY <1>1 DEF Wiped
<1>3. ASSUME NEW c \in Contents, NEW d \in Contents, c # Missing, PartOf(d, c)
      PROVE  PartOf(Merge(c, d), c)
  BY <1>3 DEF PartOf, Merge
<1>4. ASSUME NEW c, NEW d, NEW w, PartOf(c, w), d # Missing => c # Missing /\ \A f \in Files : d[f] \in {0, c[f]}
      PROVE  PartOf(d, w)
  BY <1>4 DEF PartOf
<1> QED
  BY <1>1, <1>2, <1>3, <1>4

(* A step of a restore mixes nothing: when the copying begins, all that    *)
(* was there before is gone.                                               *)
LEMMA DoneUnmixed ==
  ASSUME Inv, StepDone
  PROVE  Unmixed'
<1> DEFINE x == Head(todo)
           D(s) == Data(s, Internal, call.user)
           S(s) == Snap(s, call.user, call.id)
           Old(w) == \A s \in Storages : PartOf(w[D(s)], before.dir[D(s)])
           New(w) == \A s \in Storages : PartOf(w[D(s)], before.dir[S(s)])
<1> SUFFICES ASSUME call.op = "restore", Storages \subseteq call.flags
             PROVE  \/ Old(dir') /\ (HasOp(todo', "check") \/ ~HasOp(todo', "copy"))
                    \/ New(dir') /\ ~HasOp(todo', "check")
  BY DoneTodo DEF Unmixed, AsBefore, FromSnapshot
<1>1. \/ Old(dir) /\ (HasOp(todo, "check") \/ ~HasOp(todo, "copy"))
      \/ New(dir) /\ ~HasOp(todo, "check")
  BY DoneTodo DEF Inv, Unmixed, AsBefore, FromSnapshot
<1>2. x \in Steps /\ call \in Call
  BY DoneTodo, Doing
<1>3. \/ status \in {"running", "noted"} /\ RestoreStep(call, x)
      \/ status = "failing" /\ x.op = "delete"
  BY DoneTodo, Doing DEF StepsOf, UndoOf, Undo
<1>4. x.op \in {"clear", "check", "copy", "aside", "delete"}
  BY <1>3 DEF RestoreStep
<1>5. \A s \in Storages : D(s) \in Dirs /\ S(s) \in Dirs /\ S(s)[1] = "snapshot"
  BY <1>2, AmongDirs, Names, BoundsAssumption DEF Call
<1>6. \A e \in Dirs : e # x.at => dir'[e] = dir[e]
  BY <1>2, <1>4, DoneTodo, DoneFrame
<1>7. todo' = Tail(todo) => \A op : HasOp(todo, op) <=> x.op = op \/ HasOp(todo', op)
  BY DoneTodo, Left
<1>8. \A y \in ToSet(Tail(todo)) : InOrder(x, y)
  BY DoneTodo, Doing
<1> HIDE DEF x, D, S
<1>9. CASE x.op \in {"clear", "aside", "delete"}
  <2>1. todo' = Tail(todo)
    BY <1>9, DoneTodo DEF x
  <2>2. ASSUME NEW s \in Storages, NEW w, PartOf(dir[D(s)], w) PROVE PartOf(dir'[D(s)], w)
    <3>1. CASE D(s) # x.at
      BY <1>5, <1>6, <2>2, <3>1
    <3>2. CASE D(s) = x.at /\ x.op = "aside"
      BY <1>2, <2>2, <3>2, DoneTodo, DoneAt DEF x
    <3>3. CASE D(s) = x.at /\ x.op = "clear"
      BY <1>2, <2>2, <3>3, DoneTodo, DoneAt, Parts DEF x
    <3>4. CASE D(s) = x.at /\ x.op = "delete"
      BY <1>2, <2>2, <3>4, DoneTodo, DoneAt, Parts DEF x
    <3> QED
      BY <1>9, <3>1, <3>2, <3>3, <3>4
  <2>3. (Old(dir) => Old(dir')) /\ (New(dir) => New(dir'))
    BY <2>2
  <2>4. /\ HasOp(todo, "check") <=> HasOp(todo', "check")
        /\ HasOp(todo, "copy") <=> HasOp(todo', "copy")
    BY <1>7, <1>9, <2>1
  <2> QED
    BY <1>1, <2>3, <2>4
<1>10. CASE x.op = "check"
  <2>1. dir' = dir
    BY <1>2, <1>10, DoneTodo, DoneAt DEF x
  <2>2. HasOp(todo, "check")
    BY <1>10, DoneTodo, Doing DEF HasOp, x
  <2>3. Old(dir)
    BY <1>1, <2>2
  <2>4. CASE status = "noted"
    <3>1. todo' = <<>>
      BY <1>10, <2>4, DoneTodo DEF x
    <3>2. ~HasOp(todo', "copy")
      BY <3>1, NothingLeft
    <3> QED
      BY <2>1, <2>3, <3>2
  <2>5. CASE status = "running" /\ ~HasOp(todo', "check")
    <3>1. todo' = Tail(todo)
      BY <2>5, DoneTodo
    <3>2. ASSUME NEW s \in Storages PROVE ~Has(todo, "clear", D(s))
      <4>1. \A y \in ToSet(Tail(todo)) : y.op # "clear"
        BY <1>8, <1>10 DEF InOrder
      <4>2. ToSet(todo) = {x} \cup ToSet(Tail(todo))
        BY DoneTodo, Doing DEF x
      <4> QED
        BY <1>10, <4>1, <4>2 DEF Has
    <3>3. todo # <<>> /\ Running
      BY DoneTodo
    <3>4. \A s \in Storages : RestoredSoFar(s)
      <4>1. ~ \A s \in Storages : ~Rolls(s)
        BY <3>3 DEF Inv, Restoring
      <4> QED
        BY <2>5, <3>3, <4>1 DEF Inv, Restoring
    <3>5. ASSUME NEW s \in Storages PROVE PartOf(dir'[D(s)], before.dir[S(s)])
      <4>1. dir[D(s)] = Wiped(before.dir[D(s)]) \/ dir[D(s)] = before.dir[S(s)]
        BY <3>2, <3>4 DEF RestoredSoFar, D, S
      <4> QED
        BY <2>1, <4>1, Parts DEF Wiped
    <3> QED
      BY <2>5, <3>5
  <2>6. CASE HasOp(todo', "check")
    BY <2>1, <2>3, <2>6
  <2>7. status # "failing"
    BY <1>3, <1>10
  <2> QED
    BY <2>4, <2>5, <2>6, <2>7, DoneTodo
<1>11. CASE x.op = "copy"
  <2>1. todo' = Tail(todo)
    BY <1>11, DoneTodo DEF x
  <2>2. ~HasOp(todo', "check")
    BY <1>8, <1>11, <2>1 DEF InOrder, HasOp
  <2>3. New(dir)
    BY <1>1, <1>7, <1>11, <2>1, <2>2
  <2>4. PICK r \in Storages : x.at = D(r) /\ x.from = S(r)
    BY <1>3, <1>11 DEF RestoreStep, D, S
  <2>5. dir[S(r)] = before.dir[S(r)] /\ dir[S(r)] # Missing
    BY <1>5, <1>11, <2>4, DoneTodo DEF Inv, Restoring, Possible, Exists, x
  <2>6. dir'[D(r)] = Merge(dir[S(r)], dir[D(r)])
    BY <1>2, <1>11, <2>4, DoneTodo, DoneAt DEF x
  <2>7. dir[S(r)] \in Contents /\ dir[D(r)] \in Contents
    BY <1>5, DoneTodo DEF TypeOK
  <2>8. PartOf(dir'[D(r)], before.dir[S(r)])
    BY <2>3, <2>5, <2>6, <2>7, Parts
  <2>9. ASSUME NEW s \in Storages PROVE PartOf(dir'[D(s)], before.dir[S(s)])
    <3>1. CASE D(s) # x.at
      BY <1>5, <1>6, <2>3, <3>1
    <3>2. CASE D(s) = x.at
      <4>1. s = r
        BY <2>4, <3>2, Names DEF D
      <4> QED
        BY <2>8, <4>1
    <3> QED
      BY <3>1, <3>2
  <2> QED
    BY <2>2, <2>9
<1> QED
  BY <1>4, <1>9, <1>10, <1>11

(* A step of a migration: the data is at its source until the rename, and  *)
(* no two storages are marked.                                             *)
LEMMA DoneMigrating ==
  ASSUME Inv, StepDone
  PROVE  OneDefault' /\ Migrating'
<1> DEFINE x == Head(todo)
<1>1. x \in Steps /\ call \in Call /\ x.at \in Dirs
  BY DoneTodo, Doing DEF Steps
<1>2. CASE call.op # "migrate"
  <2>1. x.op \notin {"mark", "rename"}
    BY <1>2, DoneTodo, Doing DEF StepsOf, UndoOf, Undo
  <2>2. default' \subseteq default
    BY <1>1, <2>1, DoneTodo, DoneFrame
  <2> QED
    BY <1>2, <2>2, DoneTodo DEF Inv, OneDefault, Migrating
<1>3. CASE call.op = "migrate"
  <2> DEFINE D(s) == Data(s, call.vol, call.user)
             T == Target(call)
             S == Source(call)
             kept == DefaultOf(before, call.vol, call.user)
  <2>1. /\ status = "running" /\ (HasOp(todo, "mark") => D("de") \notin default)
        /\ \/ HasOp(todo, "rename") /\ dir[D(S)] = kept
           \/ ~HasOp(todo, "rename") /\ ~HasOp(todo, "delete") /\ dir[D(T)] = kept
    BY <1>3, DoneTodo DEF Inv, Migrating
  <2>2. MigrateStep(call, x)
    BY <1>3, <2>1, DoneTodo, Doing DEF StepsOf
  <2>3. \/ x.op = "mark" /\ x.at = D("ce")
        \/ x.op = "delete" /\ x.at = D(T)
        \/ x.op = "rename" /\ x.at = D(T) /\ x.from = D(S)
    BY <2>2 DEF MigrateStep
  <2>4. /\ {T, S} = {"ce", "de"} /\ T # S
        /\ \A a, b, v, u, w, z : Data(a, v, u) = Data(b, w, z) => a = b /\ v = w /\ u = z
        /\ \A s \in {"ce", "de"} : D(s) \in Dirs
    BY <1>1, Names, AmongDirs DEF Target, Source, Call, Storages
  <2>5. todo' = Tail(todo)
    BY <2>3, DoneTodo
  <2>6. \A op : HasOp(todo, op) <=> x.op = op \/ HasOp(todo', op)
    BY <2>5, DoneTodo, Left
  <2>7. \A y \in ToSet(Tail(todo)) : InOrder(x, y)
    BY <1>3, DoneTodo, Doing
  <2>8. Migrating' <=> /\ HasOp(todo', "mark") => D("de") \notin default'
                       /\ \/ HasOp(todo', "rename") /\ dir'[D(S)] = kept
                          \/ ~HasOp(todo', "rename") /\ ~HasOp(todo', "delete") /\ dir'[D(T)] = kept
    BY <1>3, <2>1, DoneTodo DEF Migrating, DefaultOf
  <2> HIDE DEF D, T, S, kept, x
  <2>9. CASE x.op = "mark"
    <3>1. dir' = dir /\ default' = default \cup {D("ce")}
      BY <2>3, <2>9 DEF StepDone, Succeeds, x
    <3>2. D("de") \notin default' /\ D("de") # D("ce")
      BY <2>1, <2>4, <2>6, <2>9, <3>1 DEF D
    <3>3. OneDefault'
      <4> SUFFICES ASSUME NEW v \in Volumes, NEW u \in UserIds,
                          Data("ce", v, u) \in default', Data("de", v, u) \in default'
                   PROVE  FALSE
        BY DEF OneDefault
      <4>1. Data("de", v, u) # D("ce")
        BY <2>4 DEF D
      <4>2. Data("de", v, u) \in default
        BY <3>1, <4>1
      <4>3. Data("ce", v, u) = D("ce")
        BY <3>1, <4>2 DEF Inv, OneDefault
      <4>4. Data("de", v, u) = D("de")
        BY <2>4, <4>3 DEF D
      <4> QED
        BY <3>2, <4>4
    <3> QED
      BY <2>1, <2>6, <2>8, <2>9, <3>1, <3>2, <3>3
  <2>10. CASE x.op = "delete"
    <3>1. default' \subseteq default
      BY <1>1, <2>10, DoneTodo, DoneFrame DEF x
    <3>2. D(S) \in Dirs /\ D(S) # x.at
      BY <2>3, <2>4, <2>10 DEF D
    <3>3. dir'[D(S)] = dir[D(S)]
      BY <1>1, <2>10, <3>2, DoneTodo, DoneFrame DEF x
    <3> QED
      BY <2>1, <2>6, <2>8, <2>10, <3>1, <3>3 DEF Inv, OneDefault
  <2>11. CASE x.op = "rename"
    <3>1. dir'[D(T)] = dir[D(S)]
      <4>1. x.at # x.from
        BY <2>3, <2>4, <2>11 DEF D
      <4> QED
        BY <1>1, <2>3, <2>11, <4>1, DoneTodo, DoneAt DEF x
    <3>2. \A op : ~HasOp(todo', op)
      BY <2>5, <2>7, <2>11 DEF InOrder, HasOp
    <3>3. default' = {IF d = D(S) THEN D(T) ELSE d : d \in default}
      BY <2>3, <2>11 DEF StepDone, Succeeds, MarksAfterRename, x
    <3>4. D(S) \notin default' /\ \A d \in default' : d = D(T) \/ d \in default
      <4>1. D(S) # D(T)
        BY <2>4 DEF D
      <4> QED
        BY <3>3, <4>1
    <3>5. OneDefault'
      <4> SUFFICES ASSUME NEW v \in Volumes, NEW u \in UserIds,
                          Data("ce", v, u) \in default', Data("de", v, u) \in default'
                   PROVE  FALSE
        BY DEF OneDefault
      <4>1. Data("ce", v, u) = D(T) \/ Data("de", v, u) = D(T)
        BY <3>4 DEF Inv, OneDefault
      <4>2. v = call.vol /\ u = call.user
        BY <2>4, <4>1 DEF D
      <4> QED
        BY <2>4, <3>4, <4>2 DEF D
    <3> QED
      BY <2>1, <2>6, <2>8, <2>11, <3>1, <3>2, <3>5
  <2> QED
    BY <2>3, <2>9, <2>10, <2>11
<1> QED
  BY <1>2, <1>3

(* A directory that is copied by a move.                                   *)
LEMMA CopiedKept ==
  ASSUME Inv, StepDone, NEW new \in Dirs, NEW old \in Dirs, Copied(new, old),
         Head(todo).op \in {"prepare", "copy", "aside"}, Head(todo).at # old,
         Head(todo).op = "copy" /\ Head(todo).at = new => Head(todo).from = old
  PROVE  /\ dir'[old] = before.dir[old]
         /\ Has(todo', "copy", new) \/ (dir'[new] = before.dir[old] /\ dir'[new] # Missing)
         /\ dir'[new] \in {Missing, Empty, before.dir[old]}
<1> DEFINE x == Head(todo)
<1>1. x \in Steps /\ todo' = Tail(todo)
  BY DoneTodo, Doing
<1>2. \A e \in Dirs : e # x.at => dir'[e] = dir[e]
  BY <1>1, DoneTodo, DoneFrame
<1>3. \A op, e : Has(todo, op, e) <=> (x.op = op /\ x.at = e) \/ Has(todo', op, e)
  BY <1>1, DoneTodo, Left
<1>4. /\ dir[old] = before.dir[old]
      /\ Has(todo, "copy", new) \/ (dir[new] = before.dir[old] /\ dir[new] # Missing)
      /\ dir[new] \in {Missing, Empty, before.dir[old]}
  BY DEF Copied
<1>5. CASE x.at # new
  BY <1>2, <1>3, <1>4, <1>5
<1>6. CASE x.at = new /\ x.op = "prepare"
  <2>1. dir'[new] = IF dir[new] = Missing THEN Empty ELSE dir[new]
    BY <1>1, <1>6, DoneTodo, DoneAt
  <2> QED
    BY <1>2, <1>3, <1>4, <1>6, <2>1
<1>7. CASE x.at = new /\ x.op = "aside"
  <2>1. dir' = dir
    BY <1>1, <1>7, DoneTodo, DoneAt
  <2> QED
    BY <1>3, <1>4, <1>7, <2>1
<1>8. CASE x.at = new /\ x.op = "copy"
  <2>1. dir'[new] = Merge(dir[old], dir[new])
    BY <1>1, <1>8, DoneTodo, DoneAt
  <2>2. dir[old] # Missing /\ dir[old] \in Contents /\ dir[new] \in Contents
    BY <1>8, DoneTodo DEF Possible, Exists, TypeOK
  <2>3. dir'[new] = dir[old]
    BY <1>4, <2>1, <2>2, Merging
  <2> QED
    BY <1>2, <1>4, <2>2, <2>3
<1> QED
  BY <1>5, <1>6, <1>7, <1>8

(* A step of a move: every directory that is to be copied is, or will be,  *)
(* or is deleted again.                                                    *)
LEMMA DoneMoving ==
  ASSUME Inv, StepDone
  PROVE  MovedSoFar'
<1> DEFINE x == Head(todo)
<1> SUFFICES ASSUME call.op = "move" PROVE MovedSoFar'
  BY DoneTodo DEF MovedSoFar
<1>1. x \in Steps /\ call \in Call /\ call.to \in Volumes /\ call.vol \in Volumes
  BY DoneTodo, Doing DEF Call
<1>2. status # "noted"
  BY DoneTodo DEF Inv, MovedSoFar
<1>3. ASSUME status = "failing", ~botched, NEW d \in NewDirs(call)
      PROVE  Has(todo', "delete", d) \/ dir'[d] = Missing
  <2>1. x.op = "delete" /\ todo' = Tail(todo)
    BY <1>3, DoneTodo, Doing DEF UndoOf, Undo
  <2>2. d \in Dirs
    BY <1>1, AmongDirs DEF NewDirs
  <2>3. Has(todo, "delete", d) <=> x.at = d \/ Has(todo', "delete", d)
    BY <2>1, DoneTodo, Left
  <2>4. Has(todo, "delete", d) \/ dir[d] = Missing
    BY <1>3, DoneTodo DEF Inv, MovedSoFar
  <2>5. x.at = d => dir'[d] = Missing
    BY <1>1, <2>1, DoneTodo, DoneAt
  <2>6. x.at # d => dir'[d] = dir[d]
    BY <1>1, <2>1, <2>2, DoneTodo, DoneFrame
  <2> QED
    BY <2>3, <2>4, <2>5, <2>6
<1>4. ASSUME status = "running", call.to # call.vol,
             \A d \in MoveDirs(call.to, call) : before.dir[d] = Missing
      PROVE  /\ Copied(App(call.to), App(call.vol))'
             /\ \A s \in Storages, u \in UserIds :
                  before.dir[Data("ce", call.vol, u)] # Missing =>
                    Copied(Data(s, call.to, u), Data(s, call.vol, u))'
  <2>1. MoveStep(call, x)
    BY <1>4, DoneTodo, Doing DEF StepsOf
  <2>2. x.op \in {"prepare", "copy", "aside"}
    BY <2>1 DEF MoveStep
  <2>3. /\ Copied(App(call.to), App(call.vol))
        /\ \A s \in Storages, u \in UserIds :
             before.dir[Data("ce", call.vol, u)] # Missing =>
               Copied(Data(s, call.to, u), Data(s, call.vol, u))
    BY <1>4, DoneTodo DEF Inv, MovedSoFar
  <2>4. Copied(App(call.to), App(call.vol))'
    <3>1. App(call.to) \in Dirs /\ App(call.vol) \in Dirs
      BY <1>1, AmongDirs
    <3>2. x.at # App(call.vol)
      BY <1>4, <2>1, Names DEF MoveStep, NewDirs, Storages
    <3>3. x.op = "copy" /\ x.at = App(call.to) => x.from = App(call.vol)
      BY <2>1, Names DEF MoveStep, Storages
    <3> QED
      BY <2>2, <2>3, <3>1, <3>2, <3>3, CopiedKept, DoneTodo DEF Copied
  <2>5. ASSUME NEW s \in Storages, NEW u \in UserIds, before.dir[Data("ce", call.vol, u)] # Missing
        PROVE  Copied(Data(s, call.to, u), Data(s, call.vol, u))'
    <3>1. Data(s, call.to, u) \in Dirs /\ Data(s, call.vol, u) \in Dirs
      BY <1>1, AmongDirs
    <3>2. x.at # Data(s, call.vol, u)
      BY <1>4, <2>1, Names DEF MoveStep, NewDirs, Storages
    <3>3. x.op = "copy" /\ x.at = Data(s, call.to, u) => x.from = Data(s, call.vol, u)
      BY <2>1, Names DEF MoveStep, Storages
    <3> QED
      BY <2>2, <2>3, <2>5, <3>1, <3>2, <3>3, CopiedKept, DoneTodo DEF Copied
  <2> QED
    BY <2>4, <2>5
<1> QED
  BY <1>2, <1>3, <1>4, DoneTodo DEF MovedSoFar, MoveDirs

(* A step that fails: it is left half done, and the call goes on, or       *)
(* clears up and returns.                                                  *)
LEMMA FailTodo ==
  ASSUME Inv, StepFails
  PROVE  /\ Running /\ todo # <<>> /\ Halfway(Head(todo)) /\ TypeOK /\ Head(todo).op # "check"
         /\ call' = call /\ before' = before /\ taken' = taken /\ calls' = calls /\ version' = version
         /\ status \in {"running", "noted", "failing"} /\ (Running)'
         /\ Head(todo) \in Steps /\ call \in Call
         /\ \/ Head(todo).fail = "return" /\ status # "failing" /\ status' = "failing" /\ todo' = Head(todo).undo
            \/ Head(todo).fail = "note" /\ status # "failing" /\ status' = "noted" /\ todo' = Tail(todo)
            \/ Head(todo).fail = "ignore" /\ status' = status /\ todo' = Tail(todo)
         /\ status = "failing" => Head(todo).op = "delete"
         /\ status # "failing" => Head(todo) \in StepsOf(call)
<1>1. /\ Running /\ todo # <<>> /\ Halfway(Head(todo)) /\ TypeOK /\ Head(todo).op # "check"
      /\ call' = call /\ before' = before /\ taken' = taken /\ calls' = calls /\ version' = version
      /\ status \in {"running", "noted", "failing"}
  BY DEF Inv, StepFails, Running
<1>2. Head(todo) \in Steps /\ call \in Call
  BY <1>1, Doing
<1>3. status = "failing" => Head(todo).op = "delete" /\ Head(todo).fail = "ignore"
  BY <1>1, Doing DEF UndoOf, Undo
<1>4. status # "failing" => Head(todo) \in StepsOf(call)
  BY <1>1, Doing
<1>5. Head(todo).fail \in {"return", "note", "ignore"}
  BY <1>2 DEF Steps
<1>6. \/ Head(todo).fail = "return" /\ status' = "failing" /\ todo' = Head(todo).undo
      \/ Head(todo).fail = "note" /\ status' = "noted" /\ todo' = Tail(todo)
      \/ Head(todo).fail = "ignore" /\ status' = status /\ todo' = Tail(todo)
  BY <1>5 DEF StepFails
<1>7. (Running)'
  BY <1>1, <1>6 DEF Running
<1> QED
  BY <1>1, <1>2, <1>3, <1>4, <1>6, <1>7

(* The parts that do not depend on what the call is for; a snapshot that   *)
(* fails returns.                                                          *)
LEMMA FailKeeps ==
  ASSUME Inv, StepFails
  PROVE  TypeOK' /\ ProgramLeft' /\ SnapshotIsExact' /\ TakenKnown' /\ OneDefault' /\ Snapshotting'
<1>1. dir' \in [Dirs -> Contents] /\ default' = default /\ default \subseteq Dirs
  BY FailTodo, HalfFrame DEF TypeOK
<1>2. \A d \in Dirs : d # Head(todo).at => dir'[d] = dir[d]
  BY FailTodo, HalfFrame
<1>3. TypeOK' /\ ProgramLeft' /\ SnapshotIsExact' /\ TakenKnown'
  BY <1>1, <1>2, FailTodo, StepKeeps
<1>4. OneDefault'
  BY <1>1 DEF Inv, OneDefault
<1>5. call.op = "snapshot" => status' # "running"
  <2>1. CASE status = "failing"
    BY <2>1, FailTodo
  <2>2. CASE status # "failing"
    <3>1. call.op = "snapshot" => Head(todo).fail = "return"
      BY <2>2, FailTodo DEF StepsOf, SnapshotStep
    <3> QED
      BY <3>1, FailTodo
  <2> QED
    BY <2>1, <2>2
<1>6. Snapshotting'
  BY <1>5, FailTodo DEF Snapshotting
<1> QED
  BY <1>3, <1>4, <1>6

(* A restore does not touch the snapshots, and a failed one is not taken   *)
(* for a complete one.                                                     *)
LEMMA FailRestoring ==
  ASSUME Inv, StepFails
  PROVE  Restoring'
<1> DEFINE x == Head(todo)
<1> SUFFICES ASSUME call.op = "restore" PROVE Restoring'
  BY FailTodo DEF Restoring
<1>1. x.at[1] # "snapshot"
  <2>1. CASE status = "failing"
    BY <2>1, FailTodo, Doing DEF UndoOf, Undo
  <2>2. CASE status # "failing"
    BY <2>2, FailTodo DEF StepsOf
  <2> QED
    BY <2>1, <2>2
<1>2. \A d \in Dirs : d[1] = "snapshot" => dir'[d] = before.dir[d]
  <2>1. \A d \in Dirs : d[1] = "snapshot" => dir[d] = before.dir[d]
    BY FailTodo DEF Inv, Restoring
  <2>2. \A d \in Dirs : d # x.at => dir'[d] = dir[d]
    BY FailTodo, HalfFrame
  <2> QED
    BY <1>1, <2>1, <2>2
<1>3. ~ \A s \in Storages : ~Rolls(s)
  BY FailTodo DEF Inv, Restoring
<1>4. \A s : Rolls(s)' <=> Rolls(s)
  BY FailTodo DEF Rolls
<1>5. status' # "running"
  <2>1. status # "failing" => x.fail # "ignore"
    BY FailTodo DEF StepsOf, RestoreStep
  <2> QED
    BY <2>1, FailTodo
<1> QED
  BY <1>2, <1>3, <1>4, <1>5, FailTodo DEF Restoring

(* The data of an app is not mixed by a step of a restore that is cut      *)
(* short.                                                                  *)
LEMMA HalfUnmixed ==
  ASSUME Inv, Running, todo # <<>>, Halfway(Head(todo)), call.op = "restore", Storages \subseteq call.flags
  PROVE  LET D(s) == Data(s, Internal, call.user)
             S(s) == Snap(s, call.user, call.id)
             Old(w) == \A s \in Storages : PartOf(w[D(s)], before.dir[D(s)])
             New(w) == \A s \in Storages : PartOf(w[D(s)], before.dir[S(s)])
         IN \/ /\ Old(dir') /\ (HasOp(todo, "check") \/ ~HasOp(todo, "copy"))
               /\ Head(todo).op # "copy"
            \/ New(dir') /\ ~HasOp(todo, "check")
<1> DEFINE x == Head(todo)
           D(s) == Data(s, Internal, call.user)
           S(s) == Snap(s, call.user, call.id)
           Old(w) == \A s \in Storages : PartOf(w[D(s)], before.dir[D(s)])
           New(w) == \A s \in Storages : PartOf(w[D(s)], before.dir[S(s)])
<1> SUFFICES \/ /\ Old(dir') /\ (HasOp(todo, "check") \/ ~HasOp(todo, "copy"))
                /\ x.op # "copy"
             \/ New(dir') /\ ~HasOp(todo, "check")
  OBVIOUS
<1>1. \/ Old(dir) /\ (HasOp(todo, "check") \/ ~HasOp(todo, "copy"))
      \/ New(dir) /\ ~HasOp(todo, "check")
  BY DEF Inv, Unmixed, AsBefore, FromSnapshot
<1>2. x \in Steps /\ call \in Call /\ TypeOK /\ Halfway(x) /\ status \in {"running", "noted", "failing"}
  BY Doing DEF Inv, Running
<1>3. \/ status \in {"running", "noted"} /\ RestoreStep(call, x)
      \/ status = "failing" /\ x.op = "delete"
  BY <1>2, Doing DEF StepsOf, UndoOf, Undo
<1>4. x.op \in {"clear", "check", "copy", "aside", "delete"}
  BY <1>3 DEF RestoreStep
<1>5. \A s \in Storages : D(s) \in Dirs /\ S(s) \in Dirs /\ S(s)[1] = "snapshot"
  BY <1>2, AmongDirs, Names, BoundsAssumption DEF Call
<1>6. \A e \in Dirs : e # x.at => dir'[e] = dir[e]
  BY <1>2, HalfFrame
<1>7. \A y \in ToSet(Tail(todo)) : InOrder(x, y)
  BY Doing
<1>8. ToSet(todo) = {x} \cup ToSet(Tail(todo))
  BY Doing
<1>9. \A s \in Storages : dir[S(s)] = before.dir[S(s)]
  BY <1>5 DEF Inv, Restoring
<1>10. x.op = "copy" => \E r \in Storages : x.at = D(r) /\ x.from = S(r)
  BY <1>3 DEF RestoreStep
<1> HIDE DEF x, D, S
<1>11. CASE x.op \in {"clear", "aside", "delete", "check"}
  <2>1. ASSUME NEW s \in Storages, NEW w, PartOf(dir[D(s)], w) PROVE PartOf(dir'[D(s)], w)
    <3>1. CASE D(s) # x.at \/ dir' = dir
      BY <1>5, <1>6, <2>1, <3>1
    <3>2. CASE D(s) = x.at /\ dir' # dir
      <4>1. /\ dir[D(s)] # Missing /\ \A f \in Files : dir'[D(s)][f] \in {0, dir[D(s)][f]}
        BY <1>2, <1>11, <3>2, HalfFrame
      <4> QED
        BY <2>1, <4>1, Parts
    <3> QED
      BY <3>1, <3>2
  <2>2. (Old(dir) => Old(dir')) /\ (New(dir) => New(dir'))
    BY <2>1
  <2> QED
    BY <1>1, <1>11, <2>2
<1>12. CASE x.op = "copy"
  <2>1. ~HasOp(todo, "check") /\ HasOp(todo, "copy")
    BY <1>7, <1>8, <1>12 DEF InOrder, HasOp
  <2>2. New(dir)
    BY <1>1, <2>1
  <2>3. PICK r \in Storages : x.at = D(r) /\ x.from = S(r)
    BY <1>10, <1>12
  <2>4. PartOf(dir'[D(r)], before.dir[S(r)])
    <3>1. CASE dir' = dir
      BY <2>2, <3>1
    <3>2. CASE dir' # dir
      <4>1. /\ dir[S(r)] # Missing
            /\ \A f \in Files : \/ dir'[D(r)][f] \in {0, dir[S(r)][f]}
                                \/ dir[D(r)] # Missing /\ dir'[D(r)][f] = dir[D(r)][f]
        BY <1>2, <1>12, <2>3, <3>2, HalfFrame
      <4> QED
        BY <1>9, <2>2, <4>1 DEF PartOf
    <3> QED
      BY <3>1, <3>2
  <2>5. ASSUME NEW s \in Storages PROVE PartOf(dir'[D(s)], before.dir[S(s)])
    <3>1. CASE D(s) # x.at
      BY <1>5, <1>6, <2>2, <3>1
    <3>2. CASE D(s) = x.at
      <4>1. s = r
        BY <2>3, <3>2, Names DEF D
      <4> QED
        BY <2>4, <4>1
    <3> QED
      BY <3>1, <3>2
  <2> QED
    BY <2>1, <2>5
<1> QED
  BY <1>4, <1>11, <1>12

(* Nor by going on after it.                                               *)
LEMMA FailUnmixed ==
  ASSUME Inv, StepFails
  PROVE  Unmixed'
<1> DEFINE x == Head(todo)
           D(s) == Data(s, Internal, call.user)
           S(s) == Snap(s, call.user, call.id)
           Old(w) == \A s \in Storages : PartOf(w[D(s)], before.dir[D(s)])
           New(w) == \A s \in Storages : PartOf(w[D(s)], before.dir[S(s)])
<1> SUFFICES ASSUME call.op = "restore", Storages \subseteq call.flags
             PROVE  \/ Old(dir') /\ (HasOp(todo', "check") \/ ~HasOp(todo', "copy"))
                    \/ New(dir') /\ ~HasOp(todo', "check")
  BY FailTodo DEF Unmixed, AsBefore, FromSnapshot
<1>1. \/ Old(dir') /\ (HasOp(todo, "check") \/ ~HasOp(todo, "copy")) /\ x.op # "copy"
      \/ New(dir') /\ ~HasOp(todo, "check")
  BY FailTodo, HalfUnmixed
<1>2. x.op # "check"
  BY FailTodo
<1> HIDE DEF Old, New
<1>3. CASE todo' = Tail(todo)
  <2>1. \A op : HasOp(todo, op) <=> x.op = op \/ HasOp(todo', op)
    BY <1>3, FailTodo, Left
  <2> QED
    BY <1>1, <1>2, <2>1
<1>4. CASE x.fail = "return" /\ status # "failing" /\ todo' = x.undo
  <2>1. x \in StepsOf(call)
    BY <1>4, FailTodo
  <2>2. x.op = "copy"
    BY <1>4, <2>1 DEF StepsOf, RestoreStep
  <2>3. ~HasOp(todo', "check")
    <3>1. x.undo \in Seq(UndoOf(call))
      BY <2>1 DEF StepsOf
    <3> QED
      BY <1>4, <3>1, Elements DEF UndoOf, Undo, HasOp
  <2> QED
    BY <1>1, <2>2, <2>3
<1> QED
  BY <1>3, <1>4, FailTodo

(* Half of a step of a migration leaves the data complete in one of the    *)
(* two places.                                                             *)
LEMMA HalfMigrated ==
  ASSUME Inv, Running, todo # <<>>, Halfway(Head(todo)), call.op = "migrate"
  PROVE  /\ Head(todo).fail = "return" /\ Head(todo).undo = <<>> /\ status = "running"
         /\ DefaultOf(before, call.vol, call.user)
              \in {dir'[Data("ce", call.vol, call.user)], dir'[Data("de", call.vol, call.user)]}
<1> DEFINE x == Head(todo)
           D(s) == Data(s, call.vol, call.user)
           T == Target(call)
           S == Source(call)
           kept == DefaultOf(before, call.vol, call.user)
<1>1. x \in Steps /\ call \in Call /\ TypeOK /\ Halfway(x)
  BY Doing DEF Inv
<1>2. /\ status = "running"
      /\ \/ HasOp(todo, "rename") /\ dir[D(S)] = kept
         \/ ~HasOp(todo, "rename") /\ ~HasOp(todo, "delete") /\ dir[D(T)] = kept
  BY DEF Inv, Migrating
<1>3. x \in StepsOf(call) /\ MigrateStep(call, x)
  BY <1>2, Doing DEF StepsOf
<1>4. /\ x.op \in {"mark", "delete", "rename"} /\ (x.op = "delete" => x.at = D(T))
      /\ x.fail = "return"
  BY <1>3 DEF MigrateStep
<1>5. x.undo = <<>>
  <2>1. x.undo \in Seq(UndoOf(call)) /\ UndoOf(call) = {}
    BY <1>3 DEF StepsOf, UndoOf
  <2> QED
    BY <2>1
<1>6. /\ {T, S} = {"ce", "de"} /\ D(T) # D(S) /\ D(S) \in Dirs
  BY <1>1, Names, AmongDirs DEF Target, Source, Call, Storages
<1>7. HasOp(todo, x.op)
  BY Doing DEF HasOp
<1> HIDE DEF x, D, T, S, kept
<1>8. kept \in {dir'[D(T)], dir'[D(S)]}
  <2>1. CASE x.op \in {"mark", "rename"}
    <3>1. dir' = dir
      BY <1>1, <2>1, HalfFrame
    <3> QED
      BY <1>2, <3>1
  <2>2. CASE x.op = "delete"
    <3>1. dir'[D(S)] = dir[D(S)]
      BY <1>1, <1>4, <1>6, <2>2, HalfFrame
    <3> QED
      BY <1>2, <1>7, <2>2, <3>1
  <2> QED
    BY <1>4, <2>1, <2>2
<1>9. kept \in {dir'[D("ce")], dir'[D("de")]}
  BY <1>6, <1>8
<1> QED
  BY <1>2, <1>4, <1>5, <1>9 DEF x, D, kept

(* A migration returns when a step of it fails.                            *)
LEMMA FailMigrating ==
  ASSUME Inv, StepFails
  PROVE  Migrating'
<1> SUFFICES ASSUME call.op = "migrate" PROVE Migrating'
  BY FailTodo DEF Migrating
<1>1. /\ Head(todo).fail = "return" /\ Head(todo).undo = <<>>
      /\ DefaultOf(before, call.vol, call.user)
           \in {dir'[Data("ce", call.vol, call.user)], dir'[Data("de", call.vol, call.user)]}
  BY FailTodo, HalfMigrated
<1>2. status' = "failing" /\ todo' = <<>>
  BY <1>1, FailTodo
<1>3. ~HasOp(todo', "mark")
  BY <1>2, NothingLeft
<1> QED
  BY <1>1, <1>2, <1>3, FailTodo DEF Migrating, DefaultOf

(* A move that fails is to delete all it may have made.                    *)
LEMMA FailMoving ==
  ASSUME Inv, StepFails
  PROVE  MovedSoFar'
<1> DEFINE x == Head(todo)
<1> SUFFICES ASSUME call.op = "move" PROVE MovedSoFar'
  BY FailTodo DEF MovedSoFar
<1>1. status # "noted"
  BY FailTodo DEF Inv, MovedSoFar
<1>2. CASE status = "running"
  <2>1. x \in StepsOf(call) /\ MoveStep(call, x)
    BY <1>2, FailTodo DEF StepsOf
  <2>2. status' = "failing" /\ todo' = x.undo
    BY <2>1, FailTodo DEF MoveStep
  <2>3. ASSUME NEW d \in NewDirs(call) PROVE Has(todo', "delete", d)
    <3>1. PICK y \in ToSet(x.undo) : y.at = d
      BY <2>1 DEF MoveStep
    <3>2. y.op = "delete"
      BY <2>1, Elements DEF StepsOf, UndoOf, Undo
    <3> QED
      BY <2>2, <3>1, <3>2 DEF Has
  <2> QED
    BY <2>2, <2>3, FailTodo DEF MovedSoFar
<1>3. CASE status = "failing"
  <2>1. x.op = "delete" /\ status' = "failing" /\ todo' = Tail(todo) /\ x \in Steps /\ x.at \in Dirs
    BY <1>3, FailTodo DEF Steps
  <2>2. ASSUME ~botched', NEW d \in NewDirs(call)
        PROVE  Has(todo', "delete", d) \/ dir'[d] = Missing
    <3>1. ~botched /\ ~Possible(x)
      BY <1>3, <2>2 DEF StepFails
    <3>2. dir[x.at] = Missing
      BY <2>1, <3>1 DEF Possible, Exists
    <3>3. dir' = dir
      BY <2>1, <3>2, FailTodo, HalfFrame
    <3>4. Has(todo, "delete", d) \/ dir[d] = Missing
      BY <1>3, <2>2, <3>1, FailTodo DEF Inv, MovedSoFar
    <3>5. Has(todo, "delete", d) <=> x.at = d \/ Has(todo', "delete", d)
      BY <2>1, FailTodo, Left
    <3> QED
      BY <3>2, <3>3, <3>4, <3>5
  <2> QED
    BY <2>1, <2>2, FailTodo DEF MovedSoFar
<1> QED
  BY <1>1, <1>2, <1>3, FailTodo

(* Every step of a call keeps the invariant, done or not.                  *)
LEMMA InvDone ==
  ASSUME Inv, StepDone
  PROVE  Inv'
<1>1. /\ dir' \in [Dirs -> Contents] /\ default' \subseteq Dirs
      /\ \A d \in Dirs : d # Head(todo).at /\ (Head(todo).op = "rename" => d # Head(todo).from)
                         => dir'[d] = dir[d]
  BY DoneTodo, Doing, DoneFrame
<1>2. TypeOK' /\ ProgramLeft' /\ SnapshotIsExact' /\ TakenKnown'
  BY <1>1, DoneTodo, StepKeeps
<1> QED
  BY <1>2, DoneSnapshotting, DoneRestoring, DoneUnmixed, DoneMigrating, DoneMoving DEF Inv

(* A step that failed.                                                     *)
LEMMA InvFails ==
  ASSUME Inv, StepFails
  PROVE  Inv'
BY FailKeeps, FailRestoring, FailUnmixed, FailMigrating, FailMoving DEF Inv

(* So does the end of installd.                                            *)
LEMMA InvDie ==
  ASSUME Inv, Die
  PROVE  Inv'
<1>1. /\ Running /\ todo # <<>> /\ Halfway(Head(todo)) /\ status' = "died" /\ todo' = <<>>
      /\ calls' = calls /\ call' = call /\ version' = version /\ before' = before /\ taken' = taken
  BY DEF Die, history
<1>2. Head(todo) \in Steps /\ TypeOK
  BY <1>1, Doing DEF Inv
<1>3. /\ dir' \in [Dirs -> Contents] /\ default' = default /\ default \subseteq Dirs
      /\ \A d \in Dirs : d # Head(todo).at => dir'[d] = dir[d]
  BY <1>1, <1>2, HalfFrame DEF TypeOK
<1>4. TypeOK' /\ ProgramLeft' /\ SnapshotIsExact' /\ TakenKnown'
  BY <1>1, <1>3, StepKeeps
<1>5. OneDefault'
  BY <1>3 DEF Inv, OneDefault
<1>6. ~(Running)' /\ status' # "running"
  BY <1>1 DEF Running
<1> QED
  BY <1>4, <1>5, <1>6 DEF Inv, Snapshotting, Restoring, Unmixed, Migrating, MovedSoFar

(* Between calls the app writes its own data, not the snapshots.           *)
LEMMA InvAppRuns ==
  ASSUME Inv, NEW u \in UserIds, AppRuns(u)
  PROVE  Inv'
<1>1. /\ ~Running /\ ~(Running)' /\ status' = status /\ status # "running"
      /\ default' = default /\ calls' = calls /\ todo' = todo /\ before' = before /\ taken' = taken
      /\ version' = version + 1
  BY DEF AppRuns, history, Running
<1>2. PICK files \in SUBSET Files :
        dir' = [d \in Dirs |->
                  IF \E s \in Storages : d = Data(s, Internal, u)
                    THEN [f \in Files |-> IF f \in files THEN version' ELSE 0]
                    ELSE dir[d]]
  BY DEF AppRuns
<1>3. TypeOK /\ version' \in Nat
  BY <1>1 DEF Inv, TypeOK
<1>4. [f \in Files |-> IF f \in files THEN version' ELSE 0] \in Contents
  BY <1>3 DEF Contents
<1>5. dir' \in [Dirs -> Contents]
  BY <1>2, <1>3, <1>4 DEF TypeOK
<1>6. TypeOK'
  BY <1>1, <1>3, <1>5 DEF TypeOK
<1>7. ASSUME NEW d \in Dirs, taken[d] # Missing PROVE dir'[d] = dir[d]
  <2>1. d[1] = "snapshot"
    BY <1>7 DEF Inv, TakenKnown
  <2>2. ~ \E s \in Storages : d = Data(s, Internal, u)
    BY <2>1, Names DEF Storages
  <2> QED
    BY <1>2, <2>2
<1>8. SnapshotIsExact'
  BY <1>1, <1>7 DEF Inv, SnapshotIsExact
<1>9. TakenKnown' /\ OneDefault' /\ ProgramLeft'
  BY <1>1 DEF Inv, TakenKnown, OneDefault, ProgramLeft, Running
<1> QED
  BY <1>1, <1>6, <1>8, <1>9 DEF Inv, Snapshotting, Restoring, Unmixed, Migrating, MovedSoFar

(* When a snapshot is complete, what was copied is what was there.         *)
LEMMA InvReturn ==
  ASSUME Inv, Return
  PROVE  Inv'
<1>1. /\ Running /\ ~(Running)' /\ status' \in {"ok", "error"} /\ todo = <<>>
      /\ dir' = dir /\ default' = default /\ calls' = calls /\ call' = call /\ todo' = todo
      /\ before' = before /\ version' = version
  BY DEF Return, world, Running
<1>2. TypeOK /\ call \in Call
  BY <1>1 DEF Inv, TypeOK
<1>3. CASE taken' = taken
  <2>1. TypeOK' /\ SnapshotIsExact' /\ TakenKnown'
    BY <1>1, <1>2, <1>3 DEF Inv, TypeOK, SnapshotIsExact, TakenKnown
  <2>2. OneDefault' /\ ProgramLeft'
    BY <1>1 DEF Inv, OneDefault, ProgramLeft, Running
  <2> QED
    BY <1>1, <2>1, <2>2 DEF Inv, Snapshotting, Restoring, Unmixed, Migrating, MovedSoFar
<1>4. CASE taken' # taken
  <2>1. /\ call.op = "snapshot" /\ status = "running" /\ before.dir[Data("ce", Internal, call.user)] # Missing
        /\ taken' = [d \in Dirs |->
                       IF d \in SnapDirs(call) THEN before.dir[Data(d[2], Internal, call.user)]
                                               ELSE taken[d]]
    BY <1>4 DEF Return
  <2>2. ASSUME NEW d \in Dirs, d \in SnapDirs(call)
        PROVE  /\ d[1] = "snapshot" /\ before.dir[Data(d[2], Internal, call.user)] \in Contents
               /\ dir[d] = before.dir[Data(d[2], Internal, call.user)]
    <3>1. PICK s \in call.flags : d = Snap(s, call.user, call.id)
      BY <2>2 DEF SnapDirs
    <3>2. d[1] = "snapshot" /\ d[2] = s
      BY <3>1, Names
    <3>3. s \in Storages
      <4>1. PICK r \in Storages, u \in UserIds, id \in Snapshots : d = Snap(r, u, id)
        BY <3>2, SnapshotDirs
      <4>2. d[2] = r
        BY <4>1, Names
      <4> QED
        BY <3>2, <4>2
    <3>4. Data(s, Internal, call.user) \in Dirs
      BY <1>2, <3>3, AmongDirs, BoundsAssumption DEF Call
    <3>5. dir[d] = before.dir[Data(s, Internal, call.user)]
      <4>1. ~Has(todo, "copy", d)
        BY <1>1, NothingLeft
      <4> QED
        BY <2>1, <3>1, <3>3, <4>1 DEF Inv, Snapshotting
    <3> QED
      BY <1>2, <3>2, <3>4, <3>5 DEF TypeOK
  <2>3. taken' \in [Dirs -> Contents]
    BY <1>2, <2>1, <2>2 DEF TypeOK
  <2>4. TypeOK'
    BY <1>1, <1>2, <2>3 DEF TypeOK
  <2>5. SnapshotIsExact'
    BY <1>1, <2>1, <2>2 DEF Inv, SnapshotIsExact
  <2>6. TakenKnown'
    BY <1>1, <2>1, <2>2 DEF Inv, TakenKnown
  <2>7. OneDefault' /\ ProgramLeft'
    BY <1>1 DEF Inv, OneDefault, ProgramLeft, Running
  <2> QED
    BY <1>1, <2>4, <2>5, <2>6, <2>7 DEF Inv, Snapshotting, Restoring, Unmixed, Migrating, MovedSoFar
<1> QED
  BY <1>3, <1>4

(* A call begins: nothing of its program is done.                          *)
LEMMA Begun ==
  ASSUME Inv, NEW c \in calls, Begin(c)
  PROVE  /\ c \in Call /\ call' = c /\ todo' = Program(c) /\ status' = "running" /\ (Running)'
         /\ dir' = dir /\ default' = default /\ calls' = calls /\ version' = version
         /\ before' = [dir |-> dir, default |-> default] /\ TypeOK
         /\ before.dir' = dir /\ before.default' = default
<1>1. /\ c \in Call /\ call' = c /\ todo' = Program(c) /\ status' = "running"
      /\ dir' = dir /\ default' = default /\ calls' = calls /\ version' = version
      /\ before' = [dir |-> dir, default |-> default] /\ TypeOK
  BY DEF Begin, world, Inv, TypeOK
<1>2. (Running)'
  BY <1>1 DEF Running
<1> QED
  BY <1>1, <1>2

(* A call that begins forgets the snapshots it is about to change.         *)
LEMMA BeginKeeps ==
  ASSUME Inv, NEW c \in calls, Begin(c)
  PROVE  TypeOK' /\ ProgramLeft' /\ SnapshotIsExact' /\ TakenKnown' /\ OneDefault'
<1>1. taken' = IF c.op \in {"snapshot", "forget"}
                 THEN [d \in Dirs |-> IF d \in SnapDirs(c) THEN Missing ELSE taken[d]]
                 ELSE taken
  BY DEF Begin
<1>2. /\ taken' \in [Dirs -> Contents]
      /\ \A d \in Dirs : taken'[d] # Missing => taken'[d] = taken[d]
      /\ c.op \in {"snapshot", "forget"} => \A d \in Dirs \cap SnapDirs(c) : taken'[d] = Missing
  BY <1>1, Begun, EmptyThere DEF TypeOK
<1>3. todo' \in Seq(StepsOf(c)) /\ todo' \in Seq(Steps)
  <2>1. StepsOf(c) \subseteq Steps
    BY DEF StepsOf
  <2> QED
    BY <2>1, Begun, Programs, Wider
<1>4. TypeOK'
  BY <1>2, <1>3, Begun DEF TypeOK
<1>5. ProgramLeft'
  <2>1. c.op \in {"snapshot", "restore", "migrate"} => Ordered(todo')
    BY Begun, ProgramOfSnapshot, ProgramOfRestore, ProgramOfMigrate
  <2>2. Ordered(todo)' <=> Ordered(todo')
    BY DEF Ordered, InOrder
  <2>3. call' = c /\ status' = "running"
    BY Begun
  <2> QED
    BY <1>3, <2>1, <2>2, <2>3 DEF ProgramLeft
<1>6. SnapshotIsExact'
  BY <1>2, Begun DEF Inv, SnapshotIsExact
<1>7. TakenKnown'
  BY <1>2, Begun DEF Inv, TakenKnown
<1>8. OneDefault'
  BY Begun DEF Inv, OneDefault
<1> QED
  BY <1>4, <1>5, <1>6, <1>7, <1>8

(* A snapshot has everything to clear and to copy.                         *)
LEMMA BeginSnapshotting ==
  ASSUME Inv, NEW c \in calls, Begin(c)
  PROVE  Snapshotting'
<1> SUFFICES ASSUME c.op = "snapshot", dir[Data("ce", Internal, c.user)] # Missing,
                    NEW s \in c.flags \cap Storages
             PROVE  /\ Has(todo', "copy", Snap(s, c.user, c.id))
                    /\ Has(todo', "clear", Snap(s, c.user, c.id))
  BY Begun DEF Snapshotting
<1>1. Exists(Data("ce", Internal, c.user))
  BY DEF Exists
<1> QED
  BY <1>1, Begun, ProgramOfSnapshot DEF Has

(* So has a restore, and the data is as it was.                            *)
LEMMA BeginRestoring ==
  ASSUME Inv, NEW c \in calls, Begin(c)
  PROVE  Restoring' /\ Unmixed'
<1> SUFFICES ASSUME c.op = "restore" PROVE Restoring' /\ Unmixed'
  BY Begun DEF Restoring, Unmixed
<1>1. \A s : Rolls(s)' <=> NeedsRollback(s, c)
  BY Begun DEF Rolls, NeedsRollback, Exists
<1>2. CASE \A s \in Storages : ~NeedsRollback(s, c)
  <2>1. todo' = <<>>
    BY <1>2, Begun, ProgramOfRestore
  <2>2. ~HasOp(todo', "copy")
    BY <2>1, NothingLeft
  <2>3. AsBefore'
    BY Begun, Parts DEF AsBefore
  <2>4. Restoring'
    BY <1>1, <1>2, <2>1, Begun DEF Restoring
  <2> QED
    BY <2>2, <2>3, <2>4 DEF Unmixed
<1>3. CASE \E s \in Storages : NeedsRollback(s, c)
  <2>1. HasOp(todo', "check")
    BY <1>3, Begun, ProgramOfRestore DEF HasOp
  <2>2. \A s \in c.flags \cap Storages : Has(todo', "clear", Data(s, Internal, c.user))
    BY <1>3, Begun, ProgramOfRestore DEF Has
  <2>3. \A s \in Storages : NeedsRollback(s, c) => Has(todo', "copy", Data(s, Internal, c.user))
    BY <1>3, Begun, ProgramOfRestore DEF Has
  <2>4. \A s \in c.flags \cap Storages : RestoredSoFar(s)'
    BY <1>1, <2>2, <2>3, Begun DEF RestoredSoFar
  <2>5. AsBefore'
    BY Begun, Parts DEF AsBefore
  <2>6. Restoring'
    BY <1>1, <1>3, <2>4, Begun DEF Restoring
  <2> QED
    BY <2>1, <2>5, <2>6 DEF Unmixed
<1> QED
  BY <1>2, <1>3

(* The storage that a migration starts from is the default.                *)
LEMMA BeginMigrating ==
  ASSUME Inv, NEW c \in calls, Begin(c)
  PROVE  Migrating'
<1> SUFFICES ASSUME c.op = "migrate" PROVE Migrating'
  BY Begun DEF Migrating
<1> DEFINE D(s) == Data(s, c.vol, c.user)
           T == Target(c)
           S == Source(c)
           kept == IF D("de") \in default THEN dir[D("de")] ELSE dir[D("ce")]
<1>1. HasOp(todo', "mark") => D("de") \notin default
  BY Begun, ProgramOfMigrate DEF HasOp
<1>2. ~(D("ce") \in default /\ D("de") \in default)
  BY Begun DEF Inv, OneDefault, Call
<1>3. \/ T = "de" /\ S = "ce"
      \/ T = "ce" /\ S = "de"
  BY DEF Target, Source
<1>4. \A s \in Storages : s \in Default(c.vol, c.user) <=>
        D(s) \in default \/ (s = "ce" /\ D("ce") \notin default /\ D("de") \notin default)
  BY DEF Default, Storages
<1>5. CASE T \notin Default(c.vol, c.user)
  <2>1. HasOp(todo', "rename")
    BY <1>5, Begun, ProgramOfMigrate DEF HasOp
  <2>2. dir[D(S)] = kept
    BY <1>3, <1>4, <1>5 DEF Storages
  <2> QED
    BY <1>1, <2>1, <2>2, Begun DEF Migrating, DefaultOf
<1>6. CASE T \in Default(c.vol, c.user)
  <2>1. ~HasOp(todo', "rename") /\ ~HasOp(todo', "delete")
    BY <1>6, Begun, ProgramOfMigrate DEF HasOp
  <2>2. dir[D(T)] = kept
    BY <1>2, <1>3, <1>4, <1>6 DEF Storages
  <2> QED
    BY <1>1, <2>1, <2>2, Begun DEF Migrating, DefaultOf
<1> QED
  BY <1>5, <1>6

(* A move has everything to copy, and finds nothing at the new place.      *)
LEMMA BeginMoving ==
  ASSUME Inv, NEW c \in calls, Begin(c)
  PROVE  MovedSoFar'
<1> SUFFICES ASSUME c.op = "move" PROVE MovedSoFar'
  BY Begun DEF MovedSoFar
<1>1. Has(todo', "copy", App(c.to))
  BY Begun, ProgramOfMove DEF Has
<1>2. ASSUME NEW s \in Storages, NEW u \in UserIds, dir[Data("ce", c.vol, u)] # Missing
      PROVE  Has(todo', "copy", Data(s, c.to, u))
  BY <1>2, Begun, ProgramOfMove DEF Has, Exists
<1>3. ASSUME \A d \in MoveDirs(c.to, c)' : dir[d] = Missing
      PROVE  /\ dir[App(c.to)] = Missing
             /\ \A s \in Storages, u \in UserIds :
                  dir[Data("ce", c.vol, u)] # Missing => dir[Data(s, c.to, u)] = Missing
  BY <1>3, Begun DEF MoveDirs
<1> QED
  BY <1>1, <1>2, <1>3, Begun DEF MovedSoFar, MoveDirs, Copied

----------------------------------------------------------------------------
(* The theorems.                                                           *)

(* Every step keeps the invariant.                                         *)
LEMMA InvNext == Inv /\ [Next]_vars => Inv'
<1> SUFFICES ASSUME Inv, [Next]_vars PROVE Inv'
  OBVIOUS
<1>1. ASSUME NEW c \in calls, Begin(c) PROVE Inv'
  BY <1>1, BeginKeeps, BeginSnapshotting, BeginRestoring, BeginMigrating, BeginMoving DEF Inv
<1>2. CASE StepDone
  BY <1>2, InvDone
<1>3. CASE StepFails
  BY <1>3, InvFails
<1>4. CASE Return
  BY <1>4, InvReturn
<1>5. CASE Die
  BY <1>5, InvDie
<1>6. ASSUME NEW u \in UserIds, AppRuns(u) PROVE Inv'
  BY <1>6, InvAppRuns
<1>7. CASE UNCHANGED vars
  BY <1>7
     DEF vars, world, history, Inv, TypeOK, ProgramLeft, SnapshotIsExact, TakenKnown, Snapshotting,
         Restoring, Unmixed, OneDefault, Migrating, MovedSoFar, Running, Rolls, RestoredSoFar,
         AsBefore, FromSnapshot, Copied, MoveDirs
<1> QED
  BY <1>1, <1>2, <1>3, <1>4, <1>5, <1>6, <1>7 DEF Next

(* So it always holds.                                                     *)
LEMMA Invariance == Spec => []Inv
BY InvInit, InvNext, PTL DEF Spec

(* A call ends by returning, or with installd.                             *)
LEMMA Ending ==
  ASSUME Inv, [Next]_vars, NEW op, NEW r \in SUBSET {"ok", "error", "died"}, Ends(op, r)
  PROVE  /\ call.op = op /\ status' \in r
         /\ \/ Return /\ Running /\ todo = <<>> /\ dir' = dir
               /\ status' = IF status = "running" THEN "ok" ELSE "error"
            \/ Die /\ Running /\ todo # <<>> /\ Halfway(Head(todo)) /\ status' = "died"
<1>1. Running /\ status' \notin {"running", "noted", "failing", "none"} /\ call.op = op /\ status' \in r
  BY DEF Ends
<1>2. status \in {"running", "noted", "failing"}
  BY <1>1 DEF Running
<1>3. \A c : ~Begin(c)
  BY <1>1 DEF Begin
<1>4. ~StepDone
  BY <1>1, <1>2 DEF StepDone
<1>5. ~StepFails
  BY <1>1, <1>2, FailTodo
<1>6. \A u : ~AppRuns(u)
  BY <1>1 DEF AppRuns
<1>7. ~UNCHANGED vars
  BY <1>1, <1>2 DEF vars
<1>8. Return \/ Die
  BY <1>3, <1>4, <1>5, <1>6, <1>7 DEF Next
<1> QED
  BY <1>1, <1>8 DEF Return, Die, world

(* SnapshotIsExact: a snapshot for which installd returned ok is what the  *)
(* app's directory held, whatever calls, failures and deaths follow, until *)
(* another call on that snapshot is made.                                  *)
THEOREM SnapshotsExact == Spec => []SnapshotIsExact
<1>1. Inv => SnapshotIsExact
  BY DEF Inv
<1> QED
  BY <1>1, Invariance, PTL

(* RestoreIsExact: a restore that returned ok leaves, in every storage it  *)
(* was asked for, what the snapshot holds and nothing else.                *)
THEOREM RestoresExact == Spec => RestoreIsExact
<1>1. ASSUME Inv, [Next]_vars, Ends("restore", {"ok"}), \E s \in Storages : NeedsRollback(s, call),
             NEW s \in call.flags \cap Storages
      PROVE  LET d == Data(s, Internal, call.user) IN
               dir[d] = IF NeedsRollback(s, call) THEN dir[Snap(s, call.user, call.id)]
                        ELSE IF before.dir[d] = Missing THEN Missing ELSE Empty
  <2> DEFINE d == Data(s, Internal, call.user)
             from == Snap(s, call.user, call.id)
  <2>1. call.op = "restore" /\ Running /\ todo = <<>> /\ status = "running"
    BY <1>1, Ending
  <2>2. call \in Call
    BY <1>1, <2>1 DEF Inv, TypeOK
  <2>3. \A r \in Storages : Snap(r, call.user, call.id) \in Dirs /\ Snap(r, call.user, call.id)[1] = "snapshot"
    BY <2>2, AmongDirs, Names DEF Call
  <2>4. \A r \in Storages : dir[Snap(r, call.user, call.id)] = before.dir[Snap(r, call.user, call.id)]
    BY <1>1, <2>1, <2>3 DEF Inv, Restoring
  <2>5. \A r \in Storages : Rolls(r) <=> NeedsRollback(r, call)
    BY <2>4 DEF Rolls, NeedsRollback, Exists
  <2>6. RestoredSoFar(s)
    BY <1>1, <2>1, <2>5 DEF Inv, Restoring
  <2>7. ~Has(todo, "clear", d) /\ ~Has(todo, "copy", d)
    BY <2>1, NothingLeft
  <2>8. \/ ~Rolls(s) /\ dir[d] = Wiped(before.dir[d])
        \/ Rolls(s) /\ dir[d] = before.dir[from]
    BY <2>6, <2>7 DEF RestoredSoFar
  <2> QED
    BY <1>1, <2>4, <2>5, <2>8 DEF Wiped
<1> DEFINE A == Ends("restore", {"ok"}) /\ (\E s \in Storages : NeedsRollback(s, call)) =>
                  \A s \in call.flags \cap Storages :
                    LET d == Data(s, Internal, call.user) IN
                      dir[d] = IF NeedsRollback(s, call) THEN dir[Snap(s, call.user, call.id)]
                               ELSE IF before.dir[d] = Missing THEN Missing ELSE Empty
<1>2. Inv /\ [Next]_vars => [A]_vars
  BY <1>1
<1> QED
  BY <1>2, Invariance, PTL DEF Spec, RestoreIsExact

(* Files taken from directories of one time are of one time.               *)
LEMMA TimesKept ==
  ASSUME NEW v, NEW w, NEW a, NEW b, NEW c, NEW d,
         PartOf(v[a], w[c]), PartOf(v[b], w[d]), OneTime(w, {c, d})
  PROVE  OneTime(v, {a, b})
<1>1. ASSUME NEW x \in Files, v[a] # Missing, v[a][x] # 0 PROVE w[c] # Missing /\ v[a][x] = w[c][x]
  BY <1>1 DEF PartOf
<1>2. ASSUME NEW x \in Files, v[b] # Missing, v[b][x] # 0 PROVE w[d] # Missing /\ v[b][x] = w[d][x]
  BY <1>2 DEF PartOf
<1> QED
  BY <1>1, <1>2 DEF OneTime

(* NeverMismatched: however a restore of both storages ends, the app is    *)
(* not left with files of two times.                                       *)
THEOREM DataUnmixed == Spec => NeverMismatched
<1> DEFINE D(s) == Data(s, Internal, call.user)
           S(s) == Snap(s, call.user, call.id)
           data == {D(s) : s \in Storages}
           kept == {S(s) : s \in Storages}
<1>1. ASSUME Inv, [Next]_vars, Ends("restore", {"ok", "error", "died"}), Storages \subseteq call.flags,
             OneTime(before.dir, data), OneTime(before.dir, kept)
      PROVE  OneTime(dir', data)
  <2>1. call.op = "restore" /\ Running
    BY <1>1, Ending
  <2>2. \/ \A s \in Storages : PartOf(dir'[D(s)], before.dir[D(s)])
        \/ \A s \in Storages : PartOf(dir'[D(s)], before.dir[S(s)])
    <3>1. CASE Return /\ dir' = dir
      <4>1. AsBefore \/ FromSnapshot
        BY <1>1, <2>1 DEF Inv, Unmixed
      <4> QED
        BY <3>1, <4>1 DEF AsBefore, FromSnapshot
    <3>2. CASE todo # <<>> /\ Halfway(Head(todo))
      BY <1>1, <2>1, <3>2, HalfUnmixed
    <3> QED
      BY <1>1, <3>1, <3>2, Ending
  <2>3. data = {D("ce"), D("de")} /\ kept = {S("ce"), S("de")} /\ "ce" \in Storages /\ "de" \in Storages
    BY DEF Storages
  <2> DEFINE b == before.dir
             w == dir'
  <2>4. OneTime(b, {D("ce"), D("de")}) /\ OneTime(b, {S("ce"), S("de")})
    BY <1>1, <2>3
  <2> HIDE DEF D, S, b, w, data, kept
  <2>5. \/ PartOf(w[D("ce")], b[D("ce")]) /\ PartOf(w[D("de")], b[D("de")])
        \/ PartOf(w[D("ce")], b[S("ce")]) /\ PartOf(w[D("de")], b[S("de")])
    BY <2>2, <2>3 DEF b, w
  <2>6. OneTime(w, {D("ce"), D("de")})
    BY <2>4, <2>5, TimesKept
  <2> QED
    BY <2>3, <2>6 DEF w
<1> DEFINE A == Ends("restore", {"ok", "error", "died"}) /\ Storages \subseteq call.flags =>
                  (OneTime(before.dir, data) /\ OneTime(before.dir, kept) => OneTime(dir', data))
<1>2. Inv /\ [Next]_vars => [A]_vars
  BY <1>1
<1> QED
  BY <1>2, Invariance, PTL DEF Spec, NeverMismatched

(* MigrationKeepsDefault: however a migration ends, the data of the        *)
(* default storage is complete in one of the two places, and in the one    *)
(* asked for when it returned ok.                                          *)
THEOREM DefaultKept == Spec => MigrationKeepsDefault
<1> DEFINE kept == DefaultOf(before, call.vol, call.user)
           at(s) == dir'[Data(s, call.vol, call.user)]
<1>1. ASSUME Inv, [Next]_vars, Ends("migrate", {"ok", "error", "died"})
      PROVE  /\ kept \in {at("ce"), at("de")}
             /\ status' = "ok" => kept = at(IF "de" \in call.flags THEN "de" ELSE "ce")
  <2>1. call.op = "migrate" /\ Running
    BY <1>1, Ending
  <2>2. CASE todo = <<>> /\ dir' = dir /\ status' = IF status = "running" THEN "ok" ELSE "error"
    <3>1. ~HasOp(todo, "rename")
      BY <2>2, NothingLeft
    <3>2. \/ status = "running" /\ dir[Data(Target(call), call.vol, call.user)] = kept
          \/ status = "failing" /\ kept \in {dir[Data("ce", call.vol, call.user)],
                                             dir[Data("de", call.vol, call.user)]}
      BY <1>1, <2>1, <3>1 DEF Inv, Migrating
    <3> HIDE DEF kept
    <3> QED
      BY <2>2, <3>2 DEF Target
  <2>3. CASE todo # <<>> /\ Halfway(Head(todo)) /\ status' = "died"
    BY <1>1, <2>1, <2>3, HalfMigrated
  <2> QED
    BY <1>1, <2>2, <2>3, Ending
<1> DEFINE A == Ends("migrate", {"ok", "error", "died"}) =>
                  /\ kept \in {at("ce"), at("de")}
                  /\ status' = "ok" => kept = at(IF "de" \in call.flags THEN "de" ELSE "ce")
<1>2. Inv /\ [Next]_vars => [A]_vars
  BY <1>1
<1> QED
  BY <1>2, Invariance, PTL DEF Spec, MigrationKeepsDefault

(* MoveIsExact: a move that returned ok has copied the app and the data of *)
(* every user who had any.                                                 *)
LEMMA MovesExact == Spec => MoveIsExact
<1> DEFINE new == MoveDirs(call.to, call)
<1>1. ASSUME Inv, [Next]_vars, Ends("move", {"ok"}), \A d \in new : before.dir[d] = Missing
      PROVE  /\ dir[App(call.to)] = dir[App(call.vol)]
             /\ \A u \in UserIds, s \in Storages :
                  Data(s, call.to, u) \in new =>
                    dir[Data(s, call.to, u)] = before.dir[Data(s, call.vol, u)]
  <2>1. call.op = "move" /\ Running /\ todo = <<>> /\ status = "running"
    BY <1>1, Ending
  <2>2. ASSUME NEW u \in UserIds, NEW s \in Storages, Data(s, call.to, u) \in new
        PROVE  before.dir[Data("ce", call.vol, u)] # Missing
    BY <2>2, Names DEF MoveDirs, Storages
  <2>3. CASE call.to = call.vol
    <3>1. ASSUME NEW u \in UserIds, NEW s \in Storages, Data(s, call.to, u) \in new PROVE FALSE
      <4>1. before.dir[Data("ce", call.vol, u)] # Missing
        BY <2>2, <3>1
      <4>2. Data("ce", call.to, u) \in new
        BY <4>1 DEF MoveDirs, Storages
      <4> QED
        BY <1>1, <2>3, <4>1, <4>2
    <3> QED
      BY <2>3, <3>1
  <2>4. CASE call.to # call.vol
    <3>1. /\ Copied(App(call.to), App(call.vol))
          /\ \A s \in Storages, u \in UserIds :
               before.dir[Data("ce", call.vol, u)] # Missing =>
                 Copied(Data(s, call.to, u), Data(s, call.vol, u))
      BY <1>1, <2>1, <2>4 DEF Inv, MovedSoFar
    <3>2. \A e : ~Has(todo, "copy", e)
      BY <2>1, NothingLeft
    <3> HIDE DEF new
    <3> QED
      BY <2>2, <3>1, <3>2 DEF Copied
  <2> QED
    BY <2>3, <2>4
<1> DEFINE A == Ends("move", {"ok"}) /\ (\A d \in new : before.dir[d] = Missing) =>
                  /\ dir[App(call.to)] = dir[App(call.vol)]
                  /\ \A u \in UserIds, s \in Storages :
                       Data(s, call.to, u) \in new =>
                         dir[Data(s, call.to, u)] = before.dir[Data(s, call.vol, u)]
<1>2. Inv /\ [Next]_vars => [A]_vars
  BY <1>1
<1> QED
  BY <1>2, Invariance, PTL DEF Spec, MoveIsExact

(* FailedMoveLeavesNothing: one that failed, and whose deletions did not,  *)
(* has left nothing of the app.                                            *)
LEMMA FailedMovesGone == Spec => FailedMoveLeavesNothing
<1>1. ASSUME Inv, [Next]_vars, Ends("move", {"error"}), ~botched, NEW d \in MoveDirs(call.to, call)
      PROVE  dir[d] = Missing
  <2>1. call.op = "move" /\ Running /\ todo = <<>> /\ status # "running"
    BY <1>1, Ending
  <2>2. status = "failing"
    BY <1>1, <2>1 DEF Inv, MovedSoFar, Running
  <2>3. d \in NewDirs(call)
    BY <1>1 DEF MoveDirs, NewDirs
  <2>4. ~Has(todo, "delete", d)
    BY <2>1, NothingLeft
  <2> QED
    BY <1>1, <2>1, <2>2, <2>3, <2>4 DEF Inv, MovedSoFar
<1> DEFINE A == Ends("move", {"error"}) /\ ~botched => \A d \in MoveDirs(call.to, call) : dir[d] = Missing
<1>2. Inv /\ [Next]_vars => [A]_vars
  BY <1>1
<1> QED
  BY <1>2, Invariance, PTL DEF Spec, FailedMoveLeavesNothing

(* MoveSound: a move of an app to another volume is complete or undone.    *)
THEOREM MovesSound == Spec => MoveSound
BY MovesExact, FailedMovesGone DEF MoveSound
=============================================================================
