------------------------------ MODULE AppData ------------------------------
(***************************************************************************)
(* installd's operations on the data of one app                            *)
(* (src/installd/InstalldNativeService.cpp): creation, migration between   *)
(* credential and device encrypted storage (CE, DE), clearing and          *)
(* destruction, snapshots and their restoration, and the move of an app to *)
(* another volume.                                                         *)
(*                                                                         *)
(* A call holds mLock from beginning to end, so calls do not interleave;   *)
(* what makes them hard is that each is a series of steps on directories,  *)
(* any of which may fail half way, and that installd may die between any   *)
(* two (or the battery be pulled).  A call is therefore a program of       *)
(* steps, run one at a time; a step says what a failure of it does.        *)
(*                                                                         *)
(* A directory is Missing or has contents: each file is absent (0) or of   *)
(* the version of the app's data it was written with.  Caches are not      *)
(* contents.  The package manager stops an app before it has its data      *)
(* moved about, so apps write between calls only.                          *)
(***************************************************************************)
EXTENDS Integers, Sequences, FiniteSets, SequencesExt

CONSTANTS
  Volumes,     \* storage volumes
  Internal,    \* the one whose uuid is null
  Users,       \* the known users, in the order they are found
  Having,      \* the sets of users that may have data of the app at first
  Snapshots,   \* snapshot ids
  Files,       \* the files of an app in one directory
  Repertoires, \* sets of calls, one of which the package manager makes
  MaxCalls, MaxFaults, MaxDeaths, MaxVersion,   \* bounds
  Missing

UserIds == {Users[i] : i \in DOMAIN Users}

ASSUME BoundsAssumption ==
  /\ MaxCalls \in Nat /\ MaxFaults \in Nat /\ MaxDeaths \in Nat /\ MaxVersion \in Nat
  /\ Internal \in Volumes /\ Users \in Seq(UserIds) /\ Missing \notin [Files -> Nat]

(* The directories of the app.                                             *)
App(v) == <<"app", v>>
Data(s, v, u) == <<s, v, u>>
Snap(s, u, id) == <<"snapshot", s, u, id>>
Cur(u) == <<"cur", u>>
Ref == <<"ref">>
Ext(u) == <<"ext", u>>
Storages == {"ce", "de"}

Dirs ==
  {App(v) : v \in Volumes} \cup {Data(s, v, u) : s \in Storages, v \in Volumes, u \in UserIds}
  \cup {Snap(s, u, id) : s \in Storages, u \in UserIds, id \in Snapshots}
  \cup {Cur(u) : u \in UserIds} \cup {Ref} \cup {Ext(u) : u \in UserIds}

Empty == [f \in Files |-> 0]

VARIABLES
  dir,       \* the directories
  default,   \* those marked with the xattr user.default
  calls,     \* the calls that are made
  call,      \* the call in progress or last made
  todo,      \* what is left of its program
  status,    \* "none", "running", "ok", "error" or "died"
  version,   \* of the app's data
  made, faults, deaths,   \* counts, for the bounds
  before,    \* history: the directories and marks when the call was made
  taken,     \* history: per snapshot directory, what a successful call saved
  botched    \* history: a clean-up failed

world == <<dir, default>>
history == <<before, taken, botched>>
vars == <<world, calls, call, todo, status, version, made, faults, deaths, history>>

Exists(d) == dir[d] # Missing

----------------------------------------------------------------------------
(* Steps.  fail: "return" runs undo and returns the error, "note" goes on  *)
(* and returns it at the end, "ignore" goes on.  A step aside changes no   *)
(* contents: security labels, inode numbers, parent folders.               *)
Step(op, at, from, fail, undo) ==
  [op |-> op, at |-> at, from |-> from, fail |-> fail, undo |-> undo]

Prepare(d, undo) == <<Step("prepare", d, d, "return", undo)>>
Clear(d, fail) == <<Step("clear", d, d, fail, <<>>)>>
Delete(d, fail) == <<Step("delete", d, d, fail, <<>>)>>
DeleteIfThere(d, fail) == <<Step("delete_if_there", d, d, fail, <<>>)>>
Copy(from, to, undo) == <<Step("copy", to, from, "return", undo)>>
Aside(d, fail, undo) == <<Step("aside", d, d, fail, undo)>>
ReturnIfError == <<Step("check", Ref, Ref, "ignore", <<>>)>>

(* What a step needs to succeed, and what it leaves when it does.          *)
Possible(s) ==
  /\ s.op \in {"delete", "mark"} => Exists(s.at)
  /\ s.op \in {"copy", "rename"} => Exists(s.from)

Merge(c, d) == [f \in Files |-> IF c[f] # 0 THEN c[f] ELSE IF d = Missing THEN 0 ELSE d[f]]

(* An xattr goes with its directory.                                       *)
MarksAfterRename(s) == {IF d = s.from THEN s.at ELSE d : d \in default}

Succeeds(s) ==
  CASE s.op = "prepare" ->
         /\ dir' = [dir EXCEPT ![s.at] = IF @ = Missing THEN Empty ELSE @]
         /\ UNCHANGED default
    [] s.op = "clear" ->
         /\ dir' = [dir EXCEPT ![s.at] = IF @ = Missing THEN Missing ELSE Empty]
         /\ UNCHANGED default
    [] s.op \in {"delete", "delete_if_there"} ->
         /\ dir' = [dir EXCEPT ![s.at] = Missing]
         /\ default' = default \ {s.at}
    [] s.op = "copy" ->
         /\ dir' = [dir EXCEPT ![s.at] = Merge(dir[s.from], @)]
         /\ UNCHANGED default
    [] s.op = "rename" ->
         /\ dir' = [dir EXCEPT ![s.at] = dir[s.from], ![s.from] = Missing]
         /\ default' = MarksAfterRename(s)
    [] s.op = "mark" ->
         /\ default' = default \cup {s.at} /\ UNCHANGED dir
    [] s.op \in {"aside", "check"} -> UNCHANGED world

(* What it may leave when it fails or is interrupted: deletion and copying *)
(* have got anywhere, a file that cp was about to replace may be gone.     *)
Halfway(s) ==
  /\ UNCHANGED default
  /\ \/ UNCHANGED dir
     \/ /\ s.op = "prepare" /\ ~Exists(s.at)
        /\ dir' = [dir EXCEPT ![s.at] = Empty]
     \/ /\ s.op \in {"clear", "delete", "delete_if_there"} /\ Exists(s.at)
        /\ \E kept \in SUBSET Files :
             dir' = [dir EXCEPT ![s.at] = [f \in Files |-> IF f \in kept THEN @[f] ELSE 0]]
     \/ /\ s.op = "copy" /\ Exists(s.from)
        /\ \E done, gone \in SUBSET {f \in Files : dir[s.from][f] # 0} :
             dir' = [dir EXCEPT ![s.at] =
                       [f \in Files |-> IF f \in done THEN dir[s.from][f]
                                        ELSE IF f \in gone \/ @ = Missing THEN 0 ELSE @[f]]]

----------------------------------------------------------------------------
(* The programs of the calls.  c.flags are the storages asked for.         *)

ForAll(S, F(_)) == FlattenSeq([i \in 1..Len(S) |-> F(S[i])])
When(b, steps) == IF b THEN steps ELSE <<>>

createSteps(v, u, flags, undo) ==
  When("ce" \in flags, Prepare(Data("ce", v, u), undo) \o Aside(Data("ce", v, u), "return", undo))
  \o When("de" \in flags,
          Prepare(Data("de", v, u), undo) \o Aside(Data("de", v, u), "return", undo)
          \o Prepare(Cur(u), undo) \o Prepare(Ref, undo))

createAppData(c) == createSteps(c.vol, c.user, c.flags, <<>>)

(* "If neither directory is marked as default, assume CE is default."      *)
Default(v, u) ==
  LET marked == {s \in Storages : Data(s, v, u) \in default} IN
    IF marked = {} THEN {"ce"} ELSE marked

Target(c) == IF "de" \in c.flags THEN "de" ELSE "ce"
Source(c) == IF "de" \in c.flags THEN "ce" ELSE "de"

(* Mutant: the requested storage is taken to be inactive.                  *)
MigrateAlways(c) ==
  LET D(s) == Data(s, c.vol, c.user) IN
    Delete(D(Target(c)), "return")
    \o <<Step("rename", D(Target(c)), D(Source(c)), "return", <<>>)>>

migrateAppData(c) ==
  LET D(s) == Data(s, c.vol, c.user) IN
    When(default \cap {D("ce"), D("de")} = {},
         <<Step("mark", D("ce"), D("ce"), "return", <<>>)>>)
    \o When(Target(c) \notin Default(c.vol, c.user),
            Delete(D(Target(c)), "return")
            \o <<Step("rename", D(Target(c)), D(Source(c)), "return", <<>>)>>)

clearSteps(v, u, flags) ==
  When("ce" \in flags, Clear(Data("ce", v, u), "note"))
  \o When("de" \in flags, Clear(Data("de", v, u), "note"))
  \o When("ext" \in flags, Clear(Ext(u), "note"))

clearAppData(c) == clearSteps(c.vol, c.user, c.flags)

destroyAppProfiles(c) ==
  ForAll(Users, LAMBDA u : DeleteIfThere(Cur(u), "note")) \o DeleteIfThere(Ref, "note")

destroyAppData(c) ==
  When("ce" \in c.flags, Delete(Data("ce", c.vol, c.user), "note"))
  \o When("de" \in c.flags,
          Delete(Data("de", c.vol, c.user), "note")
          \o DeleteIfThere(Cur(c.user), "ignore") \o DeleteIfThere(Ref, "ignore"))
  \o When("ext" \in c.flags, DeleteIfThere(Ext(c.user), "note"))

(* Mutant: the old snapshot is not cleared.                                *)
SnapshotOver(s, c) ==
  LET to == Snap(s, c.user, c.id) IN
    Copy(Data(s, Internal, c.user), to, Delete(to, "ignore"))

(* One storage of a snapshot: the folder, whose making may fail, what was  *)
(* there before, and the copy.                                             *)
SnapshotOf(s, c) ==
  LET to == Snap(s, c.user, c.id) IN
    Aside(to, "return", <<>>) \o Clear(to, "return")
    \o Copy(Data(s, Internal, c.user), to, Delete(to, "ignore"))

(* "The app may not have any data at all, in which case it's OK to skip"   *)
snapshotAppData(c) ==
  When(Exists(Data("ce", Internal, c.user)),
       When("de" \in c.flags, SnapshotOf("de", c))
       \o When("ce" \in c.flags,
               SnapshotOf("ce", c)
               \o Aside(Snap("ce", c.user, c.id), "return",
                        Delete(Snap("ce", c.user, c.id), "ignore"))))

NeedsRollback(s, c) == s \in c.flags /\ Exists(Snap(s, c.user, c.id))

(* Mutants: nothing is cleared first, or each storage when its turn comes. *)
RestoreOver(c) ==
  When(NeedsRollback("ce", c), Copy(Snap("ce", c.user, c.id), Data("ce", Internal, c.user), <<>>))
  \o When(NeedsRollback("de", c), Copy(Snap("de", c.user, c.id), Data("de", Internal, c.user), <<>>))
RestoreInTurn(c) ==
  LET One(s) == When(s \in c.flags, Clear(Data(s, Internal, c.user), "return"))
                \o When(NeedsRollback(s, c),
                        Copy(Snap(s, c.user, c.id), Data(s, Internal, c.user), <<>>))
  IN When(\E s \in Storages : NeedsRollback(s, c), One("ce") \o One("de"))

restoreAppDataSnapshot(c) ==
  LET ce == NeedsRollback("ce", c)
      de == NeedsRollback("de", c)
      Back(s, undo) == Copy(Snap(s, c.user, c.id), Data(s, Internal, c.user), undo)
  IN When(ce \/ de,
       clearSteps(Internal, c.user, c.flags) \o ReturnIfError
       \o When(ce, Back("ce", <<>>))
       \o When(de, Back("de", When(ce, Delete(Data("ce", Internal, c.user), "ignore"))))
       \o Aside(Ref, "note", <<>>))

destroyAppDataSnapshot(c) ==
  When("de" \in c.flags, DeleteIfThere(Snap("de", c.user, c.id), "return"))
  \o When("ce" \in c.flags, DeleteIfThere(Snap("ce", c.user, c.id), "return"))

(* Mutant: the last user is forgotten.                                     *)
NukeButLast(c) ==
  Delete(App(c.to), "ignore")
  \o ForAll(Front(Users), LAMBDA u : Delete(Data("de", c.to, u), "ignore")
                                    \o Delete(Data("ce", c.to, u), "ignore"))

(* What a failed move deletes.                                             *)
Nuke(c) ==
  Delete(App(c.to), "ignore")
  \o ForAll(Users, LAMBDA u : Delete(Data("de", c.to, u), "ignore")
                              \o Delete(Data("ce", c.to, u), "ignore"))

MoveUser(c, u) ==
  When(Exists(Data("ce", c.vol, u)),
       createSteps(c.to, u, Storages, Nuke(c))
       \o Copy(Data("de", c.vol, u), Data("de", c.to, u), Nuke(c))
       \o Copy(Data("ce", c.vol, u), Data("ce", c.to, u), Nuke(c))
       \o Aside(Data("ce", c.to, u), "return", Nuke(c)))

moveCompleteApp(c) ==
  Copy(App(c.vol), App(c.to), Nuke(c)) \o Aside(App(c.to), "return", Nuke(c))
  \o ForAll(Users, LAMBDA u : MoveUser(c, u))

destroyUserData(c) ==
  When("de" \in c.flags,
       DeleteIfThere(Data("de", c.vol, c.user), "note")
       \o When(c.vol = Internal, DeleteIfThere(Cur(c.user), "note")))
  \o When("ce" \in c.flags,
          DeleteIfThere(Data("ce", c.vol, c.user), "note")
          \o DeleteIfThere(Ext(c.user), "note"))

Program(c) ==
  CASE c.op = "create" -> createAppData(c)
    [] c.op = "migrate" -> migrateAppData(c)
    [] c.op = "clear" -> clearAppData(c)
    [] c.op = "destroy" -> destroyAppData(c)
    [] c.op = "profiles" -> destroyAppProfiles(c)
    [] c.op = "snapshot" -> snapshotAppData(c)
    [] c.op = "restore" -> restoreAppDataSnapshot(c)
    [] c.op = "forget" -> destroyAppDataSnapshot(c)
    [] c.op = "move" -> moveCompleteApp(c)
    [] c.op = "destroy_user" -> destroyUserData(c)

----------------------------------------------------------------------------
(* Running *)

Running == status \in {"running", "noted", "failing"}

Init ==
  /\ \E having \in Having :
       dir = [d \in Dirs |->
                IF \/ d = App(Internal)
                   \/ \E s \in Storages, u \in having : d = Data(s, Internal, u)
                  THEN [f \in Files |-> 1] ELSE Missing]
  /\ calls \in Repertoires /\ default = {} /\ call = [op |-> "none"] /\ todo = <<>> /\ status = "none"
  /\ version = 1 /\ made = 0 /\ faults = 0 /\ deaths = 0
  /\ before = [dir |-> dir, default |-> default] /\ taken = [d \in Dirs |-> Missing]
  /\ botched = FALSE

(* The snapshot directories a call works on.                               *)
SnapDirs(c) == {Snap(s, c.user, c.id) : s \in c.flags}

Begin(c) ==
  /\ ~Running /\ made < MaxCalls
  /\ call' = c /\ todo' = Program(c) /\ status' = "running" /\ made' = made + 1
  /\ before' = [dir |-> dir, default |-> default] /\ botched' = FALSE
  /\ taken' = IF c.op \in {"snapshot", "forget"}
                THEN [d \in Dirs |-> IF d \in SnapDirs(c) THEN Missing ELSE taken[d]]
                ELSE taken
  /\ UNCHANGED <<world, calls, version, faults, deaths>>

(* The next step succeeds.                                                 *)
StepDone ==
  /\ Running /\ todo # <<>> /\ Possible(Head(todo))
  /\ Succeeds(Head(todo))
  /\ IF Head(todo).op = "check" /\ status = "noted"
       THEN todo' = <<>> ELSE todo' = Tail(todo)
  /\ UNCHANGED <<calls, call, status, version, made, faults, deaths, history>>

StepFails ==
  /\ Running /\ todo # <<>> /\ Head(todo).op # "check"
  /\ IF Possible(Head(todo)) THEN faults < MaxFaults /\ faults' = faults + 1
                             ELSE UNCHANGED faults
  /\ Halfway(Head(todo))
  /\ CASE Head(todo).fail = "return" -> status' = "failing" /\ todo' = Head(todo).undo
       [] Head(todo).fail = "note" -> status' = "noted" /\ todo' = Tail(todo)
       [] Head(todo).fail = "ignore" -> todo' = Tail(todo) /\ UNCHANGED status
  /\ botched' = (botched \/ (status = "failing" /\ Possible(Head(todo))))
  /\ UNCHANGED <<calls, call, version, made, deaths, before, taken>>

Return ==
  /\ Running /\ todo = <<>>
  /\ status' = IF status = "running" THEN "ok" ELSE "error"
  /\ IF call.op = "snapshot" /\ status = "running" /\ before.dir[Data("ce", Internal, call.user)] # Missing
       THEN taken' = [d \in Dirs |->
                        IF d \in SnapDirs(call) THEN before.dir[Data(d[2], Internal, call.user)]
                                                ELSE taken[d]]
       ELSE UNCHANGED taken
  /\ UNCHANGED <<world, calls, call, todo, version, made, faults, deaths, before, botched>>

(* installd dies in the middle of a step; init starts it again.            *)
Die ==
  /\ Running /\ todo # <<>> /\ deaths < MaxDeaths
  /\ Halfway(Head(todo))
  /\ status' = "died" /\ todo' = <<>> /\ deaths' = deaths + 1
  /\ UNCHANGED <<calls, call, version, made, faults, history>>

(* Between calls the app of a user runs, and has its data afresh in both   *)
(* storages: any of its files may be there.                                *)
AppRuns(u) ==
  /\ ~Running /\ version < MaxVersion
  /\ \A s \in Storages : Exists(Data(s, Internal, u))
  /\ version' = version + 1
  /\ \E files \in SUBSET Files :
       dir' = [d \in Dirs |->
                 IF \E s \in Storages : d = Data(s, Internal, u)
                   THEN [f \in Files |-> IF f \in files THEN version' ELSE 0]
                   ELSE dir[d]]
  /\ UNCHANGED <<default, calls, call, todo, status, made, faults, deaths, history>>

Next ==
  \/ \E c \in calls : Begin(c)
  \/ StepDone \/ StepFails \/ Return \/ Die
  \/ \E u \in UserIds : AppRuns(u)

Spec == Init /\ [][Next]_vars

----------------------------------------------------------------------------
(* Properties *)

Ends(op, r) == Running /\ call.op = op /\ status' \in r

(* A snapshot for which installd returned ok is what the app's directory   *)
(* held, no more and no less, until another call on it is made.            *)
SnapshotIsExact == \A d \in Dirs : taken[d] # Missing => dir[d] = taken[d]

(* A restore that returned ok leaves in every storage it was asked for     *)
(* exactly what the snapshot holds, or nothing if it holds nothing.        *)
RestoreIsExact ==
  [][Ends("restore", {"ok"}) /\ (\E s \in Storages : NeedsRollback(s, call)) =>
       \A s \in call.flags \cap Storages :
         LET d == Data(s, Internal, call.user) IN
           dir[d] = IF NeedsRollback(s, call) THEN dir[Snap(s, call.user, call.id)]
                    ELSE IF before.dir[d] = Missing THEN Missing ELSE Empty]_vars

(* In w, all files in the directories ds are of one time.                  *)
OneTime(w, ds) ==
  \A d, e \in ds : w[d] # Missing /\ w[e] # Missing =>
    \A x, y \in Files : w[d][x] # 0 /\ w[e][y] # 0 => w[d][x] = w[e][y]

(* "Leaving the app with no data in those cases is arguably better than    *)
(* leaving the app with mismatched / stale data": however a restore of     *)
(* both storages ends, in success, failure or a crash, the app is not left *)
(* with files of two times, if neither its data nor the snapshot were.     *)
NeverMismatched ==
  [][Ends("restore", {"ok", "error", "died"}) /\ Storages \subseteq call.flags =>
       LET data == {Data(s, Internal, call.user) : s \in Storages}
           kept == {Snap(s, call.user, call.id) : s \in Storages}
       IN OneTime(before.dir, data) /\ OneTime(before.dir, kept) => OneTime(dir', data)]_vars

(* However a migration ends, the data of the default storage is complete   *)
(* in one of the two places, and in the one asked for when it returned ok. *)
DefaultOf(w, v, u) ==
  IF Data("de", v, u) \in w.default THEN w.dir[Data("de", v, u)] ELSE w.dir[Data("ce", v, u)]
MigrationKeepsDefault ==
  [][Ends("migrate", {"ok", "error", "died"}) =>
       LET kept == DefaultOf(before, call.vol, call.user)
           at(s) == dir'[Data(s, call.vol, call.user)]
       IN /\ kept \in {at("ce"), at("de")}
          /\ status' = "ok" => kept = at(IF "de" \in call.flags THEN "de" ELSE "ce")]_vars

(* A move that returned ok has made, for every user with data, a copy of   *)
(* the app and its data at the new place, where nothing was before.        *)
MoveDirs(v, c) ==
  {App(v)} \cup {Data(s, v, u) : s \in Storages, u \in {u \in UserIds :
                                before.dir[Data("ce", c.vol, u)] # Missing}}
MoveIsExact ==
  [][Ends("move", {"ok"}) /\ (\A d \in MoveDirs(call.to, call) : before.dir[d] = Missing) =>
       /\ dir[App(call.to)] = dir[App(call.vol)]
       /\ \A u \in UserIds, s \in Storages :
            Data(s, call.to, u) \in MoveDirs(call.to, call) =>
              dir[Data(s, call.to, u)] = before.dir[Data(s, call.vol, u)]]_vars

(* "Nuke everything we might have already copied": a move that failed      *)
(* leaves nothing at the new place, unless the deletion failed as well.    *)
FailedMoveLeavesNothing ==
  [][Ends("move", {"error"}) /\ ~botched =>
       \A d \in MoveDirs(call.to, call) : dir[d] = Missing]_vars

(* moveCompleteApp does all or nothing: MoveIsExact and                    *)
(* FailedMoveLeavesNothing.                                                *)
MoveSound == MoveIsExact /\ FailedMoveLeavesNothing

----------------------------------------------------------------------------
(* What the proofs rest on.                                                *)

Contents == [Files -> Nat] \cup {Missing}
Call == [op : {"create", "migrate", "clear", "destroy", "profiles", "snapshot", "restore",
               "forget", "move", "destroy_user"},
         vol : Volumes, user : UserIds, flags : SUBSET {"ce", "de", "ext"},
         id : Snapshots, to : Volumes]
Undo == [op : {"delete"}, at : Dirs, from : Dirs, fail : {"ignore"}, undo : {<<>>}]
Steps == [op : {"prepare", "clear", "delete", "delete_if_there", "copy", "rename", "mark",
                "aside", "check"},
          at : Dirs, from : Dirs, fail : {"return", "note", "ignore"}, undo : Seq(Undo)]

ASSUME CallsAssumption == \A cs \in Repertoires : cs \subseteq Call

TypeOK ==
  /\ dir \in [Dirs -> Contents] /\ default \subseteq Dirs
  /\ before \in [dir : [Dirs -> Contents], default : SUBSET Dirs] /\ taken \in [Dirs -> Contents]
  /\ calls \subseteq Call /\ (Running => call \in Call) /\ todo \in Seq(Steps)
  /\ status \in {"none", "running", "noted", "failing", "ok", "error", "died"} /\ version \in Nat

(* What a call may undo, and the steps of its program: which directories   *)
(* they are about, and what becomes of the call when they fail.            *)
NewDirs(c) == {App(c.to)} \cup {Data(s, c.to, u) : s \in Storages, u \in UserIds}
UndoOf(c) ==
  {y \in Undo : /\ y.at[1] = "snapshot" => c.op = "snapshot" /\ y.at \in SnapDirs(c)
                /\ c.op = "snapshot" => y.at \in SnapDirs(c)
                /\ c.op = "migrate" => FALSE}

SnapshotStep(c, x) ==
  /\ x.op \in {"aside", "clear", "copy"} /\ x.at \in SnapDirs(c) /\ x.fail = "return"
  /\ x.op = "copy" => x.from = Data(x.at[2], Internal, c.user)
RestoreStep(c, x) ==
  /\ x.op \in {"clear", "check", "copy", "aside"} /\ (x.fail = "return" => x.op = "copy")
  /\ x.fail = "ignore" => x.op = "check"
  /\ x.op = "copy" => \E s \in Storages : /\ x.at = Data(s, Internal, c.user)
                                          /\ x.from = Snap(s, c.user, c.id)
MigrateStep(c, x) ==
  LET D(s) == Data(s, c.vol, c.user) IN
    /\ \/ x.op = "mark" /\ x.at = D("ce")
       \/ x.op = "delete" /\ x.at = D(Target(c))
       \/ x.op = "rename" /\ x.at = D(Target(c)) /\ x.from = D(Source(c))
    /\ x.fail = "return"
MoveStep(c, x) ==
  /\ x.op \in {"prepare", "copy", "aside"} /\ x.fail = "return"
  /\ x.at \in NewDirs(c) \cup {Ref} \cup {Cur(u) : u \in UserIds}
  /\ x.op = "copy" => \/ x.at = App(c.to) /\ x.from = App(c.vol)
                      \/ \E s \in Storages, u \in UserIds :
                           x.at = Data(s, c.to, u) /\ x.from = Data(s, c.vol, u)
  /\ \A d \in NewDirs(c) : \E y \in ToSet(x.undo) : y.at = d

StepsOf(c) ==
  {x \in Steps : /\ x.undo \in Seq(UndoOf(c))
                 /\ x.at[1] = "snapshot" => c.op \in {"snapshot", "forget"} /\ x.at \in SnapDirs(c)
                 /\ x.op \in {"mark", "rename"} => c.op = "migrate"
                 /\ c.op = "snapshot" => SnapshotStep(c, x)
                 /\ c.op = "restore" => RestoreStep(c, x)
                 /\ c.op = "migrate" => MigrateStep(c, x)
                 /\ c.op = "move" => MoveStep(c, x)}

(* Nothing is cleared once it is copied, copying waits for the check, and  *)
(* a rename comes last.                                                    *)
InOrder(x, y) ==
  /\ x.op = "copy" => y.op # "check" /\ ~(y.op = "clear" /\ y.at = x.at)
  /\ x.op = "check" => y.op # "clear"
  /\ x.op # "rename"
Ordered(steps) == \A i, j \in DOMAIN steps : i < j => InOrder(steps[i], steps[j])

ProgramLeft ==
  /\ status \in {"running", "noted"} => todo \in Seq(StepsOf(call))
  /\ status = "failing" => todo \in Seq(UndoOf(call))
  /\ Running /\ call.op \in {"snapshot", "restore", "migrate"} => Ordered(todo)

(* Only snapshots are taken, and what is being taken or forgotten is not.  *)
TakenKnown ==
  /\ \A d \in Dirs : taken[d] # Missing => d[1] = "snapshot"
  /\ Running /\ call.op \in {"snapshot", "forget"} =>
       \A d \in Dirs \cap SnapDirs(call) : taken[d] = Missing

(* There is a step of this kind.                                           *)
Has(steps, op, d) == \E x \in ToSet(steps) : x.op = op /\ x.at = d
HasOp(steps, op) == \E x \in ToSet(steps) : x.op = op

Snapshotting ==
  status = "running" /\ call.op = "snapshot" /\ before.dir[Data("ce", Internal, call.user)] # Missing =>
    \A s \in call.flags \cap Storages :
      LET d == Data(s, Internal, call.user)
          to == Snap(s, call.user, call.id)
      IN /\ dir[d] = before.dir[d]
         /\ Has(todo, "copy", to) \/ (~Has(todo, "clear", to) /\ dir[to] = before.dir[d])
         /\ Has(todo, "clear", to) \/ dir[to] \in {Missing, Empty, before.dir[d]}

(* What a restore is to bring back, and what it has.                       *)
Rolls(s) == s \in call.flags /\ before.dir[Snap(s, call.user, call.id)] # Missing
Wiped(c) == IF c = Missing THEN Missing ELSE Empty
RestoredSoFar(s) ==
  LET d == Data(s, Internal, call.user) IN
    \/ Has(todo, "clear", d) /\ dir[d] = before.dir[d] /\ (Rolls(s) => Has(todo, "copy", d))
    \/ dir[d] = Wiped(before.dir[d]) /\ (Rolls(s) => Has(todo, "copy", d))
    \/ ~Has(todo, "clear", d) /\ Rolls(s) /\ dir[d] = before.dir[Snap(s, call.user, call.id)]
Restoring ==
  Running /\ call.op = "restore" =>
    /\ \A d \in Dirs : d[1] = "snapshot" => dir[d] = before.dir[d]
    /\ (\A s \in Storages : ~Rolls(s)) => todo = <<>>
    /\ status = "running" /\ (\E s \in Storages : Rolls(s)) =>
         \A s \in call.flags \cap Storages : RestoredSoFar(s)

(* The files of c are of w.                                                *)
PartOf(c, w) ==
  c # Missing => \A x \in Files : c[x] # 0 => w # Missing /\ c[x] = w[x]
AsBefore ==
  \A s \in Storages : PartOf(dir[Data(s, Internal, call.user)], before.dir[Data(s, Internal, call.user)])
FromSnapshot ==
  \A s \in Storages :
    PartOf(dir[Data(s, Internal, call.user)], before.dir[Snap(s, call.user, call.id)])
Unmixed ==
  Running /\ call.op = "restore" /\ Storages \subseteq call.flags =>
    \/ AsBefore /\ (HasOp(todo, "check") \/ ~HasOp(todo, "copy"))
    \/ FromSnapshot /\ ~HasOp(todo, "check")

OneDefault ==
  \A v \in Volumes, u \in UserIds : ~ {Data("ce", v, u), Data("de", v, u)} \subseteq default
Migrating ==
  Running /\ call.op = "migrate" =>
    LET D(s) == Data(s, call.vol, call.user)
        kept == DefaultOf(before, call.vol, call.user)
    IN /\ HasOp(todo, "mark") => D("de") \notin default
       /\ \/ status = "running" /\ HasOp(todo, "rename") /\ dir[D(Source(call))] = kept
          \/ status = "running" /\ ~HasOp(todo, "rename") /\ ~HasOp(todo, "delete") /\ dir[D(Target(call))] = kept
          \/ status = "failing" /\ todo = <<>> /\ kept \in {dir[D("ce")], dir[D("de")]}

(* Of the directory old a copy is to be made at new, or has been.          *)
Copied(new, old) ==
  /\ dir[old] = before.dir[old]
  /\ Has(todo, "copy", new) \/ (dir[new] = before.dir[old] /\ dir[new] # Missing)
  /\ dir[new] \in {Missing, Empty, before.dir[old]}
MovedSoFar ==
  Running /\ call.op = "move" =>
    /\ status # "noted"
    /\ status = "failing" /\ ~botched => \A d \in NewDirs(call) : Has(todo, "delete", d) \/ dir[d] = Missing
    /\ /\ status = "running" /\ call.to # call.vol
       /\ (\A d \in MoveDirs(call.to, call) : before.dir[d] = Missing)
       => /\ Copied(App(call.to), App(call.vol))
          /\ \A s \in Storages, u \in UserIds :
               before.dir[Data("ce", call.vol, u)] # Missing =>
                 Copied(Data(s, call.to, u), Data(s, call.vol, u))

Inv ==
  /\ TypeOK /\ ProgramLeft /\ SnapshotIsExact /\ TakenKnown /\ Snapshotting
  /\ Restoring /\ Unmixed /\ OneDefault /\ Migrating /\ MovedSoFar
=============================================================================
