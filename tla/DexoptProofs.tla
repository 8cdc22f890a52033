---------------------------- MODULE DexoptProofs ----------------------------
(***************************************************************************)
(* What holds of every dexopt of every dex file, for any number of users,  *)
(* samples, calls and updates: the compiled files fit together, a mapped   *)
(* file is never written, a failed compilation leaves nothing, and the     *)
(* answers about profiles are true.                                        *)
(***************************************************************************)
EXTENDS Dexopt, TLAPS

All == Samples \cup Shipped
Profile == (SUBSET All) \cup {Missing}
Slots == [Kinds -> File \cup {Missing}]

Use == [needed : {"none", "scratch", "bootimage", "filter"}, public : BOOLEAN, image : BOOLEAN,
        refOpen : BOOLEAN, refLocked : BOOLEAN]
DexoptCalls == [op : {"dexopt"}, guided : BOOLEAN, image : BOOLEAN, public : BOOLEAN,
                same : BOOLEAN, force : BOOLEAN, use : Use]
PrepareCalls == [op : {"prepare"}, user : Users, metadata : BOOLEAN]
ApkOps == {"merge", "clear", "snapshot", "destroy_snapshot", "dump", "copy", "move_ab", "delete_odex"}
PlainCalls == [op : ApkOps \cup {"none", "reconcile"}]
Codes == {"none", "compile", "skip", "locking", "bad", "io", "unknown", "signal"}
Jobs == [opened : SUBSET Users, code : Codes, todo : SUBSET Users, ok : BOOLEAN,
         seen : SUBSET All, late : SUBSET All, before : SUBSET All]

----------------------------------------------------------------------------
(* The inductive invariant.                                                *)

ProfilesType ==
  /\ cur \in [Users -> Profile] /\ ref \in Profile /\ snap \in Profile
  /\ locked \subseteq Users /\ recorded \subseteq Samples /\ secondary \in BOOLEAN
CallsType ==
  /\ call \in DexoptCalls \cup PrepareCalls \cup PlainCalls /\ job \in Jobs
  /\ result \in BOOLEAN /\ n \in 0..MaxCalls /\ faults \in Nat
FilesType ==
  /\ file \in Slots /\ bfile \in Slots /\ mapped \in Slots
  /\ boot \in 0..MaxBoot /\ torn \in BOOLEAN
TypeOK == ProfilesType /\ CallsType /\ FilesType

(* Where a call of each kind can be.                                       *)
Compiling == {"secondary", "analyzer", "input", "oat", "vdex", "restorecon", "image", "profile",
              "dex2oat", "cleanup"}
Moving == {"ab_oat", "ab_vdex", "ab_image"}

CallOK ==
  /\ pc \in Compiling => call.op = "dexopt"
  /\ pc = "open" => call.op \in {"merge", "dexopt", "snapshot", "dump"}
  /\ pc = "clear" => call.op \in {"merge", "dexopt", "clear"}
  /\ pc = "clear_reference" => call.op = "clear"
  /\ pc = "snapshot" => call.op = "snapshot"
  /\ pc = "destroy_snapshot" => call.op = "destroy_snapshot"
  /\ pc = "copy" => call.op = "copy"
  /\ pc = "prepare" => call.op = "prepare"
  /\ pc \in Moving => call.op = "move_ab"
  /\ pc = "delete_odex" => call.op = "delete_odex"
  /\ pc \in {"reconcile", "reconcile_unlink"} => call.op = "reconcile" /\ secondary
  /\ call.op \in ApkOps \cup {"prepare"} => ~secondary
  /\ call.op = "dexopt" =>
       /\ pc \in {"secondary", "open", "profman", "clear", "analyzer", "restorecon"} => secondary
       /\ pc = "image" => ~secondary
       /\ pc \notin {"dex2oat", "cleanup", "idle"} => ~call.use.refOpen
       /\ pc \notin {"profile", "dex2oat", "cleanup", "idle"} => ~call.use.image
       /\ secondary => ~call.use.image
       /\ pc \in {"dex2oat", "cleanup"} /\ call.use.refOpen => ~(secondary /\ call.use.public)

(* While dexopt writes, the files it has opened are this call's and the    *)
(* others are older; between calls every file is of a call that was made.  *)
Opening == {"vdex", "restorecon", "image", "profile", "dex2oat", "cleanup"}
Older(f) == f # Missing => f.ino < n /\ f.gen < n
Written(k) == file[k] # Missing /\ file[k].gen = n

FilesOK ==
  /\ \A k \in Kinds : file[k] # Missing => file[k].ino <= n /\ file[k].gen <= n
  /\ pc \notin Opening \cup {"idle"} => \A k \in Kinds : Older(file[k])
  /\ pc \in Opening =>
       Written("oat") /\ ~file["oat"].whole /\ file["oat"].public = call.use.public
  /\ IF pc = "vdex" THEN Older(file["vdex"]) ELSE pc \in Opening => Written("vdex")
  /\ pc \in {"vdex", "restorecon", "image"} => Older(file["image"])
  /\ pc \in {"profile", "dex2oat", "cleanup"} =>
       IF call.use.image THEN Written("image") ELSE file["image"] = Missing \/ file["image"].left
  /\ pc \in Opening => \A k \in Kinds : Written(k) => ~file[k].whole
  /\ secondary => file["image"] = Missing

(* The files of the update fit together, and move_ab takes them one by one.*)
UpdateOK ==
  /\ \A k \in Kinds : bfile[k] # Missing =>
       /\ bfile[k].ino <= n /\ bfile[k].gen <= n
       /\ pc # "idle" => bfile[k].ino < n /\ bfile[k].gen < n
       /\ bfile[k].boot = boot /\ bfile[k].guided = {}
       /\ k # "oat" => bfile[k].whole
       /\ \A m \in Kinds : bfile[m] # Missing => bfile[m].gen = bfile[k].gen
  /\ secondary => bfile = None
  /\ pc \in {"ab_vdex", "ab_image"} =>
       /\ torn /\ file["oat"] # Missing
       /\ \A k \in Kinds : bfile[k] # Missing => bfile[k].gen = file["oat"].gen
  /\ pc = "ab_image" => Whole(file["vdex"]) /\ file["vdex"].gen = file["oat"].gen

(* What an app has mapped is not what dexopt is about to write: the vdex   *)
(* is written in place only for a new boot image, and then no app runs     *)
(* with the old files.                                                     *)
BeforeVdex == {"secondary", "open", "profman", "clear", "analyzer", "input", "oat", "vdex"}
MappedOK ==
  /\ \A k \in Kinds :
       /\ mapped[k] # Missing => mapped[k].ino <= n /\ (pc # "idle" => mapped[k].ino < n)
       /\ mapped[k] # Missing /\ bfile[k] # Missing => mapped[k].ino # bfile[k].ino
       /\ file[k] # Missing /\ bfile[k] # Missing => file[k].ino # bfile[k].ino
  /\ mapped # None /\ file["oat"] # Missing => file["oat"].boot = boot
  /\ call.op = "dexopt" /\ pc \in BeforeVdex /\ call.use.needed = "bootimage" =>
       mapped = None /\ (Whole(file["oat"]) => file["oat"].boot # boot)

(* Every sample was recorded or shipped.  A profile that an app has locked *)
(* is there, unless a reconciliation has removed it.                       *)
SamplesOK ==
  /\ In(ref) \subseteq recorded \cup Shipped /\ job.before \subseteq recorded \cup Shipped
  /\ \A u \in Users : In(cur[u]) \subseteq recorded \cup Shipped
  /\ locked \subseteq Known
  /\ ~secondary => \A u \in locked : cur[u] # Missing

(* What a merge and a clearing of the profiles know of them.               *)
MergeOK ==
  /\ pc = "profman" /\ call.op # "dump" => ref # Missing
  /\ pc \in {"profman", "clear"} /\ call.op \in {"merge", "dexopt"} =>
       /\ job.opened \subseteq Known /\ job.opened # {}
       /\ \A u \in Known \ job.opened : cur[u] = Missing
  /\ pc = "clear" /\ call.op \in {"merge", "dexopt"} =>
       /\ job.code = "compile" =>
            /\ ref # Missing /\ job.seen \subseteq ref
            /\ \A u \in Known : In(cur[u]) \subseteq job.seen \cup job.late
       /\ job.todo # {} => job.code \in {"compile", "bad", "unknown"}
ClearOK ==
  /\ pc = "clear" => job.todo \subseteq Known
  /\ pc = "clear" /\ call.op = "clear" =>
       /\ In(ref) \cap job.before = {}
       /\ job.ok => \A u \in Users \ job.todo : In(cur[u]) \cap job.before = {}
SnapshotOK == call.op = "snapshot" /\ pc \in {"open", "profman"} => snap = {}
ProfileOK == SamplesOK /\ MergeOK /\ ClearOK /\ SnapshotOK

(* Every conjunct that some action may disturb.                            *)
Inv ==
  /\ TypeOK /\ CallOK /\ FilesOK /\ UpdateOK /\ MappedOK /\ ProfileOK
  /\ Matched /\ NeverModifiesMapped /\ FailedLeavesNothing /\ BadProfileForgotten
  /\ PrivacyKept /\ ProfileAnswersTrue

----------------------------------------------------------------------------
(* The steps, sorted by what they may change.                              *)
FileStep ==
  \/ OpenOat \/ OpenVdex \/ Restorecon \/ OpenImage \/ Dex2oat \/ Cleanup
  \/ MoveOat \/ MoveVdex \/ MoveImage \/ DeleteOdex \/ (\E u \in Unlinked : ReconcileUnlinks(u))
CallStep == SecondaryBegins \/ Analyzer \/ OpenInput \/ OpenReference \/ ReconcileChecks
BeginStep == BeginArtifacts \/ (BeginProfiles /\ UNCHANGED artifacts)
AppsStep == AppStarts \/ AppStops \/ (\E d \in {Missing, "private", "public"} : AppTouchesDex(d))
UpdateStep == \E kinds \in {Kinds, {"oat", "vdex"}, {"oat"}}, whole \in BOOLEAN :
                (whole <=> kinds # {"oat"}) /\ Update(kinds, whole)
SampleStep == (ProfileStep \/ AppStep) /\ UNCHANGED artifacts

(* Every step is of one of those sorts.                                    *)
LEMMA StepKinds ==
  ASSUME Next
  PROVE  FileStep \/ CallStep \/ BeginStep \/ AppsStep \/ UpdateStep \/ SampleStep \/ Die
<1>1. Device => AppsStep \/ UpdateStep \/ Die
  <2>1. Kinds # {"oat"} /\ {"oat", "vdex"} # {"oat"}  BY DEF Kinds
  <2> QED  BY <2>1 DEF Device, AppsStep, UpdateStep
<1>2. CompileStep => FileStep \/ CallStep  BY DEF CompileStep, FileStep, CallStep
<1>3. CASE (BeginProfiles \/ ProfileStep \/ AppStep) /\ UNCHANGED artifacts
  BY <1>3, Zenon DEF BeginStep, SampleStep
<1>4. CASE BeginArtifacts
  BY <1>4 DEF BeginStep
<1> QED  BY <1>1, <1>2, <1>3, <1>4, Zenon DEF Next

(* A call begins: the other steps of installd neither change the count nor *)
(* the dex file's kind.                                                    *)
LEMMA BeginFrame ==
  ASSUME BeginStep
  PROVE  /\ pc = "idle" /\ n' = n + 1 /\ n < MaxCalls /\ job' = Locals
         /\ UNCHANGED <<cur, ref, snap, locked, recorded, secondary, result, faults, file, bfile, mapped, boot, torn>>
         /\ pc' \notin Opening \cup (Moving \ {"ab_oat"})
BY DEF BeginStep, BeginArtifacts, BeginDexopt, BeginProfiles, Begin, artifacts, apps, files,
     Opening, Moving

----------------------------------------------------------------------------
(* Facts about the operators.                                              *)

(* The samples of a profile, missing or not.                               *)
LEMMA InType == ASSUME NEW p \in Profile PROVE In(p) \in SUBSET All /\ In(p) \in Profile
BY DEF In, Profile

(* A cleared profile is a profile.                                         *)
LEMMA ClearedType == ASSUME NEW p \in Profile, NEW h \in BOOLEAN PROVE Cleared(p, h) \in Profile
BY DEF Cleared, Profile

(* What a call opens is a file.                                            *)
LEMMA NewType == ASSUME TypeOK PROVE New \in File
BY DexoptAssumption DEF New, TypeOK, CallsType, FilesType, File

(* A file that has just been opened is of this call and not finished.      *)
LEMMA NewFields ==
  New.ino = n /\ New.gen = n /\ ~New.whole /\ New.boot = boot /\ New.guided = {} /\ ~New.left
BY DEF New

(* A file that could not be unlinked is what it was.                       *)
LEMMA LeftFields ==
  ASSUME NEW f \in File
  PROVE  /\ Left(f) \in File /\ Left(f) # Missing /\ Left(f).left
         /\ Left(f).ino = f.ino /\ Left(f).gen = f.gen /\ Left(f).whole = f.whole
         /\ Left(f).boot = f.boot /\ Left(f).public = f.public /\ Left(f).guided = f.guided
<1>1. f # Missing  BY DexoptAssumption
<1>2. Left(f) = [f EXCEPT !.left = TRUE]  BY <1>1 DEF Left
<1>3. Left(f) \in File  BY <1>2 DEF File
<1> QED  BY <1>2, <1>3, DexoptAssumption DEF File

(* A file updated in place is finished no more, and its inode stays.       *)
LEMMA ReopenedFields ==
  ASSUME TypeOK, NEW f \in File
  PROVE  /\ Reopened(f) \in File /\ Reopened(f).ino = f.ino /\ Reopened(f).gen = n
         /\ ~Reopened(f).whole
<1>1. f # Missing /\ n \in 0..MaxCalls  BY DexoptAssumption DEF TypeOK, CallsType
<1>2. Reopened(f) = [f EXCEPT !.gen = n, !.whole = FALSE, !.left = FALSE]  BY <1>1 DEF Reopened
<1> QED  BY <1>1, <1>2 DEF File

(* Where there is nothing, nothing is left.                                *)
LEMMA LeftMissing == Left(Missing) = Missing
BY DEF Left

(* Unlinking files and replacing one of them give files.                   *)
LEMMA UnlinkType ==
  ASSUME NEW fs \in Slots, NEW k \in Kinds, NEW f \in File \cup {Missing}, NEW kinds, NEW stay
  PROVE  /\ Unlink(fs, kinds, stay) \in Slots /\ [fs EXCEPT ![k] = f] \in Slots
         /\ Unlink([fs EXCEPT ![k] = f], kinds, stay) \in Slots
<1>1. \A gs \in Slots : Unlink(gs, kinds, stay) \in Slots
  BY LeftFields, LeftMissing DEF Unlink, Slots
<1>2. [fs EXCEPT ![k] = f] \in Slots  BY DEF Slots
<1> QED  BY <1>1, <1>2

(* What each step that may fail to unlink a file makes of the files.       *)
LEMMA OpenOatFiles ==
  ASSUME TypeOK, OpenOat
  PROVE  /\ pc = "oat" /\ file'["vdex"] = file["vdex"] /\ file'["image"] = file["image"]
         /\ \/ pc' = "vdex" /\ file'["oat"] = [New EXCEPT !.public = call.use.public]
            \/ /\ pc' = "idle" /\ result' = FALSE /\ UNCHANGED torn
               /\ file'["oat"] \in {file["oat"], Missing, Left(New)}
BY DEF OpenOat, Here, Goto, Fails, Return, Recreated, Unlink, Kinds, TypeOK, FilesType, Slots

(* The same of the vdex file.                                              *)
LEMMA OpenVdexFiles ==
  ASSUME TypeOK, OpenVdex
  PROVE  /\ pc = "vdex" /\ file'["image"] = file["image"]
         /\ \/ /\ pc' \in {"restorecon", "image"} /\ file'["oat"] = file["oat"]
               /\ file'["vdex"] = Opened(file["vdex"])
            \/ /\ pc' = "idle" /\ result' = FALSE /\ file'["oat"] \in {Missing, Left(file["oat"])}
               /\ file'["vdex"] \in {Missing, Left(file["vdex"]), Left(Opened(file["vdex"]))}
BY DEF OpenVdex, Here, Goto, Fails, Return, Unlink, Kinds, TypeOK, FilesType, Slots

(* The same of the contexts of both.                                       *)
LEMMA RestoreconFiles ==
  ASSUME TypeOK, Restorecon
  PROVE  /\ pc = "restorecon" /\ file'["image"] = file["image"]
         /\ \/ pc' = "profile" /\ UNCHANGED file
            \/ /\ pc' = "idle" /\ file'["oat"] \in {Missing, Left(file["oat"])}
               /\ file'["vdex"] \in {Missing, Left(file["vdex"])}
BY DEF Restorecon, Here, Goto, Fails, Return, Unlink, Kinds, TypeOK, FilesType, Slots

(* The same of the image, without which the call goes on.                  *)
LEMMA OpenImageFiles ==
  ASSUME TypeOK, OpenImage
  PROVE  /\ pc = "image" /\ pc' = "profile"
         /\ file'["oat"] = file["oat"] /\ file'["vdex"] = file["vdex"]
         /\ \/ /\ call' = [call EXCEPT !.use.image = call.image]
               /\ file'["image"] = ImageOf(call)
            \/ call' = call /\ file'["image"] \in {Missing, Left(file["image"]), Left(New)}
<1>1. ImageOf(call) \in {Missing, New}  BY DEF ImageOf
<1> QED
  BY <1>1, LeftMissing DEF OpenImage, Here, Goto, Unlink, Kinds, TypeOK, FilesType, Slots

(* The same of the clean-up after dex2oat has failed.                      *)
LEMMA CleanupFiles ==
  ASSUME TypeOK, Cleanup
  PROVE  /\ pc = "cleanup" /\ pc' = "idle"
         /\ \A k \in Kinds : IF k \in Wrapped(call) THEN file'[k] \in {Missing, Left(file[k])}
                                                   ELSE file'[k] = file[k]
BY DEF Cleanup, Here, Return, Unlink

(* The same of the last file that move_ab takes.                           *)
LEMMA MoveImageFiles ==
  ASSUME TypeOK, MoveImage
  PROVE  /\ pc = "ab_image" /\ pc' = "idle"
         /\ file'["oat"] = file["oat"] /\ file'["vdex"] = file["vdex"]
         /\ file'["image"] \in {bfile["image"], Missing, Left(file["image"])}
BY DEF MoveImage, Return, Unlink, Kinds, TypeOK, FilesType, Slots

(* The samples on disk, and the local variables of a call that begins.     *)
LEMMA HeldType == ASSUME TypeOK PROVE Held \in SUBSET All /\ Locals \in Jobs
<1>1. \A u \in Users : In(cur[u]) \in SUBSET All  BY InType DEF TypeOK, ProfilesType
<1>2. In(ref) \in SUBSET All  BY InType DEF TypeOK, ProfilesType
<1>3. Current \in SUBSET All  BY <1>1 DEF Current
<1>4. Held \in SUBSET All  BY <1>2, <1>3 DEF Held
<1> QED  BY <1>4 DEF Locals, Jobs, Codes

(* No files at all are a set of files.                                     *)
LEMMA NoneType == None \in Slots
BY DEF None, Slots

(* The calls of dexopt.                                                    *)
LEMMA CallType ==
  ASSUME NEW g \in BOOLEAN, NEW i \in BOOLEAN, NEW p \in BOOLEAN, NEW s \in BOOLEAN, NEW o \in BOOLEAN
  PROVE Call(g, i, p, s, o) \in DexoptCalls
BY DEF Call, DexoptCalls, Use

(* The files keep their type: what is opened, renamed and finished are     *)
(* files.                                                                  *)
LEMMA FilesTypeStep == ASSUME TypeOK, FilesOK, Next PROVE FilesType'
<1>1. CASE FileStep
  <2>u. file \in Slots /\ New \in File /\ {"oat", "vdex", "image"} = Kinds
    BY NewType DEF TypeOK, FilesType, Kinds
  <2>v. \A kinds, stay : Unlink(file, kinds, stay) \in Slots  BY <2>u, UnlinkType
  <2> USE <1>1 DEF TypeOK, FilesType, Slots, Kinds
  <2>1. CASE OpenOat
    <3>1. [New EXCEPT !.public = call.use.public] \in File
      <4>1. call \in DexoptCalls  BY <2>1 DEF OpenOat, Here, CallsType, PrepareCalls, PlainCalls, ApkOps
      <4> QED  BY <4>1, NewType DEF File, DexoptCalls, Use
    <3>2. \A stay : Unlink([file EXCEPT !["oat"] = New], {"oat"}, stay) \in Slots
      BY <2>u, UnlinkType
    <3>3. [file EXCEPT !["oat"] = [New EXCEPT !.public = call.use.public]] \in Slots
      BY <2>u, <3>1, UnlinkType
    <3> HIDE DEF Slots, Kinds
    <3>8. file' \in Slots  BY <2>1, <2>u, <3>2, <3>3 DEF OpenOat, Recreated
    <3>9. bfile' \in Slots /\ mapped' \in Slots /\ boot' \in 0..MaxBoot /\ torn' \in BOOLEAN
      BY <2>1, NoneType DEF OpenOat, Others
    <3> QED  BY <3>8, <3>9
  <2>2. CASE OpenVdex
    <3>1. \A f \in File \cup {Missing} : Opened(f) \in File
      BY NewType, ReopenedFields DEF Opened
    <3>2. \A v \in {file["vdex"], Opened(file["vdex"])} : \A stay :
            Unlink([file EXCEPT !["vdex"] = v], {"oat", "vdex"}, stay) \in Slots
      BY <2>u, <3>1, UnlinkType
    <3>3. [file EXCEPT !["vdex"] = Opened(file["vdex"])] \in Slots  BY <2>u, <3>1, UnlinkType
    <3> HIDE DEF Slots, Kinds
    <3>7. \/ file' = [file EXCEPT !["vdex"] = Opened(file["vdex"])]
          \/ \E v \in {file["vdex"], Opened(file["vdex"])} : \E stay :
               file' = Unlink([file EXCEPT !["vdex"] = v], {"oat", "vdex"}, stay)
      BY <2>2, Zenon DEF OpenVdex
    <3>8. file' \in Slots  BY <3>2, <3>3, <3>7, Zenon
    <3>9. bfile' \in Slots /\ mapped' \in Slots /\ boot' \in 0..MaxBoot /\ torn' \in BOOLEAN
      BY <2>2, NoneType DEF OpenVdex, Others
    <3> QED  BY <3>8, <3>9
  <2>3. CASE Restorecon
    BY <2>3, <2>v DEF Restorecon, Others
  <2>4. CASE OpenImage
    <3>1. ImageOf(call) \in File \cup {Missing}  BY <2>u DEF ImageOf
    <3>2. \A i \in {file["image"], ImageOf(call)} : \A stay :
            Unlink([file EXCEPT !["image"] = i], {"image"}, stay) \in Slots
      BY <2>u, <3>1, UnlinkType
    <3>3. [file EXCEPT !["image"] = ImageOf(call)] \in Slots  BY <2>u, <3>1, UnlinkType
    <3> HIDE DEF Slots, Kinds
    <3>7. \/ file' = [file EXCEPT !["image"] = ImageOf(call)]
          \/ \E i \in {file["image"], ImageOf(call)} : \E stay :
               file' = Unlink([file EXCEPT !["image"] = i], {"image"}, stay)
      BY <2>4, Zenon DEF OpenImage
    <3>8. file' \in Slots  BY <3>2, <3>3, <3>7, Zenon
    <3>9. bfile' \in Slots /\ mapped' \in Slots /\ boot' \in 0..MaxBoot /\ torn' \in BOOLEAN
      BY <2>4, NoneType DEF OpenImage
    <3> QED  BY <3>8, <3>9
  <2>5. CASE Dex2oat
    <3>1. CASE UNCHANGED file
      BY <2>5, <3>1 DEF Dex2oat
    <3>2. CASE file' = [k \in Kinds |-> IF k = "image" /\ secondary THEN file[k] ELSE Finished(k)]
      <4>1. In(ref) \in SUBSET All /\ {} \in SUBSET All  BY InType DEF ProfilesType
      <4>2. \A f \in File, g \in SUBSET All :
              [f EXCEPT !.gen = n, !.whole = TRUE, !.boot = boot, !.guided = g] \in File
        BY DEF File, CallsType, All
      <4>3. file["oat"] \in File /\ file["vdex"] \in File /\ (call.use.image => file["image"] \in File)
        BY <2>5 DEF Dex2oat, Here, FilesOK, Opening, Written
      <4>4. \A k \in Kinds : Finished(k) \in File \cup {Missing}
        BY <4>1, <4>2, <4>3 DEF Finished
      <4> QED  BY <2>5, <3>2, <4>4 DEF Dex2oat
    <3> QED  BY <2>5, <3>1, <3>2 DEF Dex2oat
  <2>6. CASE Cleanup
    BY <2>6, <2>v DEF Cleanup, Others
  <2>7. CASE MoveOat
    BY <2>7, NoneType DEF MoveOat
  <2>8. CASE MoveVdex
    BY <2>8, NoneType DEF MoveVdex
  <2>9. CASE MoveImage
    <3>1. [file EXCEPT !["image"] = bfile["image"]] \in Slots  BY <2>u, UnlinkType
    <3> HIDE DEF Slots, Kinds
    <3>8. file' \in Slots  BY <2>9, <2>v, <3>1 DEF MoveImage
    <3>9. bfile' \in Slots /\ mapped' \in Slots /\ boot' \in 0..MaxBoot /\ torn' \in BOOLEAN
      BY <2>9, NoneType DEF MoveImage
    <3> QED  BY <3>8, <3>9
  <2>10. CASE DeleteOdex
    BY <2>10, NoneType DEF DeleteOdex
  <2>11. CASE \E u \in Unlinked : ReconcileUnlinks(u)
    BY <2>11 DEF ReconcileUnlinks
  <2> QED  BY <2>1, <2>2, <2>3, <2>4, <2>5, <2>6, <2>7, <2>8, <2>9, <2>10, <2>11 DEF FileStep
<1>2. CASE CallStep
  BY <1>2 DEF CallStep, SecondaryBegins, Analyzer, OpenInput, OpenReference, ReconcileChecks,
       Others, artifacts, TypeOK, FilesType
<1>3. CASE BeginStep
  BY <1>3, BeginFrame DEF TypeOK, FilesType
<1>4. CASE AppsStep
  BY <1>4, NoneType DEF AppsStep, AppStarts, AppStops, AppTouchesDex, TypeOK, FilesType
<1>5. CASE UpdateStep
  <2>1. PICK kinds \in {Kinds, {"oat", "vdex"}, {"oat"}}, whole \in BOOLEAN : Update(kinds, whole)
    BY <1>5 DEF UpdateStep
  <2>2. boot' \in 0..MaxBoot /\ n' \in 0..MaxCalls
    BY <2>1, DexoptAssumption, ProfilesAssumption DEF Update, TypeOK, CallsType, FilesType
  <2>3. [New EXCEPT !.ino = n', !.gen = n', !.whole = whole, !.boot = boot'] \in File
    BY <2>2, NewType DEF File
  <2> QED  BY <2>1, <2>2, <2>3, NoneType DEF Update, TypeOK, FilesType, Slots
<1>6. CASE SampleStep
  BY <1>6 DEF SampleStep, artifacts, TypeOK, FilesType
<1>7. CASE Die
  BY <1>7 DEF Die, artifacts, TypeOK, FilesType
<1> QED  BY StepKinds, <1>1, <1>2, <1>3, <1>4, <1>5, <1>6, <1>7

(* What a step of installd on the profiles leaves alone.                   *)
LEMMA SampleFrame ==
  ASSUME SampleStep
  PROVE  UNCHANGED <<call, n, secondary, file, bfile, mapped, boot, dex, torn>>
<1>1. ProfileStep => UNCHANGED <<call, n, secondary>>
  BY DEF ProfileStep, OpenProfiles, Merge, ClearCurrent, ClearReference, ClearAppProfiles,
         ClearAppProfilesEnds, SnapshotOpen, Snapshot, DestroySnapshot, Dump, CopySystemProfile,
         PrepareAppProfile, Same, apps
<1>2. AppStep => UNCHANGED <<call, n, secondary>>
  BY DEF AppStep, AppLock, AppSave, AppDies
<1> QED  BY <1>1, <1>2 DEF SampleStep, artifacts

(* What a step on files leaves alone.                                      *)
LEMMA FileFrame ==
  ASSUME FileStep
  PROVE  UNCHANGED <<snap, locked, recorded, secondary, n, job, mapped, boot, dex>>
BY DEF FileStep, OpenOat, OpenVdex, Restorecon, OpenImage, Dex2oat, Cleanup, MoveOat, MoveVdex,
       MoveImage, DeleteOdex, ReconcileUnlinks, Others, Same, apps, files

(* What a step that only moves the call on leaves alone.                   *)
LEMMA CallFrame ==
  ASSUME CallStep
  PROVE  UNCHANGED <<cur, ref, snap, locked, recorded, secondary, n, job, file, bfile, mapped, boot, dex, torn>>
BY DEF CallStep, SecondaryBegins, Analyzer, OpenInput, OpenReference, ReconcileChecks, Others, Same,
       apps, files, artifacts

(* The profiles keep their type.                                           *)
LEMMA ProfilesTypeStep == ASSUME TypeOK, ProfileOK, Next PROVE ProfilesType'
<1> USE DEF TypeOK, ProfilesType
<1>1. CASE FileStep
  <2>1. cur' \in [Users -> Profile] /\ ref' \in Profile
    <3>1. CASE \E u \in Unlinked : ReconcileUnlinks(u)
      BY <3>1, ProfilesAssumption DEF ReconcileUnlinks, Profile
    <3>2. CASE Cleanup
      BY <3>2, ClearedType DEF Cleanup, CloseFirst, Others
    <3> QED
      BY <1>1, <3>1, <3>2
      DEF FileStep, OpenOat, OpenVdex, Restorecon, OpenImage, Dex2oat, MoveOat, MoveVdex, MoveImage,
          DeleteOdex, Others, files
  <2> QED  BY <1>1, <2>1, FileFrame
<1>2. CASE CallStep
  BY <1>2, CallFrame
<1>3. CASE BeginStep
  BY <1>3, BeginFrame
<1>4. CASE AppsStep
  BY <1>4 DEF AppsStep, AppStarts, AppStops, AppTouchesDex, apps, files
<1>5. CASE UpdateStep
  BY <1>5 DEF UpdateStep, Update, files
<1>6. CASE ProfileStep
  <2>1. cur' \in [Users -> Profile]
    <3>1. CASE \E u \in Users : ClearCurrent(u)
      <4>1. PICK u \in Users : ClearCurrent(u)  BY <3>1
      <4>2. Cleared(cur[u], u \in locked) \in Profile  BY DEF Cleared, Profile
      <4> QED  BY <4>1, <4>2 DEF ClearCurrent
    <3>2. CASE PrepareAppProfile
      BY <3>2, InType DEF PrepareAppProfile
    <3> QED
      BY <1>6, <3>1, <3>2
      DEF ProfileStep, OpenProfiles, Merge, ClearReference, ClearAppProfiles, ClearAppProfilesEnds,
          SnapshotOpen, Snapshot, DestroySnapshot, Dump, CopySystemProfile, files
  <2>2. ref' \in Profile
    <3>1. Read \in SUBSET All  BY InType DEF Read, CallsType, Jobs
    <3>2. CASE Merge  BY <3>1, <3>2 DEF Merge, Profile, ProfileOK, MergeOK
    <3>3. CASE OpenProfiles  BY <3>3, InType DEF OpenProfiles
    <3>4. CASE CopySystemProfile  BY <3>4, InType DEF CopySystemProfile, Profile, All
    <3>5. CASE PrepareAppProfile  BY <3>5, InType DEF PrepareAppProfile, Profile, All
    <3>6. CASE ClearReference \/ ClearAppProfiles
      BY <3>6, ClearedType DEF ClearReference, ClearAppProfiles
    <3> QED
      BY <1>6, <3>2, <3>3, <3>4, <3>5, <3>6
      DEF ProfileStep, ClearCurrent, ClearAppProfilesEnds, SnapshotOpen, Snapshot, DestroySnapshot,
          Dump, files
  <2>3. snap' \in Profile
    <3>1. Read \in SUBSET All  BY InType DEF Read, CallsType, Jobs
    <3>2. CASE Snapshot
      <4>1. ref \in SUBSET All /\ snap = {}
        BY <3>2 DEF Snapshot, Profile, ProfileOK, MergeOK, SnapshotOK
      <4> QED  BY <3>1, <3>2, <4>1 DEF Snapshot, Profile
    <3> QED
      BY <1>6, <3>2
      DEF ProfileStep, OpenProfiles, Merge, ClearCurrent, ClearReference, ClearAppProfiles,
          ClearAppProfilesEnds, SnapshotOpen, Truncated, DestroySnapshot, Dump, CopySystemProfile,
          PrepareAppProfile, Profile, files
  <2>4. UNCHANGED <<locked, recorded, secondary>>
    BY <1>6 DEF ProfileStep, OpenProfiles, Merge, ClearCurrent, ClearReference, ClearAppProfiles,
         ClearAppProfilesEnds, SnapshotOpen, Snapshot, DestroySnapshot, Dump, CopySystemProfile,
         PrepareAppProfile, Same, apps
  <2> QED  BY <2>1, <2>2, <2>3, <2>4
<1>7. CASE AppStep
  <2>1. PICK u \in Users : AppLock(u) \/ AppDies(u) \/ \E s \in Samples : AppSave(u, s)
    BY <1>7 DEF AppStep
  <2>2. In(cur[u]) \in SUBSET All  BY InType
  <2> QED  BY <2>1, <2>2 DEF AppLock, AppDies, AppSave, Profile, All, files
<1>8. CASE Die
  BY <1>8 DEF Die, files, apps
<1> QED  BY StepKinds, <1>1, <1>2, <1>3, <1>4, <1>5, <1>6, <1>7, <1>8 DEF SampleStep

(* The call and its local variables keep their type.                       *)
LEMMA CallsTypeStep == ASSUME TypeOK, ProfileOK, Next PROVE CallsType'
<1> USE DEF TypeOK, CallsType
<1>1. CASE FileStep \/ CallStep
  <2>1. UNCHANGED <<n, job>>  BY <1>1, FileFrame, CallFrame
  <2>2. faults' \in Nat
    <3>1. FileStep => UNCHANGED faults \/ Fault
      BY DEF FileStep, OpenOat, OpenVdex, Restorecon, OpenImage, Dex2oat, Cleanup, MoveOat, MoveVdex,
         MoveImage, DeleteOdex, ReconcileUnlinks, Fails
    <3>2. CallStep => UNCHANGED faults \/ Fault
      BY DEF CallStep, SecondaryBegins, Analyzer, OpenInput, OpenReference, ReconcileChecks, Fails
    <3> QED  BY <1>1, <3>1, <3>2 DEF Fault
  <2>3. result' \in BOOLEAN
    <3>1. CASE \E u \in Unlinked : ReconcileUnlinks(u)
      BY <3>1 DEF ReconcileUnlinks, Return, UnlinkResult, Unlinked
    <3> QED
      BY <1>1, <3>1
      DEF FileStep, OpenOat, OpenVdex, Restorecon, OpenImage, Dex2oat, Cleanup, MoveOat, MoveVdex,
         MoveImage, DeleteOdex, CallStep, SecondaryBegins, Analyzer, OpenInput,
         OpenReference, ReconcileChecks, Fails, Return, Goto
  <2>4. call' \in DexoptCalls \cup PrepareCalls \cup PlainCalls
    <3>1. CASE Analyzer \/ OpenImage \/ OpenReference \/ Dex2oat
      <4>1. call \in DexoptCalls
        BY <3>1 DEF Analyzer, OpenImage, OpenReference, Dex2oat, Here, PrepareCalls, PlainCalls, ApkOps
      <4>2. CASE Analyzer
        <5>1. Needed(job.code = "compile") \in {"none", "scratch", "bootimage", "filter"}
          BY DEF Needed
        <5>2. Visible(call) \in BOOLEAN  BY <4>1 DEF Visible, DexoptCalls
        <5>3. call.use \in Use  BY <4>1 DEF DexoptCalls
        <5>4. \A v \in {"none", "scratch", "bootimage", "filter"}, b \in BOOLEAN :
                [call EXCEPT !.use.needed = v, !.use.public = b] \in DexoptCalls
          BY <4>1, <5>3 DEF DexoptCalls, Use
        <5>5. UNCHANGED call \/ \E v \in {"none", "scratch", "bootimage", "filter"} :
                call' = [call EXCEPT !.use.needed = v, !.use.public = Visible(call)]
          BY <4>2, <5>1, Zenon DEF Analyzer
        <5> QED  BY <4>1, <5>2, <5>4, <5>5
      <4>3. CASE OpenImage
        BY <4>1, <4>3 DEF OpenImage, DexoptCalls, Use
      <4>4. CASE OpenReference
        <5>1. MayGuide(call) \in BOOLEAN  BY <4>1 DEF MayGuide, DexoptCalls
        <5> QED  BY <4>1, <4>4, <5>1 DEF OpenReference, DexoptCalls, Use
      <4>5. CASE Dex2oat
        <5>1. call.use.refOpen \in BOOLEAN  BY <4>1 DEF DexoptCalls, Use
        <5>2. \A b \in BOOLEAN : [call EXCEPT !.use.refLocked = b] \in DexoptCalls
          BY <4>1 DEF DexoptCalls, Use
        <5> QED  BY <4>1, <4>5, <5>1, <5>2 DEF Dex2oat
      <4> QED  BY <3>1, <4>2, <4>3, <4>4, <4>5
    <3>2. CASE ~(Analyzer \/ OpenImage \/ OpenReference \/ Dex2oat)
      BY <1>1, <3>2
      DEF FileStep, OpenOat, OpenVdex, Restorecon, Cleanup, MoveOat, MoveVdex,
         MoveImage, DeleteOdex, ReconcileUnlinks, CallStep, SecondaryBegins, OpenInput,
         ReconcileChecks, Others, Same
    <3> QED  BY <3>1, <3>2
  <2> QED  BY <2>1, <2>2, <2>3, <2>4
<1>2. CASE BeginStep
  <2>1. UNCHANGED <<result, faults>> /\ n' \in 0..MaxCalls  BY <1>2, BeginFrame, ProfilesAssumption
  <2>2. job' \in Jobs  BY <1>2, BeginFrame, HeldType
  <2>3. call' \in DexoptCalls \cup PrepareCalls \cup PlainCalls
    <3>1. CASE BeginDexopt
      <4>1. PICK f \in Flags :
              call' = [f EXCEPT !.use.needed = IF f.force THEN "scratch" ELSE Needed(TRUE)]
        BY <3>1 DEF BeginDexopt, Begin
      <4>2. f \in DexoptCalls  BY DexoptAssumption, CallType
      <4>3. Needed(TRUE) \in {"none", "scratch", "bootimage", "filter"}  BY DEF Needed
      <4> QED  BY <4>1, <4>2, <4>3 DEF DexoptCalls, Use
    <3>2. CASE BeginArtifacts /\ ~BeginDexopt
      BY <3>2 DEF BeginArtifacts, Begin, PlainCalls, ApkOps
    <3>3. CASE BeginProfiles
      BY <3>3 DEF BeginProfiles, Begin, PlainCalls, ApkOps, PrepareCalls
    <3> QED  BY <1>2, <3>1, <3>2, <3>3 DEF BeginStep
  <2> QED  BY <2>1, <2>2, <2>3
<1>3. CASE AppsStep
  BY <1>3 DEF AppsStep, AppStarts, AppStops, AppTouchesDex
<1>4. CASE UpdateStep
  BY <1>4, ProfilesAssumption DEF UpdateStep, Update
<1>5. CASE ProfileStep
  <2>1. UNCHANGED <<call, n>>
    BY <1>5 DEF ProfileStep, OpenProfiles, Merge, ClearCurrent, ClearReference, ClearAppProfiles,
         ClearAppProfilesEnds, SnapshotOpen, Snapshot, DestroySnapshot, Dump, CopySystemProfile,
         PrepareAppProfile, Same
  <2>2. UNCHANGED faults \/ Fault
    BY <1>5 DEF ProfileStep, OpenProfiles, Merge, ClearCurrent, ClearReference, ClearAppProfiles,
         ClearAppProfilesEnds, SnapshotOpen, Snapshot, DestroySnapshot, Dump, CopySystemProfile,
         PrepareAppProfile
  <2>3. job' \in Jobs
    <3>1. Known \in SUBSET Users  BY ProfilesAssumption DEF Known
    <3>2. Read \in SUBSET All  BY InType DEF Read, ProfilesType, Jobs
    <3>3. CASE OpenProfiles
      BY <3>1, <3>3 DEF OpenProfiles, Jobs
    <3>4. CASE Merge
      <4>1. \A c \in Codes : Profman(c) => job' \in Jobs  BY <3>1, <3>2 DEF Profman, Jobs
      <4> QED  BY <3>4, <4>1 DEF Merge, Codes
    <3>5. CASE \E u \in Users : ClearCurrent(u)
      BY <3>5 DEF ClearCurrent, Jobs, ClearedOk
    <3>6. CASE ClearAppProfiles
      BY <3>1, <3>6 DEF ClearAppProfiles, Jobs
    <3>7. CASE Snapshot
      <4>1. ref \in SUBSET All  BY <3>7 DEF Snapshot, ProfileOK, MergeOK, ProfilesType, Profile
      <4> QED  BY <3>2, <3>7, <4>1 DEF Snapshot, Jobs
    <3> QED
      BY <1>5, <3>3, <3>4, <3>5, <3>6, <3>7
      DEF ProfileStep, ClearReference, ClearAppProfilesEnds, SnapshotOpen, DestroySnapshot, Dump,
          CopySystemProfile, PrepareAppProfile
  <2>4. result' \in BOOLEAN
    BY <1>5 DEF ProfileStep, OpenProfiles, Merge, ClearCurrent, ClearReference, ClearAppProfiles,
         ClearAppProfilesEnds, SnapshotOpen, Snapshot, DestroySnapshot, Dump, CopySystemProfile,
         PrepareAppProfile, Return, Goto, Analyzed, Jobs
  <2> QED  BY <2>1, <2>2, <2>3, <2>4 DEF Fault
<1>6. CASE AppStep
  BY <1>6 DEF AppStep, AppLock, AppDies, AppSave, Jobs, All
<1>7. CASE Die
  <2>1. call' \in PlainCalls  BY <1>7 DEF Die, PlainCalls
  <2>2. job' \in Jobs  BY <1>7, HeldType DEF Die
  <2>3. result' \in BOOLEAN /\ n' = n  BY <1>7 DEF Die
  <2>4. faults' \in Nat  BY <1>7 DEF Die, Fault
  <2> QED  BY <2>1, <2>2, <2>3, <2>4
<1> QED  BY StepKinds, <1>1, <1>2, <1>3, <1>4, <1>5, <1>6, <1>7 DEF SampleStep

(* A call of dexopt is a record of its flags and variables.                *)
LEMMA DexoptCall ==
  ASSUME TypeOK, call.op = "dexopt"
  PROVE  call \in DexoptCalls /\ call.use \in Use
BY DEF TypeOK, CallsType, DexoptCalls, PrepareCalls, PlainCalls, ApkOps

(* A call is only ever where calls of its kind go.                         *)
LEMMA CallStepOK == ASSUME TypeOK, CallOK, Next PROVE CallOK'
<1> USE DEF CallOK, Compiling, Moving, ApkOps, Return, Goto
<1>1. CASE FileStep
  <2>1. secondary' = secondary  BY <1>1, FileFrame
  <2>2. CASE OpenImage
    <3>1. call \in DexoptCalls /\ call.use \in Use  BY <2>2, DexoptCall DEF OpenImage, Here
    <3> QED  BY <2>1, <2>2, <3>1 DEF OpenImage, Here, DexoptCalls, Use
  <2>3. CASE Dex2oat
    <3>1. call \in DexoptCalls /\ call.use \in Use  BY <2>3, DexoptCall DEF Dex2oat, Here
    <3> QED  BY <2>1, <2>3, <3>1 DEF Dex2oat, Here, DexoptCalls, Use
  <2>4. CASE ~OpenImage /\ ~Dex2oat
    <3>1. UNCHANGED call
      BY <1>1, <2>4 DEF FileStep, OpenOat, OpenVdex, Restorecon, Cleanup, MoveOat, MoveVdex,
         MoveImage, DeleteOdex, ReconcileUnlinks, Others, Same
    <3> QED
      BY <1>1, <2>1, <2>4, <3>1
      DEF FileStep, OpenOat, OpenVdex, Restorecon, Cleanup, MoveOat, MoveVdex,
         MoveImage, DeleteOdex, ReconcileUnlinks, Fails, Here
  <2> QED  BY <2>2, <2>3, <2>4
<1>2. CASE CallStep
  <2>1. secondary' = secondary  BY <1>2, CallFrame
  <2>2. CASE Analyzer
    <3>1. call \in DexoptCalls /\ call.use \in Use  BY <2>2, DexoptCall DEF Analyzer, Here
    <3>2. CASE UNCHANGED call
      BY <2>1, <2>2, <3>2 DEF Analyzer, Here, Fails
    <3>3. CASE \E v : call' = [call EXCEPT !.use.needed = v, !.use.public = Visible(call)]
      <4>1. ~call.use.refOpen /\ ~call.use.image  BY <2>2 DEF Analyzer, Here
      <4>2. call'.op = "dexopt" /\ ~call'.use.refOpen /\ ~call'.use.image
        <5>1. PICK v : call' = [call EXCEPT !.use.needed = v, !.use.public = Visible(call)]  BY <3>3
        <5>2. call'.op = call.op /\ call'.use = [call.use EXCEPT !.needed = v, !.public = Visible(call)]
          BY <3>1, <5>1 DEF DexoptCalls
        <5> QED  BY <3>1, <4>1, <5>2 DEF DexoptCalls, Use
      <4>3. pc' \in {"idle", "input"}  BY <2>2, Zenon DEF Analyzer, Fails
      <4> QED  BY <2>1, <4>2, <4>3
    <3> QED  BY <2>2, <3>2, <3>3, Zenon DEF Analyzer
  <2>3. CASE OpenReference
    <3>1. call \in DexoptCalls /\ call.use \in Use  BY <2>3, DexoptCall DEF OpenReference, Here
    <3> QED  BY <2>1, <2>3, <3>1 DEF OpenReference, Here, DexoptCalls, Use, MayGuide
  <2>4. CASE SecondaryBegins \/ OpenInput \/ ReconcileChecks
    BY <2>1, <2>4 DEF SecondaryBegins, OpenInput, ReconcileChecks, Fails, Here, Others, Same
  <2> QED  BY <1>2, <2>2, <2>3, <2>4 DEF CallStep
<1>3. CASE BeginStep
  <2>1. secondary' = secondary  BY <1>3, BeginFrame
  <2>2. CASE BeginDexopt
    <3>1. PICK f \in Flags :
            LET c == [f EXCEPT !.use.needed = IF f.force THEN "scratch" ELSE Needed(TRUE)]
            IN Begin(c, IF secondary THEN "secondary" ELSE "input")
      BY <2>2 DEF BeginDexopt
    <3>2. PICK g, i, p, s, o \in BOOLEAN : f = Call(g, i, p, s, o)  BY DexoptAssumption
    <3>3. call'.op = "dexopt" /\ ~call'.use.refOpen /\ ~call'.use.image
      BY <3>1, <3>2 DEF Begin, Call
    <3> QED  BY <2>1, <3>1, <3>3 DEF Begin
  <2>3. CASE BeginArtifacts /\ ~BeginDexopt
    BY <2>1, <2>3 DEF BeginArtifacts, Begin
  <2>4. CASE BeginProfiles
    BY <2>1, <2>4 DEF BeginProfiles, Begin
  <2> QED  BY <1>3, <2>2, <2>3, <2>4 DEF BeginStep
<1>4. CASE AppsStep
  BY <1>4 DEF AppsStep, AppStarts, AppStops, AppTouchesDex, apps
<1>5. CASE UpdateStep
  BY <1>5 DEF UpdateStep, Update
<1>6. CASE ProfileStep
  <2>1. UNCHANGED <<secondary, call>>
    BY <1>6 DEF ProfileStep, OpenProfiles, Merge, ClearCurrent, ClearReference, ClearAppProfiles,
         ClearAppProfilesEnds, SnapshotOpen, Snapshot, DestroySnapshot, Dump, CopySystemProfile,
         PrepareAppProfile, Same, apps
  <2> QED
    BY <1>6, <2>1 DEF ProfileStep, OpenProfiles, Merge, ClearCurrent, ClearReference, ClearAppProfiles,
         ClearAppProfilesEnds, SnapshotOpen, Snapshot, DestroySnapshot, Dump, CopySystemProfile,
         PrepareAppProfile, Analyzed
<1>7. CASE AppStep
  BY <1>7 DEF AppStep, AppLock, AppDies, AppSave
<1>8. CASE Die
  BY <1>8 DEF Die, apps
<1> QED  BY StepKinds, <1>1, <1>2, <1>3, <1>4, <1>5, <1>6, <1>7, <1>8 DEF SampleStep

(* The steps on the profiles stay among themselves.                        *)
SampleLabels ==
  {"open", "profman", "clear", "clear_reference", "snapshot", "destroy_snapshot", "copy", "prepare"}

(* Where a step on profiles takes the call.                                *)
LEMMA SampleLabel ==
  ASSUME CallOK, SampleStep
  PROVE  \/ UNCHANGED <<pc, result>>
         \/ /\ pc \in SampleLabels /\ pc' \in SampleLabels \cup {"analyzer", "idle"}
            /\ call.op = "dexopt" => pc' # "idle"
<1>1. CASE ProfileStep
  BY <1>1 DEF CallOK, SampleLabels, ProfileStep, OpenProfiles, Merge, ClearCurrent, ClearReference,
       ClearAppProfiles, ClearAppProfilesEnds, SnapshotOpen, Snapshot, DestroySnapshot, Dump,
       CopySystemProfile, PrepareAppProfile, Return, Goto, Analyzed
<1>2. CASE AppStep
  BY <1>2 DEF AppStep, AppLock, AppSave, AppDies
<1> QED  BY <1>1, <1>2 DEF SampleStep

(* The steps that only look ahead do not open a file.                      *)
LEMMA CallLabel ==
  ASSUME CallOK, CallStep
  PROVE  \/ OpenReference
         \/ /\ pc \in {"secondary", "analyzer", "input", "reconcile"}
            /\ pc' \in {"idle", "open", "input", "oat", "reconcile_unlink"}
BY Zenon DEF CallStep, SecondaryBegins, Analyzer, OpenInput, ReconcileChecks, Here, Return, Goto, Fails

(* The files that dexopt has opened are of this call, the others older.    *)
LEMMA FilesStepOK == ASSUME TypeOK, CallOK, FilesOK, UpdateOK, Next PROVE FilesOK'
<1> USE DEF FilesOK, Older, Written, Opening
<1>1. CASE FileStep
  <2>1. UNCHANGED <<secondary, n, boot>>  BY <1>1, FileFrame
  <2>2. n \in Nat /\ file \in [Kinds -> File \cup {Missing}] /\ New \in File
    BY NewType DEF TypeOK, CallsType, FilesType, Slots
  <2>3. \A f \in File : f.gen \in Nat /\ f.ino \in Nat /\ f # Missing
    BY DexoptAssumption, ProfilesAssumption DEF File
  <2> USE <2>1, <2>2, <2>3 DEF Kinds, Return, Goto, Fails
  <2>4. CASE OpenOat
    <3>1. UNCHANGED call /\ pc = "oat" /\ pc' \in {"vdex", "idle"}
      BY <2>4 DEF OpenOat, Here, Others, Same
    <3>2. file'["vdex"] = file["vdex"] /\ file'["image"] = file["image"]
      BY <2>4, OpenOatFiles
    <3>3. CASE file'["oat"] = [New EXCEPT !.public = call.use.public]
      <4>1. file'["oat"] # Missing /\ file'["oat"].gen = n /\ file'["oat"].ino = n
            /\ ~file'["oat"].whole /\ file'["oat"].public = call.use.public
        <5>1. call.use.public \in BOOLEAN  BY <2>4, DexoptCall DEF OpenOat, Here, Use
        <5>2. [New EXCEPT !.public = call.use.public] \in File  BY <5>1 DEF File
        <5> QED  BY <3>3, <5>2, NewFields
      <4> QED  BY <3>1, <3>2, <4>1
    <3>4. CASE file'["oat"] \in {file["oat"], Missing, Left(New)} /\ pc' = "idle"
      BY <3>1, <3>2, <3>4, NewFields, LeftFields
    <3> QED  BY <2>4, <3>3, <3>4, OpenOatFiles
  <2>5. CASE OpenVdex
    <3>1. UNCHANGED call /\ pc = "vdex"
      BY <2>5 DEF OpenVdex, Here, Others, Same
    <3>2. file'["image"] = file["image"]
      BY <2>5, OpenVdexFiles
    <3>o. Opened(file["vdex"]) = New
          \/ (file["vdex"] # Missing /\ Opened(file["vdex"]) = Reopened(file["vdex"]))
      BY DEF Opened
    <3>3. CASE file'["oat"] = file["oat"] /\ pc' \in {"restorecon", "image"}
               /\ file'["vdex"] = Opened(file["vdex"])
      <4>1. file'["vdex"] # Missing /\ file'["vdex"].gen = n /\ file'["vdex"].ino <= n /\ ~file'["vdex"].whole
        <5>1. CASE file'["vdex"] = New  BY <5>1, NewFields
        <5>2. CASE file["vdex"] # Missing /\ file'["vdex"] = Reopened(file["vdex"])
          <6>1. file["vdex"] \in File  BY <5>2
          <6> QED  BY <5>2, <6>1, ReopenedFields
        <5> QED  BY <3>3, <3>o, <5>1, <5>2
      <4> QED  BY <3>1, <3>2, <3>3, <4>1
    <3>4. CASE file'["oat"] \in {Missing, Left(file["oat"])} /\ pc' = "idle"
               /\ file'["vdex"] \in {Missing, Left(file["vdex"]), Left(Opened(file["vdex"]))}
      <4>1. file'["oat"] # Missing => file'["oat"].ino <= n /\ file'["oat"].gen <= n
        BY <3>4, LeftFields, LeftMissing
      <4>2. file'["vdex"] # Missing => file'["vdex"].ino <= n /\ file'["vdex"].gen <= n
        BY <3>o, <3>4, NewFields, ReopenedFields, LeftFields, LeftMissing
      <4> QED  BY <3>1, <3>2, <3>4, <4>1, <4>2
    <3> QED  BY <2>5, <3>3, <3>4, OpenVdexFiles
  <2>6. CASE Restorecon
    <3>1. UNCHANGED call  BY <2>6 DEF Restorecon, Others, Same
    <3>2. \A k \in Kinds : file'[k] # Missing => file'[k].ino <= n /\ file'[k].gen <= n
      BY <2>6, RestoreconFiles, LeftFields, LeftMissing
    <3>3. secondary /\ ~call.use.image  BY <2>6 DEF Restorecon, Here, CallOK
    <3> QED  BY <2>6, <3>1, <3>2, <3>3, RestoreconFiles
  <2>7. CASE OpenImage
    <3>1. call \in DexoptCalls /\ call.use \in Use /\ pc = "image" /\ ~secondary /\ ~call.use.image
      BY <2>7, DexoptCall DEF OpenImage, Here, CallOK
    <3>2. file'["oat"] = file["oat"] /\ file'["vdex"] = file["vdex"] /\ pc' = "profile"
      BY <2>7, OpenImageFiles
    <3>3. call'.use.public = call.use.public
      BY <2>7, <3>1 DEF OpenImage, DexoptCalls, Use
    <3>4. IF call'.use.image THEN file'["image"] = New
          ELSE file'["image"] \in {Missing, Left(file["image"]), Left(New)}
      BY <2>7, <3>1, OpenImageFiles DEF ImageOf, DexoptCalls, Use
    <3>5. file'["image"] # Missing =>
            /\ file'["image"].ino <= n /\ file'["image"].gen <= n
            /\ ~call'.use.image => file'["image"].left
            /\ file'["image"].gen = n => ~file'["image"].whole
      <4>1. Left(New).ino = n /\ Left(New).gen = n /\ Left(New).left /\ ~Left(New).whole
        BY NewFields, LeftFields
      <4>2. CASE file["image"] = Missing
        BY <3>4, <4>1, <4>2, NewFields, LeftMissing
      <4>3. CASE file["image"] # Missing
        <5>1. file["image"] \in File /\ Older(file["image"])  BY <3>1, <4>3
        <5>2. Left(file["image"]).ino < n /\ Left(file["image"]).gen < n /\ Left(file["image"]).left
              /\ Left(file["image"]) \in File
          BY <5>1, <4>3, LeftFields
        <5>3. CASE call'.use.image
          BY <3>4, <5>3, NewFields
        <5>4. CASE ~call'.use.image
          BY <3>4, <4>1, <5>2, <5>4
        <5> QED  BY <5>3, <5>4
      <4> QED  BY <4>2, <4>3
    <3> QED  BY <3>1, <3>2, <3>3, <3>4, <3>5, NewFields
  <2>8. CASE Dex2oat
    <3>1. call \in DexoptCalls /\ call.use \in Use /\ pc = "dex2oat"
      BY <2>8, DexoptCall DEF Dex2oat, Here
    <3>2. CASE UNCHANGED file /\ pc' = "cleanup"
      <4>1. call'.use.public = call.use.public /\ call'.use.image = call.use.image
        BY <2>8, <3>1, <3>2 DEF Dex2oat, DexoptCalls, Use
      <4> QED  BY <3>1, <3>2, <4>1
    <3>3. CASE pc' = "idle" /\ file' = [k \in Kinds |-> IF k = "image" /\ secondary THEN file[k] ELSE Finished(k)]
      <4>1. \A k \in Kinds : file'[k] # Missing => file'[k].gen <= n /\ file'[k].ino <= n
        BY <3>1, <3>3 DEF Finished, File
      <4>2. secondary => file'["image"] = Missing  BY <3>3
      <4> QED  BY <3>3, <4>1, <4>2
    <3> QED  BY <2>8, <3>2, <3>3 DEF Dex2oat
  <2>9. CASE Cleanup
    BY <2>9, CleanupFiles, LeftFields, LeftMissing DEF Wrapped
  <2>10. CASE MoveOat
    BY <2>10 DEF MoveOat, UpdateOK, CallOK
  <2>11. CASE MoveVdex
    BY <2>11 DEF MoveVdex, UpdateOK, CallOK
  <2>12. CASE MoveImage
    <3>1. pc = "ab_image" /\ pc' = "idle" /\ ~secondary  BY <2>12 DEF MoveImage, CallOK, Moving, ApkOps
    <3>2. file'["oat"] = file["oat"] /\ file'["vdex"] = file["vdex"]
          /\ file'["image"] \in {bfile["image"], Missing, Left(file["image"])}
      BY <2>12, MoveImageFiles
    <3>3. file'["image"] # Missing => file'["image"].ino <= n /\ file'["image"].gen <= n
      BY <3>2, LeftFields, LeftMissing DEF UpdateOK
    <3> QED  BY <3>1, <3>2, <3>3
  <2>13. CASE DeleteOdex
    BY <2>13 DEF DeleteOdex, None
  <2>14. CASE \E u \in Unlinked : ReconcileUnlinks(u)
    BY <2>14 DEF ReconcileUnlinks
  <2> QED
    BY <1>1, <2>4, <2>5, <2>6, <2>7, <2>8, <2>9, <2>10, <2>11, <2>12, <2>13, <2>14 DEF FileStep
<1>2. CASE CallStep
  <2>1. UNCHANGED <<secondary, n, file>>  BY <1>2, CallFrame
  <2>2. CASE OpenReference
    BY <2>1, <2>2, DexoptCall DEF OpenReference, Here, Goto, DexoptCalls, Use
  <2>3. CASE ~OpenReference
    BY <1>2, <2>1, <2>3, CallLabel
  <2> QED  BY <2>2, <2>3
<1>3. CASE BeginStep
  <2>1. UNCHANGED <<secondary, file>> /\ n' = n + 1 /\ pc = "idle" /\ pc' \notin Opening
    BY <1>3, BeginFrame DEF Moving
  <2>2. n \in Nat /\ \A k \in Kinds : file[k] # Missing => file[k].ino \in Nat /\ file[k].gen \in Nat
    BY DEF TypeOK, CallsType, FilesType, Slots, File
  <2> QED  BY <2>1, <2>2
<1>4. CASE AppsStep
  BY <1>4 DEF AppsStep, AppStarts, AppStops, AppTouchesDex, apps
<1>5. CASE UpdateStep
  <2>1. UNCHANGED <<secondary, file, pc>> /\ n' = n + 1 /\ pc = "idle"
    BY <1>5 DEF UpdateStep, Update
  <2>2. n \in Nat /\ \A k \in Kinds : file[k] # Missing => file[k].ino \in Nat /\ file[k].gen \in Nat
    BY DEF TypeOK, CallsType, FilesType, Slots, File
  <2> QED  BY <2>1, <2>2
<1>6. CASE SampleStep
  BY <1>6, SampleFrame, SampleLabel DEF SampleLabels
<1>7. CASE Die
  BY <1>7 DEF Die, artifacts, apps
<1> QED  BY StepKinds, <1>1, <1>2, <1>3, <1>4, <1>5, <1>6, <1>7

(* In a call of dexopt the files to be replaced stay as they are up to the *)
(* steps that replace them.                                                *)
LEMMA UpdateStepOK == ASSUME TypeOK, CallOK, FilesOK, UpdateOK, Next PROVE UpdateOK'
<1> USE DEF UpdateOK
<1>1. CASE FileStep
  <2>1. UNCHANGED <<secondary, n, boot>>  BY <1>1, FileFrame
  <2>2. n \in Nat /\ bfile \in [Kinds -> File \cup {Missing}] /\ file \in [Kinds -> File \cup {Missing}]
    BY DEF TypeOK, CallsType, FilesType, Slots
  <2> USE <2>1, <2>2 DEF Kinds, Return, Goto, Fails, None
  <2>3. CASE MoveOat
    <3>1. pc = "ab_oat" /\ pc' \in {"ab_vdex", "idle"} /\ ~secondary
      BY <2>3 DEF MoveOat, CallOK, Moving, ApkOps
    <3>2. CASE bfile' = None  BY <2>3, <3>1, <3>2 DEF MoveOat
    <3>3. CASE bfile["oat"] # Missing /\ bfile' = [bfile EXCEPT !["oat"] = Missing] /\ torn' = TRUE
               /\ file' = [file EXCEPT !["oat"] = bfile["oat"]] /\ pc' = "ab_vdex"
      BY <3>1, <3>3
    <3> QED  BY <2>3, <3>2, <3>3 DEF MoveOat
  <2>4. CASE MoveVdex
    <3>1. pc = "ab_vdex" /\ pc' \in {"ab_image", "idle"} /\ ~secondary /\ UNCHANGED torn
      BY <2>4 DEF MoveVdex, CallOK, Moving, ApkOps
    <3>2. CASE bfile' = None /\ pc' = "idle"  BY <3>1, <3>2
    <3>3. CASE bfile["vdex"] # Missing /\ bfile' = [bfile EXCEPT !["vdex"] = Missing]
               /\ file' = [file EXCEPT !["vdex"] = bfile["vdex"]] /\ pc' = "ab_image"
      BY <3>1, <3>3 DEF Whole
    <3> QED  BY <2>4, <3>2, <3>3 DEF MoveVdex
  <2>5. CASE MoveImage
    BY <2>5 DEF MoveImage
  <2>6. CASE ~MoveOat /\ ~MoveVdex /\ ~MoveImage
    <3>1. UNCHANGED bfile /\ pc # "idle" /\ pc' \notin {"ab_vdex", "ab_image"}
      BY <1>1, <2>6
      DEF FileStep, OpenOat, OpenVdex, Restorecon, OpenImage, Dex2oat, Cleanup, DeleteOdex,
          ReconcileUnlinks, Here, Others
    <3> QED  BY <3>1
  <2> QED  BY <2>3, <2>4, <2>5, <2>6
<1>2. CASE CallStep
  <2>1. UNCHANGED <<secondary, n, boot, bfile>> /\ pc # "idle" /\ pc' \notin {"ab_vdex", "ab_image"}
    BY <1>2, CallFrame, CallLabel DEF OpenReference, Goto, Here
  <2> QED  BY <2>1
<1>3. CASE BeginStep
  <2>1. UNCHANGED <<secondary, bfile, boot>> /\ n' = n + 1 /\ pc = "idle" /\ pc' \notin {"ab_vdex", "ab_image"}
    BY <1>3, BeginFrame DEF Moving
  <2>2. n \in Nat /\ \A k \in Kinds : bfile[k] # Missing => bfile[k].ino \in Nat /\ bfile[k].gen \in Nat
    BY DEF TypeOK, CallsType, FilesType, Slots, File
  <2> QED  BY <2>1, <2>2
<1>4. CASE AppsStep
  BY <1>4 DEF AppsStep, AppStarts, AppStops, AppTouchesDex, apps
<1>5. CASE UpdateStep
  <2>1. PICK kinds \in {Kinds, {"oat", "vdex"}, {"oat"}}, whole \in BOOLEAN :
          (whole <=> kinds # {"oat"}) /\ Update(kinds, whole)
    BY <1>5 DEF UpdateStep
  <2>2. pc' = "idle" /\ secondary' = secondary  BY <2>1 DEF Update
  <2>3. \A k \in Kinds : bfile'[k] # Missing =>
          /\ k \in kinds /\ ~secondary /\ bfile'[k].ino = n' /\ bfile'[k].gen = n' /\ bfile'[k].boot = boot'
          /\ bfile'[k].guided = {} /\ bfile'[k].whole = whole
    BY <2>1, NewType DEF Update, File, New
  <2>4. \A k \in kinds : whole \/ k = "oat"  BY <2>1
  <2>5. secondary => bfile' = None  BY <2>1 DEF Update, None
  <2>6. n' \in Nat  BY <2>1 DEF Update, TypeOK, CallsType
  <2> QED  BY <2>2, <2>3, <2>4, <2>5, <2>6
<1>6. CASE SampleStep
  BY <1>6, SampleFrame, SampleLabel DEF SampleLabels
<1>7. CASE Die
  BY <1>7 DEF Die, artifacts, apps
<1> QED  BY StepKinds, <1>1, <1>2, <1>3, <1>4, <1>5, <1>6, <1>7

(* dex2oat finishes the files that this call has opened.                   *)
LEMMA FinishedFields ==
  ASSUME TypeOK, FilesOK, Here("dex2oat")
  PROVE  /\ Finished("oat").public = file["oat"].public
         /\ Finished("oat").boot = boot
         /\ Finished("oat").guided = IF call.use.refOpen THEN In(ref) ELSE {}
         /\ \A k \in Kinds : Finished(k) # Missing =>
              /\ file[k] # Missing /\ Finished(k).ino = file[k].ino
              /\ \/ file[k].gen = n /\ Finished(k).gen = n /\ Finished(k).whole
                 \/ k = "image" /\ Finished(k) = file[k] /\ file[k].left
         /\ Finished("oat") # Missing /\ Finished("vdex") # Missing
<1>1. file["oat"] \in File /\ file["vdex"] \in File
      /\ (call.use.image => file["image"] \in File)
      /\ (~call.use.image => file["image"] = Missing \/ file["image"].left)
  BY DEF Here, FilesOK, Written, Opening, TypeOK, FilesType, Slots, Kinds
<1>2. \A k \in {"oat", "vdex"} : file[k].gen = n
  BY DEF Here, FilesOK, Written, Opening
<1>3. call.use.image => file["image"].gen = n
  BY DEF Here, FilesOK, Written
<1> DEFINE g == IF call.use.refOpen THEN In(ref) ELSE {}
           Done(f) == [f EXCEPT !.gen = n, !.whole = TRUE, !.boot = boot, !.guided = g]
<1>4. g \in SUBSET All  BY InType DEF TypeOK, ProfilesType
<1>5. n \in 0..MaxCalls /\ boot \in 0..MaxBoot  BY DEF TypeOK, CallsType, FilesType
<1>6. /\ Finished("oat") = Done(file["oat"]) /\ Finished("vdex") = Done(file["vdex"])
      /\ Finished("image") = IF call.use.image THEN Done(file["image"]) ELSE file["image"]
  BY DEF Finished
<1> HIDE DEF g
<1>7. \A f \in File : /\ Done(f) \in File /\ Done(f).ino = f.ino /\ Done(f).gen = n /\ Done(f).whole
                      /\ Done(f).boot = boot /\ Done(f).guided = g /\ Done(f).public = f.public
  BY <1>4, <1>5 DEF File, All
<1> HIDE DEF Done
<1>8. Finished("oat") # Missing /\ Finished("vdex") # Missing
  BY <1>1, <1>6, <1>7, DexoptAssumption
<1>9. \A k \in Kinds : Finished(k) # Missing =>
        /\ file[k] # Missing /\ Finished(k).ino = file[k].ino
        /\ \/ file[k].gen = n /\ Finished(k).gen = n /\ Finished(k).whole
           \/ k = "image" /\ Finished(k) = file[k] /\ file[k].left
  <2>1. \A k \in {"oat", "vdex"} :
          file[k] # Missing /\ Finished(k).ino = file[k].ino /\ file[k].gen = n
          /\ Finished(k).gen = n /\ Finished(k).whole
    BY <1>1, <1>2, <1>6, <1>7, DexoptAssumption
  <2>2. Finished("image") # Missing =>
          /\ file["image"] # Missing /\ Finished("image").ino = file["image"].ino
          /\ \/ file["image"].gen = n /\ Finished("image").gen = n /\ Finished("image").whole
             \/ Finished("image") = file["image"] /\ file["image"].left
    BY <1>1, <1>3, <1>6, <1>7, DexoptAssumption
  <2> QED  BY <2>1, <2>2 DEF Kinds
<1> QED  BY <1>1, <1>6, <1>7, <1>8, <1>9 DEF g

(* What an app has mapped is not what dexopt is about to write.            *)
LEMMA MappedStepOK ==
  ASSUME TypeOK, CallOK, FilesOK, UpdateOK, MappedOK, Next
  PROVE  MappedOK'
<1> USE DEF MappedOK
<1>1. CASE FileStep
  <2>1. UNCHANGED <<secondary, n, boot, mapped>> /\ pc # "idle"
    BY <1>1, FileFrame
    DEF FileStep, OpenOat, OpenVdex, Restorecon, OpenImage, Dex2oat, Cleanup, MoveOat, MoveVdex,
         MoveImage,
        DeleteOdex, ReconcileUnlinks, Here
  <2>2. n \in Nat /\ bfile \in [Kinds -> File \cup {Missing}] /\ file \in [Kinds -> File \cup {Missing}]
        /\ New \in File
    BY NewType DEF TypeOK, CallsType, FilesType, Slots
  <2>3. \A k \in Kinds : bfile[k] # Missing => bfile[k].ino < n /\ bfile[k].boot = boot
    BY <2>1 DEF UpdateOK
  <2>4. \A f \in File : f.ino \in Nat  BY DEF File
  <2> USE <2>1, <2>2, <2>3, <2>4 DEF Kinds, Return, Goto, Fails, None
  <2>5. CASE OpenOat
    <3>1. UNCHANGED <<call, bfile>> /\ pc = "oat"  BY <2>5 DEF OpenOat, Here, Others, Same
    <3>2. CASE file' = [file EXCEPT !["oat"] = [New EXCEPT !.public = call.use.public]]
      <4>1. call.use.public \in BOOLEAN  BY <2>5, DexoptCall DEF OpenOat, Here, Use
      <4>2. file'["oat"].ino = n /\ file'["oat"].boot = boot /\ ~file'["oat"].whole
            /\ file'["vdex"] = file["vdex"] /\ file'["image"] = file["image"]
        BY <3>2, <4>1, NewFields DEF File
      <4> QED  BY <3>1, <4>2 DEF Whole, BeforeVdex
    <3>3. CASE pc' = "idle" /\ file'["oat"] \in {file["oat"], Missing, Left(New)}
      <4>1. file'["oat"] \in {file["oat"], Missing} \/ (file'["oat"].ino = n /\ file'["oat"].boot = boot)
        BY <3>3, NewFields, LeftFields
      <4> QED  BY <2>5, <3>1, <3>3, <4>1, OpenOatFiles DEF BeforeVdex
    <3> QED  BY <2>5, <3>2, <3>3, OpenOatFiles DEF OpenOat, Recreated
  <2>6. CASE OpenVdex
    <3>1. UNCHANGED <<call, bfile>> /\ pc' \notin BeforeVdex
      BY <2>6 DEF OpenVdex, Here, Others, Same, BeforeVdex
    <3>2. file'["vdex"] # Missing => file'["vdex"].ino = n \/ (file["vdex"] # Missing /\ file'["vdex"].ino = file["vdex"].ino)
      <4>1. file["vdex"] # Missing => file["vdex"] \in File  OBVIOUS
      <4>2. Opened(file["vdex"]) \in File
            /\ (Opened(file["vdex"]).ino = n
                \/ (file["vdex"] # Missing /\ Opened(file["vdex"]).ino = file["vdex"].ino))
        BY <4>1, NewFields, ReopenedFields DEF Opened
      <4>3. Left(Opened(file["vdex"])).ino = Opened(file["vdex"]).ino  BY <4>2, LeftFields
      <4>4. file["vdex"] # Missing => Left(file["vdex"]).ino = file["vdex"].ino  BY <4>1, LeftFields
      <4>5. file'["vdex"] \in {Missing, Opened(file["vdex"]), Left(file["vdex"]), Left(Opened(file["vdex"]))}
        BY <2>6, OpenVdexFiles
      <4> QED  BY <4>2, <4>3, <4>4, <4>5, LeftMissing
    <3>3. file'["image"] = file["image"]
          /\ (file'["oat"] # Missing => file["oat"] # Missing /\ file'["oat"].ino = file["oat"].ino
                                         /\ file'["oat"].boot = file["oat"].boot)
      <4>1. file'["image"] = file["image"] /\ file'["oat"] \in {file["oat"], Missing, Left(file["oat"])}
        BY <2>6, OpenVdexFiles
      <4>2. file["oat"] # Missing => /\ Left(file["oat"]).ino = file["oat"].ino
                                     /\ Left(file["oat"]).boot = file["oat"].boot
        BY LeftFields
      <4> QED  BY <4>1, <4>2, LeftMissing
    <3> QED  BY <3>1, <3>2, <3>3
  <2>7. CASE Restorecon
    <3>1. UNCHANGED <<call, bfile>> /\ pc' \notin BeforeVdex
      BY <2>7, RestoreconFiles DEF Restorecon, Others, Same, BeforeVdex
    <3>2. \A k \in Kinds : file'[k] # Missing =>
            file[k] # Missing /\ file'[k].ino = file[k].ino /\ file'[k].boot = file[k].boot
      BY <2>7, RestoreconFiles, LeftFields, LeftMissing
    <3> QED  BY <3>1, <3>2
  <2>8. CASE OpenImage
    <3>1. UNCHANGED bfile /\ pc' = "profile" /\ file'["oat"] = file["oat"] /\ file'["vdex"] = file["vdex"]
      BY <2>8, OpenImageFiles DEF OpenImage
    <3>2. file'["image"] # Missing =>
            file'["image"].ino = n \/ (file["image"] # Missing /\ file'["image"].ino = file["image"].ino)
      BY <2>8, OpenImageFiles, NewFields, LeftFields, LeftMissing DEF ImageOf
    <3> QED  BY <3>1, <3>2 DEF BeforeVdex
  <2>9. CASE Dex2oat
    <3>1. UNCHANGED bfile /\ pc' \in {"idle", "cleanup"}  BY <2>9 DEF Dex2oat
    <3>2. \A k \in Kinds : file'[k] # Missing => file[k] # Missing /\ file'[k].ino = file[k].ino
      BY <2>9, FinishedFields DEF Dex2oat
    <3>3. file'["oat"].boot \in {file["oat"].boot, boot} /\ file["oat"] # Missing
      BY <2>9, FinishedFields DEF Dex2oat
    <3> QED  BY <3>1, <3>2, <3>3 DEF BeforeVdex
  <2>10. CASE Cleanup
    <3>1. UNCHANGED <<call, bfile>> /\ pc' = "idle"  BY <2>10 DEF Cleanup, Others, Same
    <3>2. \A k \in Kinds : file'[k] # Missing =>
            file[k] # Missing /\ file'[k].ino = file[k].ino /\ file'[k].boot = file[k].boot
      BY <2>10, CleanupFiles, LeftFields, LeftMissing
    <3> QED  BY <3>1, <3>2 DEF BeforeVdex
  <2>11. CASE MoveOat
    BY <2>11 DEF MoveOat, Same, CallOK, Moving, BeforeVdex
  <2>12. CASE MoveVdex
    BY <2>12 DEF MoveVdex, Same, CallOK, Moving, BeforeVdex
  <2>13. CASE MoveImage
    <3>1. bfile' = None /\ pc' = "idle"  BY <2>13, MoveImageFiles DEF MoveImage
    <3>2. file'["image"] # Missing =>
            \/ bfile["image"] # Missing /\ file'["image"].ino = bfile["image"].ino
            \/ file["image"] # Missing /\ file'["image"].ino = file["image"].ino
      BY <2>13, MoveImageFiles, LeftFields, LeftMissing
    <3> QED  BY <2>13, <3>1, <3>2, MoveImageFiles DEF BeforeVdex
  <2>14. CASE DeleteOdex
    BY <2>14 DEF DeleteOdex, BeforeVdex
  <2>15. CASE \E u \in Unlinked : ReconcileUnlinks(u)
    BY <2>15 DEF ReconcileUnlinks, BeforeVdex
  <2> QED
    BY <1>1, <2>5, <2>6, <2>7, <2>8, <2>9, <2>10, <2>11, <2>12, <2>13, <2>14, <2>15 DEF FileStep
<1>2. CASE CallStep
  <2>1. UNCHANGED <<secondary, n, boot, file, bfile, mapped>> /\ pc # "idle"
    BY <1>2, CallFrame, CallLabel DEF OpenReference, Here
  <2>2. CASE Analyzer
    <3>1. call \in DexoptCalls /\ call.use \in Use  BY <2>2, DexoptCall DEF Analyzer, Here
    <3>2. CASE UNCHANGED call /\ pc' = "idle"
      BY <2>1, <3>2 DEF BeforeVdex
    <3>3. CASE \E v : v = (IF call.force THEN "scratch" ELSE Needed(job.code = "compile"))
                     /\ call' = [call EXCEPT !.use.needed = v, !.use.public = Visible(call)]
      <4>1. PICK v : v = (IF call.force THEN "scratch" ELSE Needed(job.code = "compile"))
                     /\ call' = [call EXCEPT !.use.needed = v, !.use.public = Visible(call)]
        BY <3>3
      <4>2. call'.use = [call.use EXCEPT !.needed = v, !.public = Visible(call)]
        BY <3>1, <4>1 DEF DexoptCalls
      <4>3. call'.use.needed = v  BY <3>1, <4>2 DEF Use
      <4>4. call'.use.needed = "bootimage" => Whole(file["oat"]) /\ file["oat"].boot # boot
        BY <4>1, <4>3 DEF Needed
      <4> QED  BY <2>1, <4>4 DEF Whole
    <3> QED  BY <2>2, <3>2, <3>3, Zenon DEF Analyzer, Fails, Return
  <2>3. CASE OpenReference
    BY <2>1, <2>3 DEF OpenReference, Goto, BeforeVdex
  <2>4. CASE SecondaryBegins \/ OpenInput \/ ReconcileChecks
    BY <2>1, <2>4
    DEF SecondaryBegins, OpenInput, ReconcileChecks, Here, Others, Same, Return, Goto, Fails, BeforeVdex
  <2> QED  BY <1>2, <2>2, <2>3, <2>4 DEF CallStep
<1>3. CASE BeginStep
  <2>1. UNCHANGED <<secondary, file, bfile, mapped, boot>> /\ n' = n + 1 /\ pc = "idle"
    BY <1>3, BeginFrame
  <2>2. n \in Nat /\ \A k \in Kinds : mapped[k] # Missing => mapped[k].ino \in Nat
    BY DEF TypeOK, CallsType, FilesType, Slots, File
  <2>3. CASE BeginDexopt
    <3>1. PICK f \in Flags :
            call' = [f EXCEPT !.use.needed = IF f.force THEN "scratch" ELSE Needed(TRUE)]
      BY <2>3 DEF BeginDexopt, Begin
    <3>2. f \in DexoptCalls  BY DexoptAssumption, CallType
    <3>3. call'.use.needed = IF f.force THEN "scratch" ELSE Needed(TRUE)
      BY <3>1, <3>2 DEF DexoptCalls, Use
    <3>4. call'.use.needed = "bootimage" => Whole(file["oat"]) /\ file["oat"].boot # boot
      BY <3>3 DEF Needed
    <3> QED  BY <2>1, <2>2, <3>4 DEF Whole
  <2>4. CASE BeginArtifacts /\ ~BeginDexopt
    BY <2>1, <2>2, <2>4 DEF BeginArtifacts, Begin
  <2>5. CASE BeginProfiles
    BY <2>1, <2>2, <2>5 DEF BeginProfiles, Begin
  <2> QED  BY <1>3, <2>3, <2>4, <2>5 DEF BeginStep
<1>4. CASE AppStarts
  <2>1. mapped' = file /\ Whole(file["oat"]) /\ file["oat"].boot = boot
        /\ UNCHANGED <<n, pc, boot, file, bfile, call>>
    BY <1>4 DEF AppStarts
  <2>2. \A k \in Kinds : file[k] # Missing => file[k].ino <= n /\ (pc # "idle" => file[k].ino < n)
    BY <2>1 DEF FilesOK, Opening, Older, Whole
  <2> QED  BY <2>1, <2>2
<1>5. CASE AppStops
  BY <1>5 DEF AppStops, None
<1>6. CASE \E d \in {Missing, "private", "public"} : AppTouchesDex(d)
  BY <1>6 DEF AppTouchesDex
<1>7. CASE UpdateStep
  <2>1. PICK kinds \in {Kinds, {"oat", "vdex"}, {"oat"}}, whole \in BOOLEAN : Update(kinds, whole)
    BY <1>7 DEF UpdateStep
  <2>2. mapped' = None /\ pc' = "idle" /\ n' = n + 1 /\ file' = file  BY <2>1 DEF Update
  <2>3. \A k \in Kinds : bfile'[k] # Missing => bfile'[k].ino = n'
    BY <2>1, NewType DEF Update, File, New
  <2>4. \A k \in Kinds : file[k] # Missing => file[k].ino <= n /\ file[k].ino \in Nat
    BY DEF FilesOK, TypeOK, FilesType, Slots, File
  <2>5. n \in Nat  BY DEF TypeOK, CallsType
  <2> QED  BY <2>2, <2>3, <2>4, <2>5 DEF None, BeforeVdex
<1>8. CASE SampleStep
  BY <1>8, SampleFrame, SampleLabel DEF SampleLabels, BeforeVdex, CallOK
<1>9. CASE Die
  BY <1>9 DEF Die, artifacts, apps, BeforeVdex
<1> QED  BY StepKinds, <1>1, <1>2, <1>3, <1>4, <1>5, <1>6, <1>7, <1>8, <1>9 DEF AppsStep

----------------------------------------------------------------------------
(* The properties of the files.                                            *)

(* Only the steps on files change them.                                    *)
LEMMA FilesUntouched == ASSUME Next, ~FileStep PROVE UNCHANGED <<file, torn>>
<1>1. CASE CallStep  BY <1>1, CallFrame
<1>2. CASE BeginStep  BY <1>2, BeginFrame
<1>3. CASE AppsStep  BY <1>3 DEF AppsStep, AppStarts, AppStops, AppTouchesDex
<1>4. CASE UpdateStep  BY <1>4 DEF UpdateStep, Update
<1>5. CASE SampleStep  BY <1>5, SampleFrame
<1>6. CASE Die  BY <1>6 DEF Die, artifacts
<1> QED  BY StepKinds, <1>1, <1>2, <1>3, <1>4, <1>5, <1>6

(* Files that lie together go on fitting together.                         *)
LEMMA MatchedStep ==
  ASSUME TypeOK, CallOK, FilesOK, UpdateOK, Matched, Next
  PROVE  Matched'
<1> USE DEF Matched, Whole
<1>1. CASE FileStep
  <2>1. n' = n /\ secondary' = secondary  BY <1>1, FileFrame
  <2>2. n \in Nat /\ file \in [Kinds -> File \cup {Missing}]
    BY DEF TypeOK, CallsType, FilesType, Slots
  <2> USE <2>1, <2>2 DEF Kinds, Return, Goto, Fails, None
  <2>3. CASE OpenOat
    <3>1. CASE file'["oat"] = [New EXCEPT !.public = call.use.public]
      BY <3>1, NewType DEF File, New
    <3>2. CASE file'["oat"] \in {file["oat"], Missing, Left(New)} /\ UNCHANGED torn
      <4>1. ~Left(New).whole  BY NewType, NewFields, LeftFields
      <4> QED  BY <2>3, <3>2, <4>1, OpenOatFiles
    <3> QED  BY <2>3, <3>1, <3>2, OpenOatFiles
  <2>4. CASE OpenVdex
    <3>1. file["oat"] # Missing /\ ~file["oat"].whole
      BY <2>4 DEF OpenVdex, Here, FilesOK, Written, Opening
    <3>2. file'["oat"] # Missing => ~file'["oat"].whole
      BY <2>4, <3>1, OpenVdexFiles, LeftFields
    <3> QED  BY <3>2
  <2>5. CASE Restorecon
    <3>1. file["oat"] # Missing /\ ~file["oat"].whole
      BY <2>5 DEF Restorecon, Here, FilesOK, Written, Opening
    <3>2. file'["oat"] # Missing => ~file'["oat"].whole
      BY <2>5, <3>1, RestoreconFiles, LeftFields
    <3> QED  BY <3>2
  <2>6. CASE OpenImage
    BY <2>6, OpenImageFiles DEF FilesOK, Opening
  <2>7. CASE Dex2oat
    <3>1. CASE UNCHANGED file  BY <2>7, <3>1 DEF Dex2oat
    <3>2. CASE file' = [k \in Kinds |-> IF k = "image" /\ secondary THEN file[k] ELSE Finished(k)]
      <4>1. file'["oat"] = Finished("oat") /\ file'["vdex"] = Finished("vdex")
            /\ file'["image"] \in {Finished("image"), Missing}
        BY <3>2 DEF FilesOK
      <4> QED  BY <2>7, <4>1, FinishedFields DEF Dex2oat
    <3> QED  BY <2>7, <3>1, <3>2 DEF Dex2oat
  <2>8. CASE Cleanup
    <3>1. file["oat"] # Missing /\ ~file["oat"].whole
      BY <2>8, CleanupFiles DEF FilesOK, Written, Opening
    <3>2. file'["oat"] # Missing => ~file'["oat"].whole
      BY <2>8, <3>1, CleanupFiles, LeftFields
    <3> QED  BY <3>2
  <2>9. CASE MoveOat
    BY <2>9 DEF MoveOat
  <2>10. CASE MoveVdex
    BY <2>10 DEF MoveVdex, UpdateOK
  <2>11. CASE MoveImage
    <3>1. file'["image"] # Missing => file'["image"].left \/ file'["image"].gen = file["oat"].gen
      BY <2>11, MoveImageFiles, LeftFields, LeftMissing DEF UpdateOK
    <3> QED  BY <2>11, <3>1, MoveImageFiles DEF UpdateOK
  <2>12. CASE DeleteOdex
    BY <2>12 DEF DeleteOdex
  <2>13. CASE \E u \in Unlinked : ReconcileUnlinks(u)
    BY <2>13 DEF ReconcileUnlinks
  <2> QED
    BY <1>1, <2>3, <2>4, <2>5, <2>6, <2>7, <2>8, <2>9, <2>10, <2>11, <2>12, <2>13 DEF FileStep
<1>2. CASE UNCHANGED <<file, torn>>
  BY <1>2
<1> QED  BY <1>1, <1>2, FilesUntouched

(* No step writes to a file that an app has mapped.                        *)
LEMMA MappedStep ==
  ASSUME TypeOK, CallOK, FilesOK, UpdateOK, MappedOK, NeverModifiesMapped, Next
  PROVE  NeverModifiesMapped'
<1> USE DEF NeverModifiesMapped
<1>1. CASE FileStep
  <2>1. n' = n /\ mapped' = mapped /\ secondary' = secondary  BY <1>1, FileFrame
  <2>2. n \in Nat /\ file \in [Kinds -> File \cup {Missing}] /\ New \in File
    BY NewType DEF TypeOK, CallsType, FilesType, Slots
  <2>3. pc # "idle"
    BY <1>1
    DEF FileStep, OpenOat, OpenVdex, Restorecon, OpenImage, Dex2oat, Cleanup, MoveOat, MoveVdex,
         MoveImage,
        DeleteOdex, ReconcileUnlinks, Here
  <2>4. \A k \in Kinds : mapped[k] # Missing => mapped[k].ino # n
    <3>1. \A k \in Kinds : mapped[k] # Missing => mapped[k].ino \in Nat
      BY DEF TypeOK, FilesType, Slots, File
    <3> QED  BY <2>2, <2>3, <3>1 DEF MappedOK
  <2> USE <2>1, <2>2, <2>4 DEF Kinds, None
  <2>5. CASE OpenOat
    <3>1. [New EXCEPT !.public = call.use.public].ino = n /\ Left(New).ino = n
      BY NewFields, LeftFields DEF File
    <3>2. file'["oat"] \in {Missing, file["oat"]} \/ file'["oat"].ino = n
      BY <2>5, <3>1, OpenOatFiles
    <3>3. file'["vdex"] = file["vdex"] /\ file'["image"] = file["image"]  BY <2>5, OpenOatFiles
    <3> QED  BY <3>2, <3>3
  <2>6. CASE OpenVdex
    <3>1. InPlace(call) => mapped = None
      BY <2>6 DEF OpenVdex, Here, InPlace, MappedOK, BeforeVdex
    <3>2. \/ file'["vdex"] = Missing \/ InPlace(call) \/ file'["vdex"].ino = n
          \/ file["vdex"] # Missing /\ file'["vdex"].ino = file["vdex"].ino /\ file'["vdex"].gen = file["vdex"].gen
      <4>1. file["vdex"] # Missing => /\ Left(file["vdex"]).ino = file["vdex"].ino
                                      /\ Left(file["vdex"]).gen = file["vdex"].gen
        BY LeftFields
      <4>2. New.ino = n /\ Left(New).ino = n  BY NewFields, LeftFields
      <4>3. InPlace(call) \/ Opened(file["vdex"]) = New  BY DEF Opened
      <4>4. file'["vdex"] \in {Missing, Opened(file["vdex"]), Left(file["vdex"]), Left(Opened(file["vdex"]))}
        BY <2>6, OpenVdexFiles
      <4> QED  BY <4>1, <4>2, <4>3, <4>4, LeftMissing
    <3>3. file'["image"] = file["image"]
          /\ (file'["oat"] # Missing => file["oat"] # Missing /\ file'["oat"].ino = file["oat"].ino
                                         /\ file'["oat"].gen = file["oat"].gen)
      <4>1. file'["image"] = file["image"] /\ file'["oat"] \in {file["oat"], Missing, Left(file["oat"])}
        BY <2>6, OpenVdexFiles
      <4>2. file["oat"] # Missing => /\ Left(file["oat"]).ino = file["oat"].ino
                                     /\ Left(file["oat"]).gen = file["oat"].gen
        BY LeftFields
      <4> QED  BY <4>1, <4>2, LeftMissing
    <3> QED  BY <3>1, <3>2, <3>3
  <2>7. CASE Restorecon
    BY <2>7, RestoreconFiles, LeftFields, LeftMissing
  <2>8. CASE OpenImage
    <3>1. \/ file'["image"] = Missing \/ file'["image"].ino = n
          \/ file["image"] # Missing /\ file'["image"].ino = file["image"].ino
             /\ file'["image"].gen = file["image"].gen
      BY <2>8, OpenImageFiles, NewFields, LeftFields, LeftMissing DEF ImageOf
    <3> QED  BY <2>8, <3>1, OpenImageFiles
  <2>9. CASE Dex2oat
    <3>1. \A k \in Kinds : file'[k] \in {file[k], Finished(k)}  BY <2>9 DEF Dex2oat
    <3>2. Here("dex2oat")  BY <2>9 DEF Dex2oat
    <3>3. \A k \in Kinds : Finished(k) # Missing =>
            file[k] # Missing /\ Finished(k).ino = file[k].ino /\ Finished(k).gen = file[k].gen
      BY <3>2, FinishedFields
    <3> QED  BY <3>1, <3>3
  <2>10. CASE Cleanup
    BY <2>10, CleanupFiles, LeftFields, LeftMissing
  <2>11. CASE MoveOat \/ MoveVdex
    BY <2>11 DEF MoveOat, MoveVdex, MappedOK
  <2>14. CASE MoveImage
    BY <2>14, MoveImageFiles, LeftFields, LeftMissing DEF MappedOK
  <2>12. CASE DeleteOdex
    BY <2>12 DEF DeleteOdex
  <2>13. CASE \E u \in Unlinked : ReconcileUnlinks(u)
    BY <2>13 DEF ReconcileUnlinks
  <2> QED
    BY <1>1, <2>5, <2>6, <2>7, <2>8, <2>9, <2>10, <2>11, <2>12, <2>13, <2>14 DEF FileStep
<1>2. CASE AppsStep
  BY <1>2 DEF AppsStep, AppStarts, AppStops, AppTouchesDex, None
<1>3. CASE UpdateStep
  BY <1>3 DEF UpdateStep, Update, None
<1>4. CASE CallStep \/ BeginStep \/ SampleStep \/ Die
  BY <1>4, CallFrame, BeginFrame, SampleFrame DEF Die, artifacts
<1> QED  BY StepKinds, <1>1, <1>2, <1>3, <1>4

(* Public code stays free of the samples of its owner.                     *)
LEMMA PrivacyStep ==
  ASSUME TypeOK, CallOK, FilesOK, UpdateOK, PrivacyKept, Next
  PROVE  PrivacyKept'
<1> USE DEF PrivacyKept, Whole
<1>1. CASE FileStep
  <2>1. secondary' = secondary  BY <1>1, FileFrame
  <2>2. file \in [Kinds -> File \cup {Missing}] /\ New \in File
    BY NewType DEF TypeOK, FilesType, Slots
  <2> USE <2>1, <2>2 DEF Kinds, None
  <2>3. CASE OpenOat
    <3>1. ~[New EXCEPT !.public = call.use.public].whole /\ ~Left(New).whole
      BY NewFields, LeftFields DEF File
    <3> QED  BY <2>3, <3>1, OpenOatFiles
  <2>4. CASE Dex2oat
    <3>1. file'["oat"] \in {file["oat"], Finished("oat")}  BY <2>4 DEF Dex2oat
    <3>2. file["oat"].public = call.use.public
      BY <2>4 DEF Dex2oat, Here, FilesOK, Opening
    <3>3. secondary /\ call.use.public => ~call.use.refOpen
      BY <2>4 DEF Dex2oat, Here, CallOK
    <3> QED  BY <2>4, <3>1, <3>2, <3>3, FinishedFields DEF Dex2oat
  <2>5. CASE MoveOat
    BY <2>5 DEF MoveOat, UpdateOK
  <2>6. CASE ~OpenOat /\ ~Dex2oat /\ ~MoveOat
    <3>1. file'["oat"] \in {Missing, file["oat"], Left(file["oat"])}
      <4>1. CASE OpenVdex \/ Restorecon \/ OpenImage
        BY <4>1, OpenVdexFiles, RestoreconFiles, OpenImageFiles
      <4>2. CASE Cleanup \/ MoveImage
        BY <4>2, CleanupFiles, MoveImageFiles
      <4>3. CASE MoveVdex \/ DeleteOdex \/ \E u \in Unlinked : ReconcileUnlinks(u)
        BY <4>3 DEF MoveVdex, DeleteOdex, ReconcileUnlinks
      <4> QED  BY <1>1, <2>6, <4>1, <4>2, <4>3 DEF FileStep
    <3> QED  BY <3>1, LeftFields, LeftMissing
  <2> QED  BY <2>3, <2>4, <2>5, <2>6
<1>2. CASE ~FileStep
  <2>1. secondary' = secondary
    BY <1>2, StepKinds, CallFrame, BeginFrame, SampleFrame
    DEF AppsStep, AppStarts, AppStops, AppTouchesDex, UpdateStep, Update, Die, apps
  <2> QED  BY <1>2, <2>1, FilesUntouched
<1> QED  BY <1>1, <1>2

(* A compilation that fails takes its files away.                          *)
LEMMA FailedStep ==
  ASSUME TypeOK, CallOK, FilesOK, FailedLeavesNothing, Next
  PROVE  FailedLeavesNothing'
<1> USE DEF FailedLeavesNothing, Returned
<1>1. CASE FileStep
  <2>1. n' = n  BY <1>1, FileFrame
  <2>2. n \in Nat /\ file \in [Kinds -> File \cup {Missing}]
    BY DEF TypeOK, CallsType, FilesType, Slots
  <2>3. \A k \in Kinds : file[k] # Missing => file[k].gen \in Nat
    BY <2>2 DEF File
  <2> USE <2>1, <2>2, <2>3 DEF Kinds, Return, Goto, Fails, None
  <2>4. CASE OpenOat
    <3>1. \A k \in Kinds : Older(file[k])  BY <2>4, OpenOatFiles DEF FilesOK, Opening
    <3>2. Left(New).left /\ ~Left(New).whole  BY NewType, NewFields, LeftFields
    <3> QED  BY <2>4, <3>1, <3>2, OpenOatFiles DEF Older
  <2>5. CASE OpenVdex
    <3>1. file["oat"] # Missing /\ ~file["oat"].whole /\ Older(file["vdex"]) /\ Older(file["image"])
      BY <2>5, OpenVdexFiles DEF FilesOK, Opening, Written
    <3>2. Opened(file["vdex"]) \in File /\ ~Opened(file["vdex"]).whole
      BY NewType, NewFields, ReopenedFields DEF Opened
    <3>3. pc' = "idle" => \A k \in Kinds : file'[k] # Missing /\ file'[k].gen = n => file'[k].left /\ ~file'[k].whole
      BY <2>5, <3>1, <3>2, OpenVdexFiles, LeftFields, LeftMissing DEF Older
    <3> QED  BY <3>3
  <2>6. CASE Restorecon
    <3>1. file["oat"] # Missing /\ ~file["oat"].whole /\ file["vdex"] # Missing /\ ~file["vdex"].whole
          /\ Older(file["image"])
      BY <2>6, RestoreconFiles DEF FilesOK, Opening, Written
    <3>2. pc' = "idle" => \A k \in Kinds : file'[k] # Missing /\ file'[k].gen = n => file'[k].left /\ ~file'[k].whole
      BY <2>6, <3>1, RestoreconFiles, LeftFields DEF Older
    <3> QED  BY <3>2
  <2>7. CASE OpenImage \/ Dex2oat
    BY <2>7 DEF OpenImage, Dex2oat
  <2>8. CASE Cleanup
    <3>1. \A k \in Kinds : Written(k) => ~file[k].whole
      BY <2>8, CleanupFiles DEF FilesOK, Opening
    <3>2. \A k \in Kinds : file'[k] # Missing /\ file'[k].gen = n => file'[k].left /\ ~file'[k].whole
      BY <2>8, <3>1, CleanupFiles, LeftFields, LeftMissing DEF Written, Wrapped, FilesOK
    <3> QED  BY <3>2
  <2>9. CASE MoveOat \/ MoveVdex \/ MoveImage \/ DeleteOdex \/ \E u \in Unlinked : ReconcileUnlinks(u)
    <3>1. call.op # "dexopt" /\ call' = call
      BY <2>9 DEF MoveOat, MoveVdex, MoveImage, DeleteOdex, ReconcileUnlinks, CallOK, Moving, Same
    <3> QED  BY <3>1
  <2> QED  BY <1>1, <2>4, <2>5, <2>6, <2>7, <2>8, <2>9 DEF FileStep
<1>2. CASE CallStep
  <2>1. UNCHANGED <<n, file>>  BY <1>2, CallFrame
  <2>2. CASE OpenReference  BY <2>2 DEF OpenReference, Goto
  <2>3. CASE ~OpenReference
    <3>1. \A k \in Kinds : Older(file[k])  BY <1>2, <2>3, CallLabel DEF FilesOK, Opening
    <3>2. n \in Nat /\ \A k \in Kinds : file[k] # Missing => file[k].gen \in Nat
      BY DEF TypeOK, CallsType, FilesType, Slots, File
    <3> QED  BY <2>1, <3>1, <3>2 DEF Older
  <2> QED  BY <2>2, <2>3
<1>3. CASE BeginStep
  BY <1>3 DEF BeginStep, BeginArtifacts, BeginDexopt, BeginProfiles, Begin
<1>4. CASE AppsStep
  BY <1>4 DEF AppsStep, AppStarts, AppStops, AppTouchesDex
<1>5. CASE UpdateStep
  <2>1. n' = n + 1 /\ UNCHANGED file  BY <1>5 DEF UpdateStep, Update
  <2>2. n \in Nat /\ \A k \in Kinds : file[k] # Missing => file[k].gen \in Nat
    BY DEF TypeOK, CallsType, FilesType, Slots, File
  <2> QED  BY <2>1, <2>2 DEF FilesOK
<1>6. CASE SampleStep
  BY <1>6, SampleFrame, SampleLabel
<1>7. CASE Die
  BY <1>7 DEF Die
<1> QED  BY StepKinds, <1>1, <1>2, <1>3, <1>4, <1>5, <1>6, <1>7

(* While the call is idle nothing but a new call touches the reference     *)
(* profile.                                                                *)
LEMMA ForgottenStep ==
  ASSUME TypeOK, CallOK, BadProfileForgotten, Next
  PROVE  BadProfileForgotten'
<1> USE DEF BadProfileForgotten, Returned
<1>1. CASE FileStep
  <2>1. CASE Cleanup
    BY <2>1 DEF Cleanup, Cleared, CloseFirst, In, Others, Same
  <2>2. CASE OpenImage \/ Dex2oat
    BY <2>2 DEF OpenImage, Dex2oat, Return, Goto
  <2>3. CASE OpenOat \/ OpenVdex \/ Restorecon
    <3>1. ~call.use.refOpen /\ call' = call
      BY <2>3 DEF OpenOat, OpenVdex, Restorecon, Here, CallOK, Others, Same
    <3> QED  BY <3>1
  <2>4. CASE MoveOat \/ MoveVdex \/ MoveImage \/ DeleteOdex \/ \E u \in Unlinked : ReconcileUnlinks(u)
    <3>1. call.op # "dexopt" /\ call' = call
      BY <2>4 DEF MoveOat, MoveVdex, MoveImage, DeleteOdex, ReconcileUnlinks, CallOK, Moving, Same
    <3> QED  BY <3>1
  <2> QED  BY <1>1, <2>1, <2>2, <2>3, <2>4 DEF FileStep
<1>2. CASE CallStep
  <2>1. CASE OpenReference  BY <2>1 DEF OpenReference, Goto
  <2>2. CASE SecondaryBegins \/ OpenInput
    BY <2>2 DEF SecondaryBegins, OpenInput, Here, CallOK, Others, Same
  <2>3. CASE ReconcileChecks
    BY <2>3 DEF ReconcileChecks, CallOK, Same
  <2>4. CASE Analyzer
    <3>1. pc' = "idle" /\ ~result' => UNCHANGED call  BY <2>4, Zenon DEF Analyzer, Return, Goto
    <3>2. ~call.use.refOpen  BY <2>4 DEF Analyzer, Here, CallOK
    <3> QED  BY <3>1, <3>2
  <2> QED  BY <1>2, <2>1, <2>2, <2>3, <2>4 DEF CallStep
<1>3. CASE BeginStep
  BY <1>3 DEF BeginStep, BeginArtifacts, BeginDexopt, BeginProfiles, Begin
<1>4. CASE AppsStep
  BY <1>4 DEF AppsStep, AppStarts, AppStops, AppTouchesDex, files
<1>5. CASE UpdateStep
  BY <1>5 DEF UpdateStep, Update, files
<1>6. CASE SampleStep
  <2>1. CASE ProfileStep
    <3>1. pc' # "idle" \/ call.op # "dexopt"
      BY <1>6, <2>1, SampleLabel
      DEF SampleLabels, ProfileStep, OpenProfiles, Merge, ClearCurrent, ClearReference,
       ClearAppProfiles, ClearAppProfilesEnds, SnapshotOpen, Snapshot, DestroySnapshot, Dump,
       CopySystemProfile, PrepareAppProfile
    <3> QED  BY <1>6, <3>1, SampleFrame
  <2>2. CASE AppStep
    BY <2>2 DEF AppStep, AppLock, AppSave, AppDies, files
  <2> QED  BY <1>6, <2>1, <2>2 DEF SampleStep
<1>7. CASE Die
  BY <1>7 DEF Die
<1> QED  BY StepKinds, <1>1, <1>2, <1>3, <1>4, <1>5, <1>6, <1>7

----------------------------------------------------------------------------
(* The properties of the profiles.                                         *)

(* The steps that are not about profiles leave them alone, but for a       *)
(* failed compilation and a reconciliation.                                *)
LEMMA ProfilesUntouched ==
  ASSUME CallOK, Next, ~SampleStep, ~BeginStep, ~Die, ~Cleanup, ~\E u \in Unlinked : ReconcileUnlinks(u)
  PROVE  UNCHANGED <<cur, ref, snap, recorded, secondary, job>> /\ (locked' = locked \/ locked' = {})
<1>1. CASE FileStep
  BY <1>1, FileFrame
  DEF FileStep, OpenOat, OpenVdex, Restorecon, OpenImage, Dex2oat, MoveOat, MoveVdex, MoveImage,
      DeleteOdex, Others, files
<1>2. CASE CallStep  BY <1>2, CallFrame
<1>3. CASE AppsStep  BY <1>3 DEF AppsStep, AppStarts, AppStops, AppTouchesDex, files, apps
<1>4. CASE UpdateStep  BY <1>4 DEF UpdateStep, Update, files
<1> QED  BY StepKinds, <1>1, <1>2, <1>3, <1>4

(* The samples of a profile are a profile with the same samples.           *)
LEMMA InIn == ASSUME NEW p \in Profile PROVE In(In(p)) = In(p) /\ In(p) # Missing
BY ProfilesAssumption DEF In, Profile, All

(* Adding what was shipped loses no sample.                                *)
LEMMA InWider ==
  ASSUME NEW p \in Profile PROVE In(p) \subseteq In(In(p) \cup Shipped)
<1>1. In(p) \cup Shipped \in SUBSET All  BY InType DEF All
<1> QED  BY <1>1, ProfilesAssumption DEF In, All

(* Clearing adds no sample.                                                *)
LEMMA InCleared == ASSUME NEW p, NEW h PROVE In(Cleared(p, h)) \subseteq In(p)
BY DEF In, Cleared

(* The samples on disk were saved by an app or shipped.                    *)
LEMMA HeldWithin ==
  ASSUME SamplesOK PROVE Held \subseteq recorded \cup Shipped
BY DEF SamplesOK, Held, Current

(* No step invents a sample or loses a lock.                               *)
LEMMA SamplesStepOK == ASSUME TypeOK, CallOK, ProfileOK, Next PROVE SamplesOK'
<1> USE DEF SamplesOK, ProfileOK, Known
<1>t. cur \in [Users -> Profile] /\ ref \in Profile /\ locked \subseteq Users /\ recorded \subseteq Samples
      /\ job \in Jobs
  BY DEF TypeOK, ProfilesType, CallsType
<1>1. CASE Cleanup
  <2>1. UNCHANGED <<cur, locked, recorded, secondary, job>>  BY <1>1 DEF Cleanup, Others, Same, apps
  <2>2. In(ref') \subseteq In(ref)  BY <1>1, InCleared DEF Cleanup
  <2> QED  BY <2>1, <2>2
<1>2. CASE \E u \in Unlinked : ReconcileUnlinks(u)
  <2>1. secondary  BY <1>2 DEF ReconcileUnlinks, CallOK
  <2>2. UNCHANGED <<locked, recorded, secondary, job>>  BY <1>2 DEF ReconcileUnlinks, Same, apps
  <2>3. \A u \in Users : cur'[u] \in {Missing, cur[u]}  BY <1>2, <1>t DEF ReconcileUnlinks
  <2>4. ref' \in {Missing, ref}  BY <1>2 DEF ReconcileUnlinks
  <2> QED  BY <2>1, <2>2, <2>3, <2>4 DEF In
<1>3. CASE BeginStep
  BY <1>3, BeginFrame, HeldWithin DEF Locals
<1>4. CASE Die
  BY <1>4, HeldWithin DEF Die, Locals, files, apps
<1>5. CASE ProfileStep
  <2>1. UNCHANGED <<locked, recorded, secondary>>
    BY <1>5 DEF ProfileStep, OpenProfiles, Merge, ClearCurrent, ClearReference, ClearAppProfiles,
         ClearAppProfilesEnds, SnapshotOpen, Snapshot, DestroySnapshot, Dump, CopySystemProfile,
         PrepareAppProfile, Same, apps
  <2>2. job'.before = job.before
    BY <1>5, <1>t DEF ProfileStep, OpenProfiles, Merge, Profman, ClearCurrent, ClearReference,
         ClearAppProfiles,
         ClearAppProfilesEnds, SnapshotOpen, Snapshot, DestroySnapshot, Dump, CopySystemProfile,
         PrepareAppProfile, Jobs
  <2>3. In(ref') \subseteq recorded \cup Shipped
    <3>1. CASE Merge
      <4>1. Read \subseteq recorded \cup Shipped  BY <1>t DEF Read, Jobs
      <4>2. ref # Missing  BY <3>1 DEF Merge, MergeOK
      <4> QED  BY <3>1, <4>1, <4>2 DEF Merge, In
    <3>2. CASE ClearReference \/ ClearAppProfiles
      BY <3>2, InCleared DEF ClearReference, ClearAppProfiles
    <3>3. CASE OpenProfiles \/ CopySystemProfile \/ PrepareAppProfile
      BY <3>3, <1>t, InIn DEF OpenProfiles, CopySystemProfile, PrepareAppProfile, In
    <3> QED
      BY <1>5, <3>1, <3>2, <3>3
      DEF ProfileStep, ClearCurrent, ClearAppProfilesEnds, SnapshotOpen, Snapshot, DestroySnapshot,
           Dump, files
  <2>4. \A u \in Users : In(cur'[u]) \subseteq In(cur[u]) /\ (cur[u] # Missing => cur'[u] # Missing)
    <3>1. CASE \E u \in Users : ClearCurrent(u)
      BY <3>1, <1>t, InCleared, ProfilesAssumption DEF ClearCurrent, Cleared
    <3>2. CASE PrepareAppProfile
      BY <3>2, <1>t, InIn DEF PrepareAppProfile
    <3> QED
      BY <1>5, <3>1, <3>2
      DEF ProfileStep, OpenProfiles, Merge, ClearReference, ClearAppProfiles, ClearAppProfilesEnds,
          SnapshotOpen, Snapshot, DestroySnapshot, Dump, CopySystemProfile, files
  <2> QED  BY <2>1, <2>2, <2>3, <2>4
<1>6. CASE AppStep
  <2>1. PICK u \in Users : AppLock(u) \/ AppDies(u) \/ \E s \in Samples : AppSave(u, s)
    BY <1>6 DEF AppStep
  <2>2. CASE AppLock(u)
    BY <2>2, <1>t, InIn DEF AppLock
  <2>3. CASE AppDies(u)
    BY <2>3 DEF AppDies, files
  <2>4. ASSUME NEW s \in Samples, AppSave(u, s) PROVE SamplesOK'
    <3>1. job'.before = job.before  BY <2>4, <1>t DEF AppSave, Jobs
    <3>2. In(cur'[u]) = In(cur[u]) \cup {s} /\ cur'[u] # Missing
      <4>1. In(cur[u]) \cup {s} \in SUBSET (Samples \cup Shipped)  BY <1>t, InType DEF All
      <4> QED  BY <2>4, <4>1, <1>t, ProfilesAssumption DEF AppSave, In
    <3>3. \A w \in Users \ {u} : cur'[w] = cur[w]  BY <2>4, <1>t DEF AppSave
    <3> QED  BY <2>4, <3>1, <3>2, <3>3 DEF AppSave
  <2> QED  BY <2>1, <2>2, <2>3, <2>4
<1>7. CASE ~SampleStep /\ ~BeginStep /\ ~Die /\ ~Cleanup /\ ~\E u \in Unlinked : ReconcileUnlinks(u)
  BY <1>7, ProfilesUntouched
<1> QED  BY <1>1, <1>2, <1>3, <1>4, <1>5, <1>6, <1>7 DEF SampleStep

(* No step of another kind begins or ends the work on the profiles.        *)
LEMMA OtherLabels ==
  ASSUME TypeOK, CallOK, Next, ~ProfileStep, ~AppStep
  PROVE  \/ UNCHANGED <<call, pc, result>>
         \/ /\ pc' \notin {"profman", "clear"}
            /\ pc' = "open" => call'.op # "snapshot"
            /\ pc' = "idle" => call'.op \notin {"merge", "clear", "snapshot"}
<1>1. CASE FileStep
  <2>1. CASE OpenImage \/ OpenVdex \/ OpenOat \/ Restorecon \/ Cleanup \/ Dex2oat
    <3>1. pc' \in {"idle", "vdex", "restorecon", "image", "profile", "cleanup"}
      BY <2>1 DEF OpenImage, OpenVdex, OpenOat, Restorecon, Cleanup, Dex2oat, Goto, Fails, Return
    <3>2. pc' = "idle" => call' = call /\ call.op = "dexopt"
      BY <2>1 DEF OpenImage, OpenVdex, OpenOat, Restorecon, Cleanup, Dex2oat, Here, Others, Same, Goto
    <3> QED  BY <3>1, <3>2
  <2>2. CASE MoveOat \/ MoveVdex \/ MoveImage \/ DeleteOdex \/ \E u \in Unlinked : ReconcileUnlinks(u)
    <3>1. call.op \in {"move_ab", "delete_odex", "reconcile"} /\ call' = call
      BY <2>2 DEF MoveOat, MoveVdex, MoveImage, DeleteOdex, ReconcileUnlinks, CallOK, Moving, Same
    <3>2. pc' \in {"idle", "ab_vdex", "ab_image"}
      BY <2>2 DEF MoveOat, MoveVdex, MoveImage, DeleteOdex, ReconcileUnlinks, Goto, Fails, Return
    <3> QED  BY <3>1, <3>2
  <2> QED  BY <1>1, <2>1, <2>2 DEF FileStep
<1>2. CASE CallStep
  <2>1. CASE Analyzer
    <3>1. call \in DexoptCalls /\ call.op = "dexopt"  BY <2>1, DexoptCall DEF Analyzer, Here
    <3>2. call'.op = "dexopt"
      <4>1. UNCHANGED call \/ \E v : call' = [call EXCEPT !.use.needed = v, !.use.public = Visible(call)]
        BY <2>1, Zenon DEF Analyzer
      <4> QED  BY <3>1, <4>1 DEF DexoptCalls
    <3>3. pc' \in {"idle", "input"}  BY <2>1, Zenon DEF Analyzer, Fails, Return, Goto
    <3> QED  BY <3>2, <3>3
  <2>2. CASE OpenReference  BY <2>2 DEF OpenReference, Goto
  <2>3. CASE SecondaryBegins \/ OpenInput \/ ReconcileChecks
    <3>1. call.op \in {"dexopt", "reconcile"} /\ call' = call
      BY <2>3 DEF SecondaryBegins, OpenInput, ReconcileChecks, CallOK, Here, Others, Same
    <3>2. pc' \in {"idle", "open", "oat", "reconcile_unlink"}
      BY <2>3 DEF SecondaryBegins, OpenInput, ReconcileChecks, Goto, Fails, Return
    <3> QED  BY <3>1, <3>2
  <2> QED  BY <1>2, <2>1, <2>2, <2>3 DEF CallStep
<1>3. CASE BeginStep
  <2>1. CASE BeginArtifacts
    <3>1. pc' \in {"secondary", "input", "ab_oat", "delete_odex", "reconcile"}
      BY <2>1 DEF BeginArtifacts, BeginDexopt, Begin
    <3> QED  BY <3>1
  <2>2. CASE BeginProfiles
    BY <2>2 DEF BeginProfiles, Begin
  <2> QED  BY <1>3, <2>1, <2>2 DEF BeginStep
<1>4. CASE AppsStep  BY <1>4 DEF AppsStep, AppStarts, AppStops, AppTouchesDex
<1>5. CASE UpdateStep  BY <1>5 DEF UpdateStep, Update
<1>6. CASE Die  BY <1>6 DEF Die
<1> QED  BY StepKinds, <1>1, <1>2, <1>3, <1>4, <1>5, <1>6 DEF SampleStep

(* Between calls, and during a call on the profiles, the other steps leave *)
(* the profiles alone.                                                     *)
LEMMA OtherKept ==
  ASSUME TypeOK, CallOK, Next, ~ProfileStep, ~AppStep, UNCHANGED <<call, pc, result>>
  PROVE  UNCHANGED <<cur, ref, snap, recorded, secondary, job>>
<1>1. ~BeginStep
  BY DEF BeginStep, BeginArtifacts, BeginDexopt, BeginProfiles, Begin
<1>2. ~Die /\ ~Cleanup /\ ~\E u \in Unlinked : ReconcileUnlinks(u)
  BY DEF Die, Cleanup, Here, Return, ReconcileUnlinks
<1> QED  BY <1>1, <1>2, ProfilesUntouched DEF SampleStep

(* A profile that is not open during a merge stays as it is: the app of an *)
(* apk has none to write to, and the only profile of a secondary dex file  *)
(* is open.                                                                *)
LEMMA MergeStepOK == ASSUME TypeOK, CallOK, ProfileOK, Next PROVE MergeOK'
<1> USE DEF MergeOK, ProfileOK, Known
<1>t. cur \in [Users -> Profile] /\ ref \in Profile /\ locked \subseteq Users /\ job \in Jobs
  BY DEF TypeOK, ProfilesType, CallsType
<1>1. CASE ~ProfileStep /\ ~AppStep
  BY <1>1, OtherLabels, OtherKept
<1>2. CASE ProfileStep
  <2>1. UNCHANGED <<secondary, call>>
    BY <1>2 DEF ProfileStep, OpenProfiles, Merge, ClearCurrent, ClearReference, ClearAppProfiles,
         ClearAppProfilesEnds, SnapshotOpen, Snapshot, DestroySnapshot, Dump, CopySystemProfile,
         PrepareAppProfile, Same, apps
  <2> USE <2>1, <1>t DEF Return, Goto
  <2>2. CASE OpenProfiles
    <3>1. pc' = "profman" \/ pc' \in {"analyzer", "idle"}  BY <2>2 DEF OpenProfiles, Analyzed
    <3>2. pc' = "profman" /\ call.op # "dump" => ref' = In(ref) /\ job'.opened # {}
      BY <2>2 DEF OpenProfiles, Analyzed
    <3>3. job'.opened = {u \in Known : cur[u] # Missing} /\ cur' = cur
      BY <2>2 DEF OpenProfiles, Jobs
    <3>4. In(ref) # Missing  BY InIn
    <3> QED  BY <3>1, <3>2, <3>3, <3>4
  <2>3. CASE Merge
    <3>1. pc' = "clear" /\ cur' = cur /\ call.op \in {"merge", "dexopt"} /\ pc = "profman"
      BY <2>3 DEF Merge
    <3>2. PICK c \in Codes : Profman(c) /\ (c = "compile" => ref' = ref \cup Read)
      BY <2>3 DEF Merge, Codes
    <3>3. job'.opened = job.opened /\ job'.code = c /\ job'.seen = Read
          /\ job'.todo = IF ClearsCurrent(c) THEN Known ELSE {}
      BY <3>2 DEF Profman, Jobs
    <3>4. c = "compile" => ref' # Missing /\ Read \subseteq ref'
      <4>1. Read \in SUBSET All  BY InType DEF Read, Jobs
      <4>2. ref \in SUBSET All  BY <3>1 DEF Profile
      <4> QED  BY <3>2, <4>1, <4>2, ProfilesAssumption DEF All
    <3>5. \A u \in Known : In(cur[u]) \subseteq Read
      BY <3>1 DEF Read, In
    <3>6. job'.todo # {} => c \in {"compile", "bad", "unknown"}  BY <3>3 DEF ClearsCurrent
    <3> QED  BY <3>1, <3>3, <3>4, <3>5, <3>6
  <2>4. CASE \E u \in Users : ClearCurrent(u)
    <3>1. PICK u \in Users : ClearCurrent(u)  BY <2>4
    <3>2. UNCHANGED <<ref, pc>> /\ pc = "clear" /\ u \in job.todo  BY <3>1 DEF ClearCurrent
    <3>3. job'.opened = job.opened /\ job'.code = job.code /\ job'.seen = job.seen /\ job'.late = job.late
          /\ job'.todo = job.todo \ {u}
      BY <3>1 DEF ClearCurrent, Jobs
    <3>4. \A w \in Users : In(cur'[w]) \subseteq In(cur[w]) /\ (cur[w] = Missing => cur'[w] = Missing)
      BY <3>1, InCleared DEF ClearCurrent, Cleared
    <3> QED  BY <3>2, <3>3, <3>4, ProfilesAssumption
  <2>5. CASE ClearReference \/ ClearAppProfilesEnds \/ Snapshot \/ Dump \/ CopySystemProfile \/ PrepareAppProfile
             \/ DestroySnapshot
    BY <2>5 DEF ClearReference, ClearAppProfilesEnds, Snapshot, Dump, CopySystemProfile,
         PrepareAppProfile,
         DestroySnapshot, Analyzed
  <2>6. CASE ClearAppProfiles
    BY <2>6 DEF ClearAppProfiles, CallOK
  <2>7. CASE SnapshotOpen
    BY <2>7 DEF SnapshotOpen
  <2> QED  BY <1>2, <2>2, <2>3, <2>4, <2>5, <2>6, <2>7 DEF ProfileStep
<1>3. CASE AppStep
  <2>1. PICK u \in Users : AppLock(u) \/ AppDies(u) \/ \E s \in Samples : AppSave(u, s)
    BY <1>3 DEF AppStep
  <2>2. CASE AppLock(u)
    <3>1. UNCHANGED <<ref, secondary, call, pc, job>> /\ u \in Known /\ (cur[u] # Missing \/ secondary)
      BY <2>2 DEF AppLock
    <3>2. \A w \in Users : In(cur'[w]) = In(cur[w]) /\ (w # u => cur'[w] = cur[w])
      BY <2>2, <1>t, InIn DEF AppLock
    <3> QED  BY <3>1, <3>2, ProfilesAssumption
  <2>3. CASE AppDies(u)
    BY <2>3 DEF AppDies, files
  <2>4. ASSUME NEW s \in Samples, AppSave(u, s) PROVE MergeOK'
    <3>1. UNCHANGED <<ref, secondary, call, pc>> /\ u \in Known /\ (cur[u] # Missing \/ secondary)
      BY <2>4 DEF AppSave, SamplesOK
    <3>2. \A w \in Users \ {u} : cur'[w] = cur[w]  BY <2>4, <1>t DEF AppSave
    <3>3. In(cur'[u]) \subseteq In(cur[u]) \cup {s}  BY <2>4, <1>t DEF AppSave, In
    <3>4. pc # "idle" => job'.opened = job.opened /\ job'.code = job.code /\ job'.seen = job.seen
             /\ job'.todo = job.todo /\ job'.late = job.late \cup {s}
      BY <2>4, <1>t DEF AppSave, Jobs
    <3> QED  BY <3>1, <3>2, <3>3, <3>4, ProfilesAssumption
  <2> QED  BY <2>1, <2>2, <2>3, <2>4
<1> QED  BY <1>1, <1>2, <1>3

(* What clear_app_profiles has emptied stays empty of the old samples.     *)
LEMMA ClearStepOK == ASSUME TypeOK, CallOK, ProfileOK, Next PROVE ClearOK'
<1> USE DEF ClearOK, ProfileOK, Known
<1>t. cur \in [Users -> Profile] /\ ref \in Profile /\ locked \subseteq Users /\ job \in Jobs
      /\ recorded \subseteq Samples
  BY DEF TypeOK, ProfilesType, CallsType
<1>1. CASE ~ProfileStep /\ ~AppStep
  BY <1>1, OtherLabels, OtherKept
<1>2. CASE ProfileStep
  <2>1. UNCHANGED <<secondary, call>>
    BY <1>2 DEF ProfileStep, OpenProfiles, Merge, ClearCurrent, ClearReference, ClearAppProfiles,
         ClearAppProfilesEnds, SnapshotOpen, Snapshot, DestroySnapshot, Dump, CopySystemProfile,
         PrepareAppProfile, Same, apps
  <2> USE <2>1, <1>t DEF Return, Goto
  <2>2. CASE Merge
    <3>1. PICK c \in Codes : Profman(c)  BY <2>2 DEF Merge, Codes
    <3>2. job'.todo \subseteq Known  BY <3>1 DEF Profman, Jobs
    <3> QED  BY <2>2, <3>2 DEF Merge
  <2>3. CASE \E u \in Users : ClearCurrent(u)
    <3>1. PICK u \in Users : ClearCurrent(u)  BY <2>3
    <3>2. UNCHANGED <<ref, pc>> /\ pc = "clear"  BY <3>1 DEF ClearCurrent
    <3>3. job'.before = job.before /\ job'.todo = job.todo \ {u} /\ (job'.ok => job.ok)
      BY <3>1 DEF ClearCurrent, Jobs
    <3>4. \A w \in Users \ {u} : cur'[w] = cur[w]  BY <3>1 DEF ClearCurrent
    <3>5. job'.ok => In(cur'[u]) = {}
      BY <3>1 DEF ClearCurrent, Jobs, ClearedOk, Cleared, In
    <3> QED  BY <3>2, <3>3, <3>4, <3>5
  <2>4. CASE ClearAppProfiles
    <3>1. ~secondary  BY <2>4 DEF ClearAppProfiles, CallOK, ApkOps
    <3>2. In(ref') = {}  BY <2>4 DEF ClearAppProfiles, Cleared, In
    <3>3. job'.todo = Users /\ job'.before = job.before  BY <2>4, <3>1 DEF ClearAppProfiles, Jobs
    <3> QED  BY <3>1, <3>2, <3>3
  <2>5. CASE OpenProfiles
    BY <2>5 DEF OpenProfiles, Analyzed
  <2>6. CASE ClearReference \/ ClearAppProfilesEnds \/ Snapshot \/ Dump \/ CopySystemProfile \/ PrepareAppProfile
             \/ DestroySnapshot \/ SnapshotOpen
    BY <2>6 DEF ClearReference, ClearAppProfilesEnds, Snapshot, Dump, CopySystemProfile,
         PrepareAppProfile,
         DestroySnapshot, SnapshotOpen, Analyzed
  <2> QED  BY <1>2, <2>2, <2>3, <2>4, <2>5, <2>6 DEF ProfileStep
<1>3. CASE AppStep
  <2>1. PICK u \in Users : AppLock(u) \/ AppDies(u) \/ \E s \in Samples : AppSave(u, s)
    BY <1>3 DEF AppStep
  <2>2. CASE AppLock(u)
    <3>1. UNCHANGED <<ref, secondary, call, pc, job>>  BY <2>2 DEF AppLock
    <3>2. \A w \in Users : In(cur'[w]) = In(cur[w])  BY <2>2, <1>t, InIn DEF AppLock
    <3> QED  BY <3>1, <3>2
  <2>3. CASE AppDies(u)
    BY <2>3 DEF AppDies, files
  <2>4. ASSUME NEW s \in Samples, AppSave(u, s) PROVE ClearOK'
    <3>1. UNCHANGED <<ref, secondary, call, pc>>  BY <2>4 DEF AppSave
    <3>2. \A w \in Users \ {u} : cur'[w] = cur[w]  BY <2>4, <1>t DEF AppSave
    <3>3. In(cur'[u]) \subseteq In(cur[u]) \cup {s}  BY <2>4, <1>t DEF AppSave, In
    <3>4. job'.before = job.before /\ job'.todo = job.todo /\ job'.ok = job.ok
      BY <2>4, <1>t DEF AppSave, Jobs
    <3>5. s \notin job.before
      BY <2>4, ProfilesAssumption DEF AppSave, SamplesOK
    <3> QED  BY <3>1, <3>2, <3>3, <3>4, <3>5
  <2> QED  BY <2>1, <2>2, <2>3, <2>4
<1> QED  BY <1>1, <1>2, <1>3

(* A snapshot is empty until the merge has written it.                     *)
LEMMA SnapshotStepOK == ASSUME TypeOK, CallOK, ProfileOK, Next PROVE SnapshotOK'
<1> USE DEF SnapshotOK, ProfileOK
<1>1. CASE ~ProfileStep /\ ~AppStep
  BY <1>1, OtherLabels, OtherKept
<1>2. CASE ProfileStep
  BY <1>2 DEF CallOK, ProfileStep, OpenProfiles, Merge, ClearCurrent, ClearReference, ClearAppProfiles,
         ClearAppProfilesEnds, SnapshotOpen, Truncated, Snapshot, DestroySnapshot, Dump, CopySystemProfile,
         PrepareAppProfile, Same, Return, Goto, Analyzed
<1>3. CASE AppStep
  BY <1>3 DEF AppStep, AppLock, AppSave, AppDies, files
<1> QED  BY <1>1, <1>2, <1>3

(* A call that returns says the truth about the profiles.                  *)
LEMMA AnswersStep ==
  ASSUME TypeOK, CallOK, ProfileOK, ProfileAnswersTrue, Next
  PROVE  ProfileAnswersTrue'
<1> USE DEF ProfileAnswersTrue, MergedMeansKept, ClearMeansEmpty, SnapshotFresh, Returned
<1>t. cur \in [Users -> Profile] /\ ref \in Profile /\ snap \in Profile /\ locked \subseteq Users /\ job \in Jobs
      /\ recorded \subseteq Samples
  BY DEF TypeOK, ProfilesType, CallsType
<1>1. CASE ~ProfileStep /\ ~AppStep
  <2>1. CASE UNCHANGED <<call, pc, result>>
    <3>1. UNCHANGED <<cur, ref, snap, job>>  BY <1>1, <2>1, OtherKept
    <3> QED  BY <2>1, <3>1 DEF Held, Current
  <2>2. CASE ~UNCHANGED <<call, pc, result>>
    BY <1>1, <2>2, OtherLabels
  <2> QED  BY <2>1, <2>2
<1>2. CASE ProfileStep
  <2>1. call' = call /\ pc # "idle"
    BY <1>2 DEF ProfileStep, OpenProfiles, Merge, ClearCurrent, ClearReference, ClearAppProfiles,
         ClearAppProfilesEnds, SnapshotOpen, Snapshot, DestroySnapshot, Dump, CopySystemProfile,
         PrepareAppProfile, Same
  <2> USE <2>1, <1>t DEF Return, Goto
  <2>2. CASE OpenProfiles
    BY <2>2 DEF OpenProfiles, Analyzed
  <2>3. CASE ClearReference
    <3>1. call.op \in {"merge", "dexopt"}  BY <2>3 DEF ClearReference, CallOK
    <3>2. pc' = "idle" /\ result' => job.code = "compile" /\ call.op = "merge"
      BY <2>3, <3>1 DEF ClearReference, Analyzed
    <3>3. job.code = "compile" => ref' = ref /\ job.seen \subseteq In(ref)
      BY <2>3, <3>1 DEF ClearReference, ClearsReference, ProfileOK, MergeOK, In
    <3>4. job' = job  BY <2>3 DEF ClearReference
    <3> QED  BY <3>1, <3>2, <3>3, <3>4
  <2>4. CASE ClearAppProfilesEnds
    <3>1. ~secondary /\ call.op = "clear" /\ job.todo = {} /\ UNCHANGED <<cur, ref, job>> /\ pc = "clear"
      BY <2>4 DEF ClearAppProfilesEnds, CallOK, ApkOps, files
    <3>2. result' => In(ref) \cap job.before = {} /\ \A u \in Users : In(cur[u]) \cap job.before = {}
      BY <2>4, <3>1 DEF ClearAppProfilesEnds, ProfileOK, ClearOK
    <3>3. result' => Held' \cap job'.before = {}
      BY <3>1, <3>2 DEF Held, Current
    <3> QED  BY <3>1, <3>3
  <2>5. CASE Snapshot
    <3>1. snap = {} /\ ref # Missing  BY <2>5 DEF Snapshot, ProfileOK, SnapshotOK, MergeOK
    <3>2. job'.seen = Read \cup ref  BY <2>5 DEF Snapshot, Jobs
    <3>3. In(snap') \subseteq Read \cup ref  BY <2>5, <3>1 DEF Snapshot, In
    <3>4. call.op = "snapshot"  BY <2>5 DEF Snapshot
    <3> QED  BY <3>2, <3>3, <3>4
  <2>6. CASE SnapshotOpen
    BY <2>6 DEF SnapshotOpen, CallOK
  <2>7. CASE DestroySnapshot \/ Dump \/ CopySystemProfile \/ PrepareAppProfile
    <3>1. call.op \in {"destroy_snapshot", "dump", "copy", "prepare"}
      BY <2>7 DEF DestroySnapshot, Dump, CopySystemProfile, PrepareAppProfile, CallOK
    <3> QED  BY <3>1
  <2>8. CASE Merge \/ ClearAppProfiles \/ \E u \in Users : ClearCurrent(u)
    BY <2>8 DEF Merge, ClearAppProfiles, ClearCurrent
  <2> QED  BY <1>2, <2>2, <2>3, <2>4, <2>5, <2>6, <2>7, <2>8 DEF ProfileStep
<1>3. CASE AppStep
  <2>1. PICK u \in Users : AppLock(u) \/ AppDies(u) \/ \E s \in Samples : AppSave(u, s)
    BY <1>3 DEF AppStep
  <2>2. CASE AppLock(u) \/ AppDies(u)
    <3>1. UNCHANGED <<ref, snap, call, pc, job, result>>  BY <2>2 DEF AppLock, AppDies, files
    <3>2. \A w \in Users : In(cur'[w]) = In(cur[w])  BY <2>2, <1>t, InIn DEF AppLock, AppDies, files
    <3>3. Held' = Held  BY <3>1, <3>2 DEF Held, Current
    <3> QED  BY <3>1, <3>3
  <2>3. ASSUME NEW s \in Samples, AppSave(u, s) PROVE ProfileAnswersTrue'
    <3>1. UNCHANGED <<ref, snap, call, pc, result>> /\ (pc = "idle" => job' = job)  BY <2>3 DEF AppSave
    <3>2. \A w \in Users : In(cur'[w]) \subseteq In(cur[w]) \cup {s}  BY <2>3, <1>t DEF AppSave, In
    <3>3. s \notin job.before
      BY <2>3, ProfilesAssumption DEF AppSave, ProfileOK, SamplesOK
    <3>4. Held' \subseteq Held \cup {s}  BY <3>1, <3>2 DEF Held, Current
    <3> QED  BY <3>1, <3>3, <3>4
  <2> QED  BY <2>1, <2>2, <2>3
<1> QED  BY <1>1, <1>2, <1>3

----------------------------------------------------------------------------
(* The invariant holds at first.                                           *)
LEMMA InitInv == ASSUME Init PROVE Inv
<1> USE DEF Init, ProfilesInit
<1>1. TypeOK
  <2>1. ProfilesType
    <3>1. PICK sc \in Scenarios : secondary = sc.secondary
                /\ cur = [u \in Users |-> IF u \in sc.having THEN {} ELSE Missing]
      BY Zenon
    <3>2. cur \in [Users -> Profile] /\ secondary \in BOOLEAN  BY <3>1, ProfilesAssumption DEF Profile
    <3> QED  BY <3>2 DEF ProfilesType, Profile
  <2>2. \A u \in Users : In(cur[u]) = {}
    BY DEF In
  <2>3. Held = {}  BY <2>2 DEF Held, Current, In
  <2>4. job \in Jobs  BY <2>3 DEF Locals, Jobs, Codes
  <2>5. call \in PlainCalls  BY DEF PlainCalls
  <2>6. CallsType  BY <2>4, <2>5, ProfilesAssumption DEF CallsType
  <2>7. FilesType
    <3>1. boot \in 0..MaxBoot  BY DexoptAssumption
    <3>2. file \in Slots /\ bfile \in Slots /\ mapped \in Slots  BY NoneType
    <3> QED  BY <3>1, <3>2 DEF FilesType
  <2> QED  BY <2>1, <2>6, <2>7 DEF TypeOK
<1>2. CallOK  BY DEF CallOK, Compiling, Moving, ApkOps
<1>3. FilesOK /\ UpdateOK /\ MappedOK
  <2>1. file = None /\ bfile = None /\ mapped = None /\ pc = "idle"  OBVIOUS
  <2>2. \A k \in Kinds : None[k] = Missing  BY DEF None
  <2>3. FilesOK  BY <2>1, <2>2 DEF FilesOK, Opening, Kinds
  <2>4. UpdateOK  BY <2>1, <2>2 DEF UpdateOK
  <2>5. MappedOK  BY <2>1, <2>2 DEF MappedOK, BeforeVdex
  <2> QED  BY <2>3, <2>4, <2>5
<1>4. \A u \in Users : In(cur[u]) = {}
  BY DEF In
<1>5. Held = {}  BY <1>4 DEF Held, Current, In
<1>6. ProfileOK
  BY <1>4, <1>5 DEF ProfileOK, SamplesOK, MergeOK, ClearOK, SnapshotOK, Locals, In
<1>7. Matched /\ NeverModifiesMapped /\ FailedLeavesNothing /\ BadProfileForgotten /\ PrivacyKept
  BY DEF Matched, NeverModifiesMapped, FailedLeavesNothing, BadProfileForgotten, PrivacyKept,
       Returned, None,
     Whole, Kinds
<1>8. ProfileAnswersTrue
  BY DEF ProfileAnswersTrue, MergedMeansKept, ClearMeansEmpty, SnapshotFresh, Returned
<1> QED  BY <1>1, <1>2, <1>3, <1>6, <1>7, <1>8 DEF Inv

(* Every step keeps the invariant.                                         *)
LEMMA StepInv == ASSUME Inv, [Next]_vars PROVE Inv'
<1>1. CASE Next
  <2> USE <1>1 DEF Inv
  <2>1. TypeOK'  BY FilesTypeStep, ProfilesTypeStep, CallsTypeStep DEF TypeOK
  <2>2. CallOK'  BY CallStepOK
  <2>3. FilesOK' /\ UpdateOK' /\ MappedOK'  BY FilesStepOK, UpdateStepOK, MappedStepOK
  <2>4. ProfileOK'  BY SamplesStepOK, MergeStepOK, ClearStepOK, SnapshotStepOK DEF ProfileOK
  <2>5. Matched' /\ NeverModifiesMapped' /\ PrivacyKept'  BY MatchedStep, MappedStep, PrivacyStep
  <2>6. FailedLeavesNothing' /\ BadProfileForgotten'  BY FailedStep, ForgottenStep
  <2>7. ProfileAnswersTrue'  BY AnswersStep
  <2> QED  BY <2>1, <2>2, <2>3, <2>4, <2>5, <2>6, <2>7
<1>2. CASE UNCHANGED vars
  <2> USE <1>2 DEF Inv, vars
  <2>1. TypeOK'  BY DEF TypeOK, ProfilesType, CallsType, FilesType
  <2>2. CallOK'  BY DEF CallOK
  <2>3. FilesOK'  BY DEF FilesOK, Older, Written
  <2>4. UpdateOK' /\ MappedOK'  BY DEF UpdateOK, MappedOK, Whole
  <2>5. ProfileOK'  BY DEF ProfileOK, SamplesOK, MergeOK, ClearOK, SnapshotOK, Known
  <2>6. Matched' /\ NeverModifiesMapped' /\ PrivacyKept'
    BY DEF Matched, NeverModifiesMapped, PrivacyKept, Whole
  <2>7. FailedLeavesNothing' /\ BadProfileForgotten'
    BY DEF FailedLeavesNothing, BadProfileForgotten, Returned
  <2>8. ProfileAnswersTrue'
    BY DEF ProfileAnswersTrue, MergedMeansKept, ClearMeansEmpty, SnapshotFresh, Returned, Held, Current
  <2> QED  BY <2>1, <2>2, <2>3, <2>4, <2>5, <2>6, <2>7, <2>8
<1> QED  BY <1>1, <1>2

(* Every reachable state satisfies the invariant above.                    *)
THEOREM Invariance == Spec => []Inv
<1>1. Init => Inv  BY InitInv
<1>2. Inv /\ [Next]_vars => Inv'  BY StepInv
<1> QED  BY <1>1, <1>2, PTL DEF Spec

(* The files that dexopt.cpp compiles, moves and deletes: a finished oat   *)
(* file always has its own vdex beside it and no image of another          *)
(* compilation that could be unlinked, whichever step fails and wherever   *)
(* installd dies.                                                          *)
THEOREM MatchedAlways == Spec => []Matched
<1>1. Inv => Matched  BY DEF Inv
<1> QED  BY <1>1, Invariance, PTL

(* No step of dexopt or move_ab writes to a file that an app has mapped,   *)
(* also when dexopt updates the vdex in place.                             *)
THEOREM MappedNeverModified == Spec => []NeverModifiesMapped
<1>1. Inv => NeverModifiesMapped  BY DEF Inv
<1> QED  BY <1>1, Invariance, PTL

(* After a failed dexopt no file of that compilation is left but an        *)
(* unfinished one that could not be unlinked, and a profile that dex2oat   *)
(* failed with has been cleared.                                           *)
THEOREM FailureCleansUp == Spec => []FailedLeavesNothing /\ []BadProfileForgotten
<1>1. Inv => FailedLeavesNothing /\ BadProfileForgotten  BY DEF Inv
<1> QED  BY <1>1, Invariance, PTL

(* The public code of a secondary dex file is never guided by a profile.   *)
THEOREM PrivacyAlwaysKept == Spec => []PrivacyKept
<1>1. Inv => PrivacyKept  BY DEF Inv
<1> QED  BY <1>1, Invariance, PTL

(* mergeProfiles, clearAppProfiles and createProfileSnapshot answer what   *)
(* is so.                                                                  *)
THEOREM AnswersTrue == Spec => []ProfileAnswersTrue
<1>1. Inv => ProfileAnswersTrue  BY DEF Inv
<1> QED  BY <1>1, Invariance, PTL

(* A step of installd loses a sample only where the code means to, or in   *)
(* the window between profman's reading and installd's truncating: a       *)
(* merge truncates a profile only after all that profman has read of it is *)
(* in the reference profile.                                               *)
LEMMA LossStep ==
  ASSUME Inv, [Next]_vars
  PROVE  \A s \in Held \ Held' :
           \/ call.op \in {"clear", "copy", "reconcile"}
           \/ job.code \in {"bad", "unknown"}
           \/ pc = "cleanup"
           \/ s \in job.late
<1>t. cur \in [Users -> Profile] /\ ref \in Profile /\ job \in Jobs
  BY DEF Inv, TypeOK, ProfilesType, CallsType
<1>u. TypeOK /\ CallOK /\ SamplesOK /\ MergeOK /\ ClearOK  BY DEF Inv, ProfileOK
<1>k. ASSUME In(ref) \subseteq In(ref'), \A u \in Users : In(cur[u]) \subseteq In(cur'[u])
      PROVE  Held \subseteq Held'
  BY <1>k DEF Held, Current
<1>1. CASE Cleanup
  BY <1>1 DEF Cleanup, Here
<1>2. CASE \E u \in Unlinked : ReconcileUnlinks(u)
  BY <1>2, <1>u DEF ReconcileUnlinks, CallOK
<1>3. CASE UNCHANGED <<cur, ref>>
  BY <1>3, <1>k
<1>4. CASE ProfileStep
  <2>1. CASE OpenProfiles \/ PrepareAppProfile
    <3>1. In(ref) \subseteq In(ref')
      BY <2>1, <1>t, InIn, InWider DEF OpenProfiles, PrepareAppProfile
    <3>2. \A u \in Users : In(cur[u]) \subseteq In(cur'[u])
      BY <2>1, <1>t, InIn DEF OpenProfiles, PrepareAppProfile
    <3> QED  BY <3>1, <3>2, <1>k
  <2>2. CASE Merge
    <3>1. ref \in SUBSET All /\ Read \in SUBSET All
      BY <2>2, <1>t, <1>u, InType DEF Merge, MergeOK, Profile, Read, Jobs
    <3>2. In(ref) \subseteq In(ref')
      BY <2>2, <3>1, ProfilesAssumption DEF Merge, In, All
    <3> QED  BY <2>2, <3>2, <1>k DEF Merge
  <2>3. CASE \E u \in Users : ClearCurrent(u)
    <3>1. PICK u \in Users : ClearCurrent(u)  BY <2>3
    <3>2. CASE call.op = "clear" \/ job.code \in {"bad", "unknown"}
      BY <3>2
    <3>3. CASE call.op # "clear" /\ job.code \notin {"bad", "unknown"}
      <4>1. pc = "clear" /\ u \in job.todo /\ ref' = ref  BY <3>1 DEF ClearCurrent
      <4>2. call.op \in {"merge", "dexopt"}  BY <3>3, <4>1, <1>u DEF CallOK
      <4>3. job.code = "compile" /\ u \in Known  BY <3>3, <4>1, <4>2, <1>u DEF MergeOK, ClearOK
      <4>4. In(cur[u]) \subseteq In(ref) \cup job.late
        BY <4>1, <4>2, <4>3, <1>u DEF MergeOK, In
      <4>5. \A w \in Users \ {u} : cur'[w] = cur[w]  BY <3>1, <1>t DEF ClearCurrent
      <4>6. Held \ Held' \subseteq job.late
        BY <4>1, <4>4, <4>5 DEF Held, Current
      <4> QED  BY <4>6
    <3> QED  BY <3>2, <3>3
  <2>4. CASE ClearReference
    BY <2>4, <1>k DEF ClearReference, ClearsReference
  <2>5. CASE ClearAppProfiles \/ CopySystemProfile
    BY <2>5, <1>u DEF ClearAppProfiles, CopySystemProfile, CallOK
  <2>6. CASE ClearAppProfilesEnds \/ SnapshotOpen \/ Snapshot \/ DestroySnapshot \/ Dump
    BY <2>6, <1>3 DEF ClearAppProfilesEnds, SnapshotOpen, Snapshot, DestroySnapshot, Dump, files
  <2> QED  BY <1>4, <2>1, <2>2, <2>3, <2>4, <2>5, <2>6 DEF ProfileStep
<1>5. CASE AppStep
  <2>1. PICK u \in Users : AppLock(u) \/ AppDies(u) \/ \E s \in Samples : AppSave(u, s)
    BY <1>5 DEF AppStep
  <2>2. ref' = ref  BY <2>1 DEF AppLock, AppDies, AppSave, files
  <2>3. \A w \in Users : In(cur[w]) \subseteq In(cur'[w])
    <3>1. \A s \in Samples : In(cur[u]) \subseteq In(In(cur[u]) \cup {s})
      <4>1. \A s \in Samples : In(cur[u]) \cup {s} \in SUBSET All  BY <1>t, InType DEF All
      <4> QED  BY <4>1, ProfilesAssumption DEF In, All
    <3> QED  BY <2>1, <3>1, <1>t, InIn DEF AppLock, AppDies, AppSave, files
  <2> QED  BY <2>2, <2>3, <1>k
<1>6. CASE BeginStep \/ Die
  BY <1>6, <1>3, BeginFrame DEF Die, files
<1>7. CASE Next /\ ~SampleStep /\ ~BeginStep /\ ~Die /\ ~Cleanup /\ ~\E u \in Unlinked : ReconcileUnlinks(u)
  BY <1>7, <1>3, <1>u, ProfilesUntouched
<1>8. CASE UNCHANGED vars
  BY <1>8, <1>3 DEF vars
<1> QED  BY <1>1, <1>2, <1>4, <1>5, <1>6, <1>7, <1>8 DEF SampleStep

(* No call loses a sample but as said.                                     *)
THEOREM SamplesKept == Spec => NoSampleLost
<1>1. Inv /\ [Next]_vars =>
        [\A s \in Held \ Held' :
           \/ call.op \in {"clear", "copy", "reconcile"}
           \/ job.code \in {"bad", "unknown"}
           \/ pc = "cleanup"
           \/ s \in job.late]_vars
  BY LossStep
<1> QED  BY <1>1, Invariance, PTL DEF Spec, NoSampleLost
=============================================================================
