------------------------------- MODULE Dexopt -------------------------------
(***************************************************************************)
(* Compilation of one dex file by installd (src/installd/dexopt.cpp):      *)
(* dexopt for apks and for secondary dex files, the adoption of the        *)
(* artifacts an update has compiled (move_ab), their deletion, and the     *)
(* reconciliation of secondary dex files; with the profiles of the file.   *)
(*                                                                         *)
(* A compilation yields up to three files: oat, vdex and image.  A file is *)
(* Missing or [ino, gen, whole]: its inode, the call that last wrote it    *)
(* and whether it was finished; an oat also says for which boot image it   *)
(* is, whether others may read it and which samples guided it.  A file is  *)
(* left when unlinking it has failed, which the code mostly ignores.       *)
(* Running apps have files mapped.  Any step may fail, installd may die    *)
(* between any two (init then kills its children), and the device may      *)
(* restart with a new system that has compiled a second set of files.      *)
(***************************************************************************)
EXTENDS Profiles

CONSTANTS
  Flags,               \* the flags dexopt is called with
  MaxBoot              \* bound

VARIABLES
  file,     \* kind of artifact -> the file
  bfile,    \* the same, of the other slot
  mapped,   \* what the running app has mapped: kind -> file
  boot,     \* the boot image of the running system
  dex,      \* the dex file: Missing, "private" or "public"
  torn      \* history: a move or a deletion of the files was not completed

artifacts == <<file, bfile, mapped, boot, dex, torn>>
vars == <<cur, ref, snap, locked, recorded, secondary, asked, call, pc, result, n, faults, job,
          file, bfile, mapped, boot, dex, torn>>

Kinds == {"oat", "vdex", "image"}
File ==
  [ino : 0..MaxCalls, gen : 0..MaxCalls, whole : BOOLEAN, boot : 0..MaxBoot, public : BOOLEAN,
   guided : SUBSET (Samples \cup Shipped), left : BOOLEAN]
None == [k \in Kinds |-> Missing]
New == [ino |-> n, gen |-> n, whole |-> FALSE, boot |-> boot, public |-> FALSE, guided |-> {},
        left |-> FALSE]
Whole(f) == f # Missing /\ f.whole

(* The files after unlinking those of kinds, which fails for those of stay *)
(* and is not looked at.  The unlinking after a failure may fail as well.  *)
Left(f) == IF f = Missing THEN f ELSE [f EXCEPT !.left = TRUE]
Unlink(fs, kinds, stay) ==
  [k \in Kinds |-> IF k \in stay THEN Left(fs[k]) ELSE IF k \in kinds THEN Missing ELSE fs[k]]

Init ==
  /\ ProfilesInit
  /\ file = None /\ bfile = None /\ mapped = None /\ boot = 0
  /\ dex \in IF secondary THEN {"private", "public"} ELSE {"public"}
  /\ torn = FALSE

----------------------------------------------------------------------------
(* The rest of the device (external).                                      *)

(* An app starts: it maps a finished oat file that is for the running boot *)
(* image, and what goes with it.                                           *)
AppStarts ==
  /\ mapped = None /\ Whole(file["oat"]) /\ file["oat"].boot = boot
  /\ mapped' = file
  /\ UNCHANGED <<files, apps, call, pc, result, n, faults, job, file, bfile, boot, dex, torn>>

AppStops ==
  /\ mapped # None /\ mapped' = None
  /\ UNCHANGED <<files, apps, call, pc, result, n, faults, job, file, bfile, boot, dex, torn>>

(* An app changes or deletes a secondary dex file of its own.              *)
AppTouchesDex(d) ==
  /\ secondary /\ dex # d /\ dex' = d
  /\ UNCHANGED <<files, apps, call, pc, result, n, faults, job, file, bfile, mapped, boot, torn>>

(* installd dies; nothing is cleaned up.                                   *)
Die ==
  /\ pc # "idle" /\ Fault
  /\ pc' = "idle" /\ result' = FALSE
  /\ call' = [op |-> "none"] /\ job' = Locals
  /\ UNCHANGED <<files, apps, n, artifacts>>

(* The device restarts with an updated system, for which otapreopt has     *)
(* compiled the apk.                                                       *)
Update(kinds, whole) ==
  /\ "dexopt" \in asked
  /\ pc = "idle" /\ boot < MaxBoot /\ boot' = boot + 1
  /\ mapped' = None /\ locked' = {} /\ n < MaxCalls /\ n' = n + 1
  /\ bfile' = [k \in Kinds |->
                 IF k \in kinds /\ ~secondary
                 THEN [New EXCEPT !.ino = n', !.gen = n', !.whole = whole, !.boot = boot'] ELSE Missing]
  /\ UNCHANGED <<files, recorded, secondary, asked, call, pc, result, faults, job, file, dex, torn>>

----------------------------------------------------------------------------
(* dexopt.                                                                 *)

(* A call with its flags; same: the vdex to read is the one to write.  The *)
(* call's variables are in use.                                            *)
Call(guided, image, public, same, force) ==
  [op |-> "dexopt", guided |-> guided, image |-> image, public |-> public, same |-> same,
   force |-> force, use |-> [needed |-> "none", public |-> public, image |-> FALSE,
                             refOpen |-> FALSE, refLocked |-> FALSE]]

ASSUME DexoptAssumption ==
  /\ MaxBoot \in Nat /\ \A f \in File : f # Missing
  /\ \A f \in Flags : \E g, i, p, s, o \in BOOLEAN : f = Call(g, i, p, s, o)

(* Why a file needs compiling, as the package manager finds out for an apk *)
(* and dexoptanalyzer for a secondary dex file.                            *)
Needed(better) ==
  IF ~Whole(file["oat"]) THEN "scratch"
  ELSE IF file["oat"].boot # boot THEN "bootimage"
  ELSE IF better THEN "filter" ELSE "none"

Here(label) == pc = label /\ call.op = "dexopt"
Fails == Fault /\ Return(FALSE)
Others == UNCHANGED <<cur, snap, bfile, mapped, boot, dex>> /\ Same

BeginDexopt ==
  \E f \in Flags :
    LET c == [f EXCEPT !.use.needed = IF f.force THEN "scratch" ELSE Needed(TRUE)]
    IN /\ secondary => f.same
       /\ Begin(c, IF secondary THEN "secondary" ELSE "input")
       /\ UNCHANGED artifacts

(* process_secondary_dex_dexopt.  The child validates the path, opens the  *)
(* dex file and merges its profiles; a file that has gone is no error.     *)
SecondaryBegins ==
  /\ Here("secondary")
  /\ \/ dex # Missing /\ Goto("open") /\ UNCHANGED faults
     \/ dex = Missing /\ Return(TRUE) /\ UNCHANGED faults
     \/ Fails
  /\ UNCHANGED <<file, ref, job, torn>> /\ Others

(* dexoptanalyzer's verdict, and whether the oat file is to be public.     *)
Visible(c) == c.public /\ dex = "public"

Analyzer ==
  /\ Here("analyzer")
  /\ \/ LET v == IF call.force THEN "scratch" ELSE Needed(job.code = "compile") IN
        /\ call' = [call EXCEPT !.use.needed = v, !.use.public = Visible(call)]
        /\ IF v = "none" THEN Return(TRUE) ELSE Goto("input")
        /\ UNCHANGED faults
     \/ Fails /\ UNCHANGED call
  /\ UNCHANGED <<files, apps, n, job, artifacts>>

OpenInput ==
  /\ Here("input")
  /\ \/ dex # Missing /\ Goto("oat") /\ UNCHANGED faults
     \/ dex = Missing /\ Return(FALSE) /\ UNCHANGED faults
     \/ Fails
  /\ UNCHANGED <<file, ref, job, torn>> /\ Others

(* open_oat_out_file: the old file is unlinked and a new one made.         *)
Reopened(f) == IF f = Missing THEN New ELSE [f EXCEPT !.gen = n, !.whole = FALSE, !.left = FALSE]
Recreated(f) == New

OpenOat ==
  /\ Here("oat")
  /\ \/ /\ file' = [file EXCEPT !["oat"] = [Recreated(@) EXCEPT !.public = call.use.public]]
        /\ torn' = FALSE /\ Goto("vdex") /\ UNCHANGED faults
     \/ /\ Fails /\ UNCHANGED torn
        /\ \/ UNCHANGED file
           \/ \E stay \in SUBSET {"oat"} : file' = Unlink([file EXCEPT !["oat"] = New], {"oat"}, stay)
  /\ UNCHANGED <<ref, job>> /\ Others

(* open_vdex_files_for_dex2oat.                                            *)
(* Mutant: whenever it is the same file.                                   *)
InPlaceIfSame(c) == c.same
InPlace(c) == c.same /\ c.use.needed = "bootimage" /\ ~c.guided

Opened(f) == IF InPlace(call) /\ f # Missing THEN Reopened(f) ELSE New

OpenVdex ==
  /\ Here("vdex")
  /\ \/ /\ file' = [file EXCEPT !["vdex"] = Opened(@)]
        /\ Goto(IF secondary THEN "restorecon" ELSE "image") /\ UNCHANGED faults
     \/ /\ Fails
        /\ \E v \in {file["vdex"], Opened(file["vdex"])}, stay \in SUBSET {"oat", "vdex"} :
             file' = Unlink([file EXCEPT !["vdex"] = v], {"oat", "vdex"}, stay)
  /\ UNCHANGED <<ref, job, torn>> /\ Others

Restorecon ==
  /\ Here("restorecon")
  /\ \/ Goto("profile") /\ UNCHANGED <<file, faults>>
     \/ Fails /\ \E stay \in SUBSET {"oat", "vdex"} : file' = Unlink(file, {"oat", "vdex"}, stay)
  /\ UNCHANGED <<ref, job, torn>> /\ Others

(* maybe_open_app_image: a stale image goes, if it can be unlinked, whether*)
(* or not a new one is asked for; a new one that cannot be made is done    *)
(* without.                                                                *)
(* Mutant: a stale image stays.                                            *)
ImageIfWanted(c) == IF c.image THEN New ELSE file["image"]
ImageOf(c) == IF c.image THEN New ELSE Missing

OpenImage ==
  /\ Here("image") /\ Goto("profile")
  /\ \/ /\ file' = [file EXCEPT !["image"] = ImageOf(call)]
        /\ call' = [call EXCEPT !.use.image = call.image] /\ UNCHANGED faults
     \/ /\ Fault /\ UNCHANGED call
        /\ \E i \in {file["image"], ImageOf(call)}, stay \in SUBSET {"image"} :
             file' = Unlink([file EXCEPT !["image"] = i], {"image"}, stay)
  /\ UNCHANGED <<files, apps, n, job, bfile, mapped, boot, dex, torn>>

(* maybe_open_reference_profile.                                           *)
(* Mutant: also for code that others may read.                             *)
AlwaysGuides(c) == c.guided
MayGuide(c) == c.guided /\ ~(secondary /\ c.use.public)

OpenReference ==
  /\ Here("profile") /\ Goto("dex2oat")
  /\ call' = [call EXCEPT !.use.refOpen = MayGuide(call)]
  /\ UNCHANGED <<files, apps, n, faults, job, artifacts>>

(* dex2oat (external) holds the lock of the reference profile through the  *)
(* descriptor it shares with installd.                                     *)
Finished(k) ==
  LET f == file[k] IN
  IF k = "image" /\ ~call.use.image THEN f
  ELSE [f EXCEPT !.gen = n, !.whole = TRUE, !.boot = boot,
                 !.guided = IF call.use.refOpen THEN In(ref) ELSE {}]

Dex2oat ==
  /\ Here("dex2oat")
  /\ \/ file' = [k \in Kinds |-> IF k = "image" /\ secondary THEN file[k] ELSE Finished(k)]
        /\ Return(TRUE) /\ UNCHANGED <<call, faults>>
     \/ /\ Fault /\ Goto("cleanup") /\ UNCHANGED file
        /\ \E b \in {FALSE, call.use.refOpen} : call' = [call EXCEPT !.use.refLocked = b]
  /\ UNCHANGED <<files, apps, n, job, bfile, mapped, boot, dex, torn>>

(* The destructors of the file wrappers: each closes its descriptor, which *)
(* gives up a lock that dex2oat died with, and then cleans up.             *)
(* Mutant: the profile is cleared before the descriptor is closed.         *)
CleanFirst(held) == held
CloseFirst(held) == FALSE

(* Mutant: the vdex is not wrapped.                                        *)
WrappedButVdex(c) == {"oat"} \cup IF c.use.image THEN {"image"} ELSE {}
Wrapped(c) == {"oat", "vdex"} \cup IF c.use.image THEN {"image"} ELSE {}

Cleanup ==
  /\ Here("cleanup") /\ Return(FALSE)
  /\ ref' = IF call.use.refOpen THEN Cleared(ref, CloseFirst(call.use.refLocked)) ELSE ref
  /\ \E stay \in SUBSET Wrapped(call) : file' = Unlink(file, Wrapped(call), stay)
  /\ UNCHANGED <<faults, job, torn>> /\ Others

----------------------------------------------------------------------------
(* move_ab, for an apk.  What cannot be moved is deleted.                  *)

MoveOat ==
  /\ pc = "ab_oat"
  /\ \/ /\ bfile["oat"] # Missing /\ Goto("ab_vdex") /\ torn' = TRUE /\ UNCHANGED faults
        /\ file' = [file EXCEPT !["oat"] = bfile["oat"]]
        /\ bfile' = [bfile EXCEPT !["oat"] = Missing]
     \/ /\ bfile["oat"] = Missing /\ Return(FALSE)
        /\ bfile' = None /\ UNCHANGED <<file, torn, faults>>
     \/ /\ bfile["oat"] # Missing /\ Fails /\ bfile' = None /\ UNCHANGED torn
        /\ file' \in {file, [file EXCEPT !["oat"] = Missing]}
  /\ UNCHANGED <<files, job, mapped, boot, dex>> /\ Same

MoveVdex ==
  /\ pc = "ab_vdex"
  /\ \/ /\ bfile["vdex"] # Missing /\ Goto("ab_image") /\ UNCHANGED faults
        /\ file' = [file EXCEPT !["vdex"] = bfile["vdex"]]
        /\ bfile' = [bfile EXCEPT !["vdex"] = Missing]
     \/ bfile["vdex"] = Missing /\ Return(FALSE) /\ bfile' = None /\ UNCHANGED <<file, faults>>
     \/ /\ bfile["vdex"] # Missing /\ Fails /\ bfile' = None
        /\ file' \in {file, [file EXCEPT !["vdex"] = Missing]}
  /\ UNCHANGED <<files, job, mapped, boot, dex, torn>> /\ Same

MoveImage ==
  /\ pc = "ab_image" /\ Return(TRUE) /\ torn' = FALSE /\ bfile' = None
  /\ \/ file' = [file EXCEPT !["image"] = bfile["image"]] /\ UNCHANGED faults
     \/ Fault /\ \E stay \in SUBSET {"image"} : file' = Unlink(file, {"image"}, stay)
  /\ UNCHANGED <<files, job, mapped, boot, dex>> /\ Same

(* delete_odex: oat, image, vdex.  Only some errors are reported.          *)
DeleteOdex ==
  /\ pc = "delete_odex"
  /\ \/ file' = None /\ torn' = FALSE /\ Return(TRUE) /\ UNCHANGED faults
     \/ /\ Fault /\ pc' = "idle" /\ result' \in BOOLEAN
        /\ \E stay \in SUBSET Kinds : file' = [k \in Kinds |-> IF k \in stay THEN file[k] ELSE Missing]
        /\ torn' = (torn \/ Whole(file'["oat"]))
  /\ UNCHANGED <<files, job, bfile, mapped, boot, dex>> /\ Same

----------------------------------------------------------------------------
(* reconcile_secondary_dex_file.  The child tells how it went with its     *)
(* exit code; that the old profile could be unlinked, or was not there,    *)
(* overrides what could not be unlinked before it.                         *)
ReconcileChecks ==
  /\ pc = "reconcile"
  /\ \/ dex # Missing /\ Return(TRUE) /\ UNCHANGED faults
     \/ dex = Missing /\ Goto("reconcile_unlink") /\ UNCHANGED faults
     \/ Fault /\ pc' = "idle" /\ result' \in BOOLEAN
  /\ UNCHANGED <<files, job, artifacts>> /\ Same

Unlinked == [artifacts : SUBSET {"oat", "vdex"}, cur : BOOLEAN, ref : BOOLEAN, old : BOOLEAN]
Gone == [artifacts |-> {"oat", "vdex"}, cur |-> TRUE, ref |-> TRUE, old |-> TRUE]
UnlinkResult(u) == u.old

ReconcileUnlinks(u) ==
  /\ pc = "reconcile_unlink"
  /\ IF u = Gone THEN UNCHANGED faults ELSE Fault
  /\ file' = [k \in Kinds |-> IF k \in u.artifacts THEN Missing ELSE file[k]]
  /\ cur' = IF u.cur THEN [cur EXCEPT ![Owner] = Missing] ELSE cur
  /\ ref' = IF u.ref THEN Missing ELSE ref
  /\ Return(UnlinkResult(u)) /\ torn' = (torn \/ Whole(file'["oat"]))
  /\ UNCHANGED <<snap, job, bfile, mapped, boot, dex>> /\ Same

----------------------------------------------------------------------------
BeginArtifacts ==
  \/ BeginDexopt
  \/ /\ ~secondary /\ UNCHANGED artifacts
     /\ \/ Begin([op |-> "move_ab"], "ab_oat")
        \/ Begin([op |-> "delete_odex"], "delete_odex")
  \/ secondary /\ Begin([op |-> "reconcile"], "reconcile") /\ UNCHANGED artifacts

CompileStep ==
  \/ SecondaryBegins \/ Analyzer \/ OpenInput \/ OpenOat \/ OpenVdex \/ Restorecon
  \/ OpenImage \/ OpenReference \/ Dex2oat \/ Cleanup
  \/ MoveOat \/ MoveVdex \/ MoveImage \/ DeleteOdex
  \/ ReconcileChecks \/ (\E u \in Unlinked : ReconcileUnlinks(u))

Device ==
  \/ AppStarts \/ AppStops \/ Die
  \/ (\E d \in {Missing, "private", "public"} : AppTouchesDex(d))
  \/ (\E kinds \in {Kinds, {"oat", "vdex"}} : Update(kinds, TRUE))
  \/ Update({"oat"}, FALSE)

Next ==
  \/ BeginArtifacts \/ CompileStep \/ Device
  \/ (BeginProfiles \/ ProfileStep \/ AppStep) /\ UNCHANGED artifacts

Spec == Init /\ [][Next]_vars
----------------------------------------------------------------------------
Returned(op) == pc = "idle" /\ call.op = op

(* At any moment, also between two steps of a call and after installd has  *)
(* died, a finished oat file has the vdex it was compiled with beside it,  *)
(* and no image of another compilation but one that could not be unlinked: *)
(* dexopt replaces the oat file first, removes a stale image even when no  *)
(* image is asked for, and goes on when that fails.                        *)
Matched ==
  Whole(file["oat"]) /\ ~torn =>
    /\ Whole(file["vdex"]) /\ file["vdex"].gen = file["oat"].gen
    /\ file["image"] # Missing /\ ~file["image"].left => file["image"].gen = file["oat"].gen

(* A compilation never writes to a file that a running app has mapped: a   *)
(* file is replaced by a new one, and the vdex is updated in place only    *)
(* when the boot image has changed and nobody can have it mapped.          *)
NeverModifiesMapped ==
  \A k \in Kinds :
    mapped[k] # Missing /\ file[k] # Missing /\ mapped[k].ino = file[k].ino
      => mapped[k].gen = file[k].gen

(* A dexopt that returns an error leaves no file it has begun to write,    *)
(* unless unlinking that file fails too; and no file it leaves is finished.*)
FailedLeavesNothing ==
  Returned("dexopt") /\ ~result =>
    \A k \in Kinds : file[k] # Missing /\ file[k].gen = n => file[k].left /\ ~file[k].whole

(* A profile with which dex2oat failed is not tried again, also when       *)
(* dex2oat died holding its lock.                                          *)
BadProfileForgotten ==
  Returned("dexopt") /\ ~result /\ call.use.refOpen => In(ref) = {}

(* The code of a secondary dex file that others may read does not show how *)
(* its owner has used it.                                                  *)
PrivacyKept ==
  secondary /\ Whole(file["oat"]) /\ file["oat"].public => file["oat"].guided = {}

(* When mergeProfiles says that there is something to compile for, all     *)
(* that profman has read is in the reference profile.                      *)
MergedMeansKept == Returned("merge") /\ result => job.seen \subseteq In(ref)

(* When clearAppProfiles succeeds, no sample from before the call is left. *)
ClearMeansEmpty == Returned("clear") /\ result => Held \cap job.before = {}

(* A snapshot holds nothing that the profiles no longer hold.              *)
SnapshotFresh == Returned("snapshot") /\ result => In(snap) \subseteq job.seen

(* Samples are lost only by a call to clear or replace them, by a bad      *)
(* profile, by a failed compilation, or in the moment between profman's    *)
(* reading a profile and installd's truncating it.                         *)
NoSampleLost ==
  [][\A s \in Held \ Held' :
       \/ call.op \in {"clear", "copy", "reconcile"}
       \/ job.code \in {"bad", "unknown"}
       \/ pc = "cleanup"
       \/ s \in job.late]_vars

(* What installd answers about profiles is so: MergedMeansKept,            *)
(* ClearMeansEmpty and SnapshotFresh.                                      *)
ProfileAnswersTrue == MergedMeansKept /\ ClearMeansEmpty /\ SnapshotFresh
=============================================================================
