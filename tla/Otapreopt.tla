----------------------------- MODULE Otapreopt -----------------------------
(***************************************************************************)
(* Compilation of the apps for an updated system before the restart:       *)
(* otapreopt_script.sh asks the OTA service for one package after another  *)
(* and runs otapreopt_chroot, which runs otapreopt in the new system       *)
(* (src/installd/otapreopt*.cpp).                                          *)
(*                                                                         *)
(* The artifacts of system apps are in a cache directory of the new slot,  *)
(* next to a boot image that is made when the first app is compiled.  The  *)
(* directory may be left over from an earlier update, with a boot image    *)
(* that is of no use now.  dexopt is that of module Dexopt, reduced to     *)
(* what it does to a package as a whole: on an error no artifact is left,  *)
(* and the profile it was guided by is cleared.                            *)
(***************************************************************************)
EXTENDS Naturals, Sequences, FiniteSets

CONSTANTS
  Packages,
  Preopted,        \* those compiled in the new system image, with the apk
  Absent,          \* those the new system does not have
  Requests,        \* [version, flags] of the requests
  MaxPackages,     \* MAXIMUM_PACKAGES of the script
  MaxSlips         \* bound on failures

VARIABLES
  left,       \* the packages the OTA service has not handed out
  rounds,     \* of the script's loop
  pkg,        \* the package in work
  step,       \* where the work on it is
  request,    \* its parameters, as the running system sends them
  read,       \* what otapreopt has read of them
  guided,     \* whether the flag for profile guided compilation is set
  tries,      \* history: the dexopt calls for it, guided or not
  image,      \* the boot image in the cache: "none", "stale" or "fresh"
  preloaded,  \* whether the new system brings a boot image
  cache,      \* package -> the boot image its artifact was compiled against
  profile,    \* package -> its profile: "good", "bad" (of another version), "empty"
  apex,       \* whether APEX packages are active in the chroot
  slips,
  wiping      \* history: a clearing of the cache was not completed

vars == <<left, rounds, pkg, request, read, step, guided, tries, image, preloaded, cache, profile, apex, slips, wiping>>

NoPackage == "no package"
Parameters == 0..15
Unread == [flags |-> {}, set |-> {}]

(* The bits of the flags, today and in version 1.                          *)
NewBits == [public |-> 1, debuggable |-> 2, bootcomplete |-> 3, guided |-> 4, secondary |-> 5,
            force |-> 6, ce |-> 7, de |-> 8, idle |-> 9, hidden |-> 10, compact |-> 11, image |-> 12]
OldBits == [public |-> 1, safemode |-> 2, debuggable |-> 3, bootcomplete |-> 4, guided |-> 5, ota |-> 6]
NewBit(f) == NewBits[f]
CompactDex == NewBits.compact

Init ==
  /\ left = Packages /\ rounds = 0 /\ pkg = NoPackage /\ step = "script"
  /\ request = [version |-> 2, flags |-> {}] /\ read = Unread
  /\ guided = FALSE /\ tries = <<>> /\ apex = FALSE /\ slips = 0 /\ wiping = FALSE
  /\ preloaded \in BOOLEAN
  /\ profile \in [Packages -> {"good", "bad"}]
  /\ \/ image = "none" /\ cache = [p \in Packages |-> "none"]
     \/ image = "stale" /\ cache \in [Packages -> {"none", "stale"}]

InUse == IF image # "none" THEN image ELSE IF preloaded THEN "fresh" ELSE "none"
Slip == slips < MaxSlips /\ slips' = slips + 1
NoSlip == UNCHANGED slips
Work == <<left, rounds, pkg, request, read, guided, preloaded>>

----------------------------------------------------------------------------
(* The script: the service hands out a package, until it has none or the   *)
(* script has gone round often enough.                                     *)

NextPackage(p, r) ==
  /\ step = "script" /\ left # {} /\ rounds < MaxPackages
  /\ p \in left /\ left' = left \ {p} /\ rounds' = rounds + 1
  /\ pkg' = p /\ request' = r /\ read' = Unread /\ guided' = FALSE /\ tries' = <<>> /\ step' = "chroot"
  /\ UNCHANGED <<image, preloaded, cache, profile, apex, slips, wiping>>

ScriptEnds ==
  /\ step = "script" /\ (left = {} \/ rounds = MaxPackages)
  /\ step' = "end"
  /\ UNCHANGED <<left, rounds, pkg, request, read, guided, tries, image, preloaded, cache, profile, apex, slips, wiping>>

(* otapreopt_chroot: mount namespace, bind mounts, chroot.  Whatever fails *)
(* ends it; the mounts are gone with the process.                          *)
Chroot ==
  /\ step = "chroot"
  /\ \/ apex' = TRUE /\ step' = "main" /\ NoSlip
     \/ Slip /\ step' = "script" /\ UNCHANGED apex
  /\ UNCHANGED <<Work, tries, image, cache, profile, wiping>>

(* otapreopt reads its arguments, in the layout of the version of the      *)
(* request: version 1 has ten parameters and flags of its own, later ones  *)
(* have more parameters; those that a version lacks have defaults.         *)
Expected(version) ==
  CASE version \in 1..6 -> 9 + version [] version \in 7..10 -> 16

Defaults == 10..15
(* Mutant: the flags of version 1 are taken for today's.                   *)
ReadFlagsAsNew(version, bits) == bits \cup IF version < 8 THEN {CompactDex} ELSE {}
ReadFlags(version, bits) ==
  IF version = 1
  THEN {NewBit(f) : f \in {"public", "debuggable", "bootcomplete", "guided"} \cap {g \in DOMAIN OldBits : OldBits[g] \in bits}}
       \cup {CompactDex}
  ELSE bits \cup IF version < 8 THEN {CompactDex} ELSE {}

ReadArguments ==
  /\ step = "main"
  /\ LET bits == {IF request.version = 1 THEN OldBits[f] ELSE NewBit(f) : f \in request.flags} IN
     /\ read' = [flags |-> ReadFlags(request.version, bits),
                 set |-> Defaults \cup 0..(Expected(request.version) - 1)]
     /\ guided' = (NewBit("guided") \in read'.flags)
  /\ step' = "environment"
  /\ UNCHANGED <<left, rounds, pkg, request, preloaded, tries, image, cache, profile, apex, slips, wiping>>

(* Properties, environment and globals.                                    *)
ReadEnvironment ==
  /\ step = "environment"
  /\ \/ step' = "boot_image" /\ NoSlip
     \/ Slip /\ step' = "teardown"
  /\ UNCHANGED <<Work, tries, image, cache, profile, apex, wiping>>

(* PrepareBootImage.  A boot image that is there is taken for good unless  *)
(* it is forced; the image of the new system will do; else the directory   *)
(* is cleared and an image made.  A file that ClearDirectory cannot unlink *)
(* stays, and nobody is told.                                              *)
GoodAsItIs(force) == image # "none" /\ ~force
(* Mutant: the artifacts stay.                                             *)
KeptCache == cache
Cleared == [p \in Packages |-> "none"]

PrepareBootImage(force, next, failed) ==
  \/ /\ GoodAsItIs(force) /\ step' = next /\ NoSlip
     /\ UNCHANGED <<image, cache, wiping>>
  \/ /\ ~GoodAsItIs(force) /\ preloaded /\ step' = next /\ NoSlip /\ image' = "none"
     /\ cache' = IF image # "none" THEN Cleared ELSE cache
     /\ UNCHANGED wiping
  \/ /\ ~GoodAsItIs(force) /\ ~preloaded /\ cache' = Cleared /\ UNCHANGED wiping
     /\ \/ image' = "fresh" /\ step' = next /\ NoSlip
        \/ image' = "none" /\ step' = failed /\ Slip
  \/ /\ ~GoodAsItIs(force) /\ (image # "none" \/ ~preloaded)
     /\ Slip /\ wiping' = TRUE /\ step' = next
     /\ image' \in IF preloaded THEN {"none", image} ELSE {"fresh"}
     /\ \E stay \in SUBSET Packages : cache' = [p \in Packages |-> IF p \in stay THEN cache[p] ELSE "none"]

BootImage ==
  /\ step = "boot_image" /\ PrepareBootImage(FALSE, "preopt", "teardown")
  /\ UNCHANGED <<Work, tries, profile, apex>>

(* otapreopt is killed while it clears the cache: the boot image has gone  *)
(* and the artifacts have not.                                             *)
KilledWiping ==
  /\ step \in {"boot_image", "regenerate"} /\ ~GoodAsItIs(step = "regenerate")
  /\ image # "none" /\ Slip /\ step' = "teardown" /\ image' = "none" /\ wiping' = TRUE
  /\ UNCHANGED <<Work, tries, cache, profile, apex>>

(* RunPreopt.                                                              *)
ShouldSkipPreopt(p) == p \in Preopted \cup Absent

Skip ==
  /\ step = "preopt" /\ ShouldSkipPreopt(pkg) /\ step' = "teardown"
  /\ UNCHANGED <<Work, tries, image, cache, profile, apex, slips, wiping>>

(* One call of dexopt: dex2oat cannot create a runtime with a stale boot   *)
(* image, and fails with a bad profile.                                    *)
Dexopt(ok, noRuntime, failed) ==
  /\ tries' = Append(tries, guided)
  /\ \/ /\ InUse = "fresh" /\ ~(guided /\ profile[pkg] = "bad")
        /\ cache' = [cache EXCEPT ![pkg] = InUse] /\ step' = ok
        /\ NoSlip /\ UNCHANGED profile
     \/ /\ cache' = [cache EXCEPT ![pkg] = "none"]
        /\ profile' = IF guided THEN [profile EXCEPT ![pkg] = "empty"] ELSE profile
        /\ \/ InUse # "fresh" /\ step' = noRuntime /\ NoSlip
           \/ guided /\ profile[pkg] = "bad" /\ InUse = "fresh" /\ step' = failed /\ NoSlip
           \/ Slip /\ step' = failed

Preopt ==
  /\ step = "preopt" /\ ~ShouldSkipPreopt(pkg)
  /\ Dexopt("teardown", "regenerate", "downgrade")
  /\ UNCHANGED <<Work, image, apex, wiping>>

Regenerate ==
  /\ step = "regenerate" /\ PrepareBootImage(TRUE, "retry", "teardown")
  /\ UNCHANGED <<Work, tries, profile, apex>>

Retry ==
  /\ step = "retry" /\ Dexopt("teardown", "downgrade", "downgrade")
  /\ UNCHANGED <<Work, image, apex, wiping>>

(* Without the flag there is nothing to downgrade.                         *)
Downgrade ==
  /\ step = "downgrade" /\ guided' = FALSE
  /\ step' = IF guided THEN "last" ELSE "teardown"
  /\ UNCHANGED <<left, rounds, pkg, request, read, preloaded, tries, image, cache, profile, apex, slips, wiping>>

Last ==
  /\ step = "last" /\ Dexopt("teardown", "teardown", "teardown")
  /\ UNCHANGED <<Work, image, apex, wiping>>

(* Back in otapreopt_chroot, whatever became of otapreopt.                 *)
DeactivateApexPackages ==
  /\ step = "teardown" /\ apex' = FALSE /\ step' = "script"
  /\ UNCHANGED <<Work, tries, image, cache, profile, slips, wiping>>

Next ==
  \/ (\E p \in Packages, r \in Requests : NextPackage(p, r)) \/ ScriptEnds
  \/ Chroot \/ ReadArguments \/ ReadEnvironment \/ BootImage \/ KilledWiping
  \/ Skip \/ Preopt \/ Regenerate \/ Retry \/ Downgrade \/ Last
  \/ DeactivateApexPackages

Spec == Init /\ [][Next]_vars

(* The script and what it runs go on; every step is theirs.                *)
FairSpec == Spec /\ WF_vars(Next)

----------------------------------------------------------------------------
(* Every artifact in the cache was compiled against the boot image that is *)
(* in use, unless otapreopt was killed in the middle of clearing the cache *)
(* or could not unlink a file in it.                                       *)
CacheFits == ~wiping => \A p \in Packages : cache[p] \in {"none", InUse}

(* When nothing goes wrong, an update ends with every package compiled     *)
(* that was handed out and is to be compiled, left-over boot images and    *)
(* bad profiles notwithstanding.                                           *)
EveryPackageCompiled ==
  step = "end" /\ slips = 0 =>
    \A p \in Packages \ left : ShouldSkipPreopt(p) \/ cache[p] = "fresh"

(* Nothing that was activated in the chroot outlives the work on a package.*)
ApexReleased == step \in {"script", "end"} => ~apex

(* A request in the layout of any version the running system may have is   *)
(* read as it was meant: the flags the new system knows are those that     *)
(* were set, and no parameter is left without a value.                     *)
RequestUnderstood ==
  step = "environment" =>
    /\ read.flags \ {CompactDex} =
         {NewBit(f) : f \in request.flags \cap DOMAIN NewBits} \ {CompactDex}
    /\ read.set = Parameters
    /\ request.version < 8 => CompactDex \in read.flags

Done == step = "end"

(* The script comes to an end.                                             *)
ScriptFinishes == <>Done

----------------------------------------------------------------------------
(* What the proofs rest on.                                                *)

(* Version 1 has flags of its own; a flag has no other name.               *)
RequestsAssumption ==
  /\ MaxSlips \in Nat /\ MaxPackages \in Nat
  /\ \A r \in Requests : /\ r.version \in 1..10
                         /\ r.flags \subseteq IF r.version = 1 THEN DOMAIN OldBits ELSE DOMAIN NewBits

Steps ==
  {"script", "chroot", "main", "environment", "boot_image", "preopt", "regenerate", "retry",
   "downgrade", "last", "teardown", "end"}

TypeOK ==
  /\ step \in Steps /\ left \subseteq Packages /\ slips \in Nat
  /\ image \in {"none", "stale", "fresh"}
  /\ cache \in [Packages -> {"none", "stale", "fresh"}]
  /\ profile \in [Packages -> {"good", "bad", "empty"}]
  /\ step \notin {"script", "end"} => pkg \in Packages \ left /\ request \in Requests

Compiled(p) == ShouldSkipPreopt(p) \/ cache[p] = "fresh"

(* When nothing goes wrong: what has been handed out is compiled, but for  *)
(* the package in work, for which every step finds what the one before has *)
(* brought about.                                                          *)
InOrder ==
  /\ ~wiping
  /\ \A p \in Packages \ left : step \in {"script", "end"} \/ p # pkg => Compiled(p)
  /\ step \in {"regenerate", "retry", "downgrade", "last"} => ~ShouldSkipPreopt(pkg)
  /\ step = "preopt" => InUse # "none"
  /\ step = "regenerate" => InUse # "fresh"
  /\ step \in {"regenerate", "retry"} => ~(guided /\ profile[pkg] = "bad")
  /\ step \in {"retry", "downgrade", "last"} => InUse = "fresh"
  /\ step = "downgrade" => guided
  /\ step = "last" => ~guided
  /\ step = "teardown" => Compiled(pkg)

InOrderSoFar == slips = 0 => InOrder
ApexOfThePackage == step \in {"script", "chroot", "end"} => ~apex
Inv == TypeOK /\ CacheFits /\ RequestUnderstood /\ ApexOfThePackage /\ InOrderSoFar
=============================================================================
