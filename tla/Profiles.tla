------------------------------ MODULE Profiles ------------------------------
(***************************************************************************)
(* The profiles of one dex file and installd's operations on them          *)
(* (src/installd/dexopt.cpp): clearing, merging, snapshots, dumps, system  *)
(* profiles and the preparation of an app's profile.                       *)
(*                                                                         *)
(* An app writes samples to the current profile of its user, holding the   *)
(* lock of the file; installd has profman merge the current profiles into  *)
(* the reference profile and then truncates them.  A profile is Missing or *)
(* the set of samples in it.  Calls hold installd's mLock; the apps do not *)
(* know of it, and save between any two steps of a call.                   *)
(***************************************************************************)
EXTENDS Naturals, FiniteSets

CONSTANTS
  Users,       \* the known users
  Owner,       \* the user who owns a secondary dex file
  Samples,     \* what an app may record
  Shipped,     \* the samples of a system profile or of dex metadata
  Scenarios,   \* the kind of dex file, the users who have a current profile
               \* at first, and the operations that are called for
  Missing,
  MaxCalls, MaxFaults   \* bounds (the death of installd is a fault)

ASSUME ProfilesAssumption ==
  /\ Owner \in Users /\ MaxCalls \in Nat /\ MaxFaults \in Nat
  /\ Samples \cap Shipped = {}
  /\ \A p \in SUBSET (Samples \cup Shipped) : p # Missing
  /\ \A sc \in Scenarios : sc.secondary \in BOOLEAN

VARIABLES
  cur,        \* user -> current profile
  ref,        \* the reference profile
  snap,       \* the snapshot profile
  locked,     \* the users whose app holds the lock of its current profile
  recorded,   \* the samples the apps have saved
  secondary,  \* TRUE iff the dex file is a secondary one
  call, pc, result,  \* the call, where it is, what it returned
  n,          \* calls made
  faults,
  job,        \* the local variables of the call
  asked       \* the operations that are called for

files == <<cur, ref, snap>>
apps == <<locked, recorded, secondary, asked>>

In(p) == IF p = Missing THEN {} ELSE p
Known == IF secondary THEN {Owner} ELSE Users
Current == UNION {In(cur[u]) : u \in Users}
Held == In(ref) \cup Current

(* opened: the users whose profile is open; code: how profman ended; todo: *)
(* the users whose profile is still to be cleared; ok: FALSE once one      *)
(* could not be.  The rest is history: seen, what profman read; late, what *)
(* was saved since; before, what the profiles held at first.               *)
Locals ==
  [opened |-> {}, code |-> "none", todo |-> {}, ok |-> TRUE,
   seen |-> {}, late |-> {}, before |-> Held]

ProfilesInit ==
  /\ \E sc \in Scenarios :
       /\ secondary = sc.secondary /\ asked = sc.ops
       /\ cur = [u \in Users |-> IF u \in sc.having THEN {} ELSE Missing]
  /\ ref = Missing /\ snap = Missing /\ locked = {} /\ recorded = {}
  /\ call = [op |-> "none"] /\ pc = "idle" /\ result = TRUE /\ n = 0
  /\ faults = 0 /\ job = Locals

----------------------------------------------------------------------------
(* Apps.  The lock is taken and given back around a save; an app may die   *)
(* holding it.  A secondary dex file's profile is created by the app, the  *)
(* profile of an apk by installd.                                          *)

AppLock(u) ==
  /\ u \in Known \ locked /\ Samples # recorded
  /\ cur[u] # Missing \/ secondary
  /\ cur' = [cur EXCEPT ![u] = In(@)]
  /\ locked' = locked \cup {u}
  /\ UNCHANGED <<ref, snap, recorded, secondary, asked, call, pc, result, n, faults, job>>

AppSave(u, s) ==
  /\ u \in locked /\ s \in Samples \ recorded
  /\ cur' = [cur EXCEPT ![u] = In(@) \cup {s}]
  /\ recorded' = recorded \cup {s}
  /\ locked' = locked \ {u}
  /\ job' = IF pc = "idle" THEN job ELSE [job EXCEPT !.late = @ \cup {s}]
  /\ UNCHANGED <<ref, snap, secondary, asked, call, pc, result, n, faults>>

AppDies(u) ==
  /\ u \in locked /\ locked' = locked \ {u}
  /\ UNCHANGED <<files, recorded, secondary, asked, call, pc, result, n, faults, job>>

----------------------------------------------------------------------------
(* The beginning and the end of a call; a failure of one of its steps.     *)

Begin(c, label) ==
  /\ c.op \in asked
  /\ pc = "idle" /\ n < MaxCalls /\ n' = n + 1
  /\ call' = c /\ pc' = label /\ job' = Locals
  /\ UNCHANGED <<files, apps, result, faults>>

Return(r) == pc' = "idle" /\ result' = r
Goto(label) == pc' = label /\ UNCHANGED result
Fault == faults < MaxFaults /\ faults' = faults + 1
Same == UNCHANGED <<apps, call, n>>

(* clear_profile, of a profile whose lock another process may hold: what   *)
(* it leaves and whether it cleared it.                                    *)
Cleared(p, held) == IF p = Missing \/ held THEN p ELSE {}
(* Mutant: a lock that is not got is passed over.                          *)
OkIfLocked(p, held) == TRUE
ClearedOk(p, held) == p = Missing \/ ~held

----------------------------------------------------------------------------
(* analyze_profiles: mergeProfiles, and a part of the dexopt of a          *)
(* secondary dex file.                                                     *)

(* The exit codes of profman that clear profiles.                          *)
(* Mutant: whatever profman said.                                          *)
ClearsAlways(c) == c # "none"
ClearsCurrent(c) == c \in {"compile", "bad", "unknown"}
ClearsReference(c) == c \in {"bad", "unknown"}

Analyzed(need) ==
  IF call.op = "dexopt" THEN Goto("analyzer") ELSE Return(need)

(* The reference profile is created when it is not there; current profiles *)
(* that are not there are skipped.  Snapshots and dumps begin like this.   *)
OpenProfiles ==
  /\ pc = "open"
  /\ job' = [job EXCEPT !.opened = {u \in Known : cur[u] # Missing}]
  /\ \/ /\ ref' = In(ref) /\ UNCHANGED faults
        /\ IF job'.opened = {} /\ call.op # "dump" THEN Analyzed(FALSE) ELSE Goto("profman")
     \/ /\ Fault /\ UNCHANGED ref
        /\ IF job'.opened = {} \/ call.op # "dump" THEN Analyzed(FALSE) ELSE Goto("profman")
  /\ UNCHANGED <<cur, snap>> /\ Same

(* profman (external) takes the locks, reads what is open, and writes the  *)
(* merge if it holds something new that is worth compiling for.            *)
Read == UNION {In(cur[u]) : u \in job.opened}
Unlocked == locked \cap job.opened = {}

Profman(c) == job' = [job EXCEPT !.code = c, !.seen = Read, !.late = {},
                                 !.todo = IF ClearsCurrent(c) THEN Known ELSE {}]

Merge ==
  /\ pc = "profman" /\ call.op \in {"merge", "dexopt"} /\ Goto("clear")
  /\ \/ /\ Unlocked /\ ~(Read \subseteq ref)
        /\ Profman("compile") /\ ref' = ref \cup Read /\ UNCHANGED faults
     \/ Unlocked /\ Profman("skip") /\ UNCHANGED <<ref, faults>>
     \/ ~Unlocked /\ Profman("locking") /\ UNCHANGED <<ref, faults>>
     \/ /\ Fault /\ UNCHANGED ref
        /\ \E c \in {"bad", "io", "unknown", "signal"} : Profman(c)
  /\ UNCHANGED <<cur, snap>> /\ Same

(* The current profiles are cleared one after the other ...                *)
ClearCurrent(u) ==
  /\ pc = "clear" /\ u \in job.todo
  /\ \/ /\ cur' = [cur EXCEPT ![u] = Cleared(@, u \in locked)] /\ UNCHANGED faults
        /\ job' = [job EXCEPT !.todo = @ \ {u}, !.ok = @ /\ ClearedOk(cur[u], u \in locked)]
     \/ /\ Fault /\ UNCHANGED cur
        /\ job' = [job EXCEPT !.todo = @ \ {u}, !.ok = FALSE]
  /\ UNCHANGED <<ref, snap, pc, result>> /\ Same

(* ... and then the reference profile, which no app ever locks.            *)
ClearReference ==
  /\ pc = "clear" /\ job.todo = {} /\ call.op # "clear"
  /\ ref' = IF ClearsReference(job.code) THEN Cleared(ref, FALSE) ELSE ref
  /\ Analyzed(job.code = "compile")
  /\ UNCHANGED <<cur, snap, faults, job>> /\ Same

----------------------------------------------------------------------------
(* clearAppProfiles clears the reference profile first.                    *)
ClearAppProfiles ==
  /\ pc = "clear_reference"
  /\ ref' = Cleared(ref, FALSE)
  /\ job' = [job EXCEPT !.todo = Known] /\ Goto("clear")
  /\ UNCHANGED <<cur, snap, faults>> /\ Same

ClearAppProfilesEnds ==
  /\ pc = "clear" /\ job.todo = {} /\ call.op = "clear" /\ Return(job.ok)
  /\ UNCHANGED <<files, faults, job>> /\ Same

(* create_app_profile_snapshot: the snapshot is truncated when it is       *)
(* opened, and profman's exit code is not looked at.                       *)
Truncated(p) == {}

SnapshotOpen ==
  /\ pc = "snapshot"
  /\ \/ snap' = Truncated(snap) /\ Goto("open") /\ UNCHANGED faults
     \/ Fault /\ Return(FALSE) /\ UNCHANGED snap
  /\ UNCHANGED <<cur, ref, job>> /\ Same

Snapshot ==
  /\ pc = "profman" /\ call.op = "snapshot"
  /\ job' = [job EXCEPT !.seen = Read \cup ref, !.late = {}]
  /\ \/ Unlocked /\ snap' = snap \cup Read \cup ref /\ Return(TRUE) /\ UNCHANGED faults
     \/ ~Unlocked /\ Return(TRUE) /\ UNCHANGED <<snap, faults>>
     \/ Fault /\ result' \in BOOLEAN /\ pc' = "idle" /\ UNCHANGED snap
  /\ UNCHANGED <<cur, ref>> /\ Same

DestroySnapshot ==
  /\ pc = "destroy_snapshot" /\ snap' = Missing /\ Return(TRUE)
  /\ UNCHANGED <<cur, ref, faults, job>> /\ Same

(* dump_profiles reads; all it leaves is an empty reference profile.       *)
Dump ==
  /\ pc = "profman" /\ call.op = "dump"
  /\ \/ Return(TRUE) /\ UNCHANGED faults
     \/ Fault /\ Return(FALSE)
  /\ UNCHANGED <<files, job>> /\ Same

(* copy_system_profile: the reference profile becomes the system's.        *)
CopySystemProfile ==
  /\ pc = "copy"
  /\ \/ ref' = Shipped /\ Return(TRUE) /\ UNCHANGED faults
     \/ Fault /\ Return(FALSE) /\ ref' = In(ref)
  /\ UNCHANGED <<cur, snap, job>> /\ Same

(* prepare_app_profile: the current profile of a user, and the profile in  *)
(* the dex metadata that came with the apk.                                *)
PrepareAppProfile ==
  /\ pc = "prepare"
  /\ \/ /\ cur' = [cur EXCEPT ![call.user] = In(@)]
        /\ ref' = IF call.metadata THEN In(ref) \cup Shipped ELSE ref
        /\ Return(TRUE) /\ UNCHANGED faults
     \/ /\ Fault /\ Return(FALSE) /\ UNCHANGED <<cur, ref>>
     \/ /\ call.metadata /\ Fault /\ result' \in BOOLEAN /\ pc' = "idle"
        /\ cur' = [cur EXCEPT ![call.user] = In(@)] /\ ref' = In(ref)
  /\ UNCHANGED <<snap, job>> /\ Same

----------------------------------------------------------------------------
BeginProfiles ==
  \/ /\ ~secondary
     /\ \/ Begin([op |-> "merge"], "open")
        \/ Begin([op |-> "clear"], "clear_reference")
        \/ Begin([op |-> "snapshot"], "snapshot")
        \/ Begin([op |-> "destroy_snapshot"], "destroy_snapshot")
        \/ Begin([op |-> "dump"], "open")
        \/ Begin([op |-> "copy"], "copy")
        \/ \E u \in Users, b \in BOOLEAN :
             Begin([op |-> "prepare", user |-> u, metadata |-> b], "prepare")

ProfileStep ==
  \/ OpenProfiles \/ Merge \/ (\E u \in Users : ClearCurrent(u)) \/ ClearReference
  \/ ClearAppProfiles \/ ClearAppProfilesEnds
  \/ SnapshotOpen \/ Snapshot \/ DestroySnapshot \/ Dump \/ CopySystemProfile
  \/ PrepareAppProfile

AppStep == \E u \in Users : AppLock(u) \/ AppDies(u) \/ \E s \in Samples : AppSave(u, s)
=============================================================================
