----------------------------- MODULE RunCommand -----------------------------
(***************************************************************************)
(* The sections of a bug report: Dumpstate::RunCommand and DumpFile with   *)
(* the utilities beneath them (src/dumpstate/DumpstateUtil.cpp,            *)
(* DumpstateInternal.cpp, utils.cpp), and the progress they report.        *)
(*                                                                         *)
(* dumpstate forks a child for a command and waits for SIGCHLD with a      *)
(* timeout; a command that does not end is sent SIGTERM, then SIGKILL.     *)
(* The kernel is modelled by two facts: SIGCHLD is discarded unless it is  *)
(* blocked when the child ends, and a child that is stuck in the kernel    *)
(* dies of a signal only when it comes out.                                *)
(***************************************************************************)
EXTENDS Integers

CONSTANTS
  Sections,      \* the sections there may be
  DefaultMax,    \* kDefaultMax
  MaxNRuns,      \* STATS_MAX_N_RUNS
  MaxAverage,    \* STATS_MAX_AVERAGE
  Threshold,     \* update_progress_threshold_
  MaxSections, MaxSessions   \* bounds

VARIABLES
  step,       \* where dumpstate is
  section,    \* the section in work
  attempt,    \* which wait it is: for the "first", after "term", after "kill"
  child,      \* its process
  ended,      \* how the process ended, and whether the first wait was on
  strays,     \* earlier processes that were given up and are still stuck
  pending,    \* a blocked SIGCHLD
  result,     \* of RunCommandToFd or DumpFileToFd
  build,      \* [user, dry]: a user build, a dry run
  done,       \* sections done in this session
  session,
  progress, max, nRuns, average, \* the fields of Progress
  stats,      \* the statistics file
  updated,    \* last_updated_progress_
  percent     \* what the listener was told last

vars == <<step, section, attempt, child, ended, strays, pending, result, build,
          done, session, progress, max, nRuns, average, stats, updated, percent>>
measure == <<progress, max, nRuns, average, stats, updated, percent>>

NotEnded == [how |-> "not", inTime |-> FALSE]
NoSection == [kind |-> "none"]
NoStats == [runs |-> 0, average |-> 0]

Init ==
  /\ step = "idle" /\ section = NoSection /\ attempt = "first"
  /\ child = "none" /\ ended = NotEnded /\ strays = 0 /\ pending = FALSE /\ result = 0
  /\ build \in [user : BOOLEAN, dry : BOOLEAN]
  /\ done = 0 /\ session = 0 /\ progress = 0 /\ max = DefaultMax
  /\ nRuns = 0 /\ average = 0 /\ stats = NoStats /\ updated = 0 /\ percent = 0

----------------------------------------------------------------------------
(* RunCommandToFd up to the fork.  A command as root is skipped on a user  *)
(* build, any but a few on a dry run.                                      *)
Skipped(s) ==
  \/ s.kind = "command" /\ s.mode = "su" /\ build.user
  \/ build.dry /\ ~s.always

Begin(s) ==
  /\ step = "idle" /\ done < MaxSections
  /\ section' = s
  /\ \/ Skipped(s) /\ result' = 0 /\ step' = "update"
     \/ ~Skipped(s) /\ s.kind = "command" /\ step' = "fork" /\ UNCHANGED result
     \/ ~Skipped(s) /\ s.kind = "file" /\ step' = "read" /\ UNCHANGED result
     \/ s.kind = "file" /\ result' = -1 /\ step' = "update"   \* open fails
  /\ UNCHANGED <<attempt, child, ended, strays, pending, build, done, session, measure>>

Fork ==
  /\ step = "fork"
  /\ \/ child' = "forked" /\ step' = "block" /\ UNCHANGED result
     \/ result' = -1 /\ step' = "update" /\ UNCHANGED child
  /\ UNCHANGED <<section, attempt, ended, strays, pending, build, done, session, measure>>

----------------------------------------------------------------------------
(* The child.  One that cannot drop root returns from RunCommandToFd and   *)
(* goes on as a second dumpstate; one that cannot execute exits.           *)

Blocked == step = "wait"
Ends(how) ==
  /\ child' = "zombie" /\ pending' = (pending \/ Blocked)
  /\ ended' = [how |-> how, inTime |-> attempt = "first" /\ step \in {"block", "wait"}]
World == UNCHANGED <<step, section, attempt, result, build, done, session, measure>>

ChildStarts ==
  /\ child = "forked" /\ World /\ UNCHANGED strays
  /\ \/ child' = "running" /\ UNCHANGED <<ended, pending>>
     \/ section.mode = "drop" /\ child' = "copy" /\ UNCHANGED <<ended, pending>>
     \/ Ends("exit")

ChildEnds(how) ==
  /\ child \in {"running", "copy"} /\ Ends(how) /\ World /\ UNCHANGED strays

ChildStuck ==
  /\ child = "running" /\ child' = "stuck" /\ World /\ UNCHANGED <<ended, strays, pending>>

(* A process that was given up comes out of the kernel and dies.           *)
StrayDies ==
  /\ strays > 0 /\ strays' = strays - 1 /\ pending' = (pending \/ Blocked)
  /\ World /\ UNCHANGED <<child, ended>>

----------------------------------------------------------------------------
(* waitpid_with_timeout.  SIGCHLD may be that of another child, and        *)
(* waitpid then finds nothing.                                             *)

Own == UNCHANGED <<section, build, done, session, measure, strays>>

Block ==
  /\ step = "block" /\ step' = "wait" /\ Own
  /\ UNCHANGED <<attempt, child, ended, pending, result>>

Woken ==
  /\ step = "wait" /\ pending /\ pending' = FALSE /\ step' = "reap" /\ Own
  /\ UNCHANGED <<attempt, child, ended, result>>

(* Five seconds are enough for a process to die of SIGKILL.                *)
TimesOut ==
  /\ step = "wait" /\ ~pending /\ step' = "failed" /\ Own
  /\ child # "dying"
  /\ UNCHANGED <<attempt, child, ended, pending, result>>

Status(how) == CASE how = "ok" -> 0 [] how = "exit" -> 1 [] how = "signal" -> 9

Reap ==
  /\ step = "reap" /\ Own /\ UNCHANGED <<attempt, ended, pending>>
  /\ \/ /\ child = "zombie" /\ child' = "reaped" /\ step' = "update"
        /\ result' = IF attempt = "first" THEN Status(ended.how) ELSE -1
     \/ child # "zombie" /\ step' = "failed" /\ UNCHANGED <<child, result>>

(* The wait has failed: SIGTERM, then SIGKILL, then dumpstate gives up.    *)
(* Mutant: no SIGKILL.                                                     *)
TermOnly(a) == IF a = "first" THEN "term" ELSE "give up"
NextAttempt(a) == CASE a = "first" -> "term" [] a = "term" -> "kill" [] a = "kill" -> "give up"

Escalate ==
  /\ step = "failed" /\ Own /\ UNCHANGED <<ended, pending>>
  /\ attempt' = NextAttempt(attempt)
  /\ child' = IF attempt' = "kill" /\ child \in {"forked", "running", "copy"} THEN "dying" ELSE child
  /\ \/ attempt' # "give up" /\ step' = "block" /\ UNCHANGED result
     \/ attempt' = "give up" /\ step' = "update" /\ result' = -1

(* SIGKILL does its work.                                                  *)
Killed ==
  /\ child = "dying" /\ step # "update" /\ Ends("signal") /\ World /\ UNCHANGED strays

----------------------------------------------------------------------------
(* DumpFileFromFdToFd: what is there is copied; a read that waits for 30   *)
(* seconds, an error and the end of the file end it.                       *)
ReadFile ==
  /\ step = "read" /\ UNCHANGED <<attempt, child, ended, strays, pending, build, done, session, measure>>
  /\ \/ section.chunks > 0 /\ section' = [section EXCEPT !.chunks = @ - 1]
        /\ UNCHANGED <<step, result>>
     \/ section.chunks = 0 /\ step' = "update" /\ result' = 0 /\ UNCHANGED section
     \/ section.chunks > 0 /\ step' = "update" /\ result' = 0 /\ UNCHANGED section

----------------------------------------------------------------------------
(* Progress.  growth_factor_ is 1.1; floor of a float is exact here.       *)
Grown(p, m) == IF p > m THEN (11 * p) \div 10 ELSE m

(* UpdateProgress, with the timeout of a command or the weight of a file.  *)
UpdateProgress ==
  /\ step = "update" /\ step' = "idle" /\ done' = done + 1
  /\ progress' = progress + section.weight
  /\ max' = Grown(progress', max)
  /\ IF updated > 0 /\ progress' - updated < Threshold
       THEN UNCHANGED <<updated, percent>>
       ELSE /\ updated' = progress'
            /\ percent' = (100 * progress') \div max'
  /\ strays' = strays + IF child \in {"stuck", "dying"} THEN 1 ELSE 0
  /\ section' = NoSection /\ attempt' = "first" /\ child' = "none" /\ ended' = NotEnded /\ result' = 0
  /\ UNCHANGED <<pending, build, session, nRuns, average, stats>>

(* Save at the end of a session, Load at the beginning of the next, where  *)
(* the file may have been lost.                                            *)
Saved == [runs |-> nRuns + 1, average |-> (nRuns * average + progress) \div (nRuns + 1)]
Valid(s) == s.runs > 0 /\ s.average > 0 /\ s.runs <= MaxNRuns /\ s.average <= MaxAverage

NextSession(s) ==
  /\ step = "idle" /\ done > 0 /\ session < MaxSessions /\ session' = session + 1
  /\ s \in {Saved, NoStats} /\ stats' = s
  /\ nRuns' = s.runs /\ average' = s.average
  /\ max' = IF Valid(s) THEN s.average ELSE DefaultMax
  /\ progress' = 0 /\ updated' = 0 /\ percent' = 0 /\ done' = 0
  /\ strays' = 0
  /\ UNCHANGED <<step, section, attempt, child, ended, pending, result, build>>

----------------------------------------------------------------------------
Parent == Fork \/ Block \/ Woken \/ TimesOut \/ Reap \/ Escalate \/ ReadFile \/ UpdateProgress

Next ==
  \/ (\E s \in Sections : Begin(s)) \/ Parent \/ Killed
  \/ ChildStarts \/ (\E how \in {"ok", "exit", "signal"} : ChildEnds(how)) \/ ChildStuck
  \/ StrayDies \/ (\E s \in {Saved, NoStats} : NextSession(s))

Spec == Init /\ [][Next]_vars

(* dumpstate runs on, its waits time out, and SIGKILL works on a process   *)
(* that is not stuck in the kernel.  Nothing of the command is counted on. *)
FairSpec == Spec /\ WF_vars(Parent \/ Killed)

----------------------------------------------------------------------------
(* When a command has been run, its process has ended, is dying of SIGKILL *)
(* or is stuck in the kernel: it does not run beside the next section.     *)
(* And 0 is the result only of a command that was skipped or exited with   *)
(* 0, or of a second dumpstate that came to its end.                       *)
CommandOver ==
  step = "update" /\ section.kind = "command" =>
    /\ child \in {"none", "zombie", "reaped", "stuck", "dying"}
    /\ result = 0 => Skipped(section) \/ ended.how = "ok"

(* The progress that the listener is told is a percentage, whatever the    *)
(* statistics of earlier sessions were and however long the sections take. *)
PercentInRange == percent \in 0..100

BetweenSections == step = "idle"

(* Every section comes to an end, also one with a command that hangs.      *)
EverySectionEnds == []<>BetweenSections

(* A command that has ended while it was waited for is reported with its   *)
(* own status.                                                             *)
EndedInTimeReported ==
  step = "update" /\ ended.inTime => result = Status(ended.how)

----------------------------------------------------------------------------
(* What the proofs rest on.                                                *)

SectionsAssumption ==
  /\ DefaultMax \in Nat \ {0}
  /\ \A s \in Sections : {"kind", "weight"} \subseteq DOMAIN s /\ s.weight \in Nat

(* A process that SIGKILL was sent to, or that was never made, is over or  *)
(* will be; one that has ended has a status.                               *)
Over == {"none", "zombie", "reaped", "stuck", "dying"}
ChildKnown ==
  /\ attempt \in {"first", "term", "kill", "give up"}
  /\ step \in {"block", "wait", "reap", "failed"} => attempt # "give up"
  /\ child \in Over \cup {"forked", "running", "copy"}
  /\ step \in {"idle", "fork", "read"} => child = "none" /\ attempt = "first"
  /\ step = "update" \/ attempt \in {"kill", "give up"} => child \in Over
  /\ child = "zombie" => ended.how \in {"ok", "exit", "signal"}

(* What is known of the section in work.                                   *)
SectionKnown ==
  /\ step # "idle" => {"kind", "weight"} \subseteq DOMAIN section /\ section.weight \in Nat
  /\ step = "read" => section.kind = "file"

Measured ==
  /\ progress \in Nat /\ max \in Nat \ {0} /\ nRuns \in Nat /\ average \in Int

Inv == ChildKnown /\ SectionKnown /\ CommandOver /\ Measured /\ PercentInRange
=============================================================================
