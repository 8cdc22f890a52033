------------------------------- MODULE Parts -------------------------------
(* The components that fit a run together.  A behaviour is one of a single *)
(* component, which the variable part names.  x1 to x20 stand for the      *)
(* variables of that component, x1 for its control; a component with fewer *)
(* leaves the rest at 0.  The message buffers of BinderIo, which this      *)
(* module extends, have their own variables.  The constants of each other  *)
(* component are the fields of one record.                                 *)
EXTENDS BinderIo

CONSTANTS OfDumpsys, OfService, OfCache, OfOta, OfCommand, OfAtrace, OfLshal, OfRelay, OfReplayer,
          OfBackup

VARIABLES part, x1, x2, x3, x4, x5, x6, x7, x8, x9, x10,
          x11, x12, x13, x14, x15, x16, x17, x18, x19, x20

from19 == <<x19, x20>>
from18 == <<x18, from19>>
from16 == <<x16, x17, from18>>
from15 == <<x15, from16>>
from12 == <<x12, x13, x14, from15>>
from10 == <<x10, x11, from12>>
from9 == <<x9, from10>>
slots == <<x1, x2, x3, x4, x5, x6, x7, x8, from9>>
state == <<part, vars, slots>>

Rest20 == x20 = 0
Rest19 == x19 = 0 /\ Rest20
Rest18 == x18 = 0 /\ Rest19
Rest16 == x16 = 0 /\ x17 = 0 /\ Rest18
Rest15 == x15 = 0 /\ Rest16
Rest12 == x12 = 0 /\ x13 = 0 /\ x14 = 0 /\ Rest15
Rest10 == x10 = 0 /\ x11 = 0 /\ Rest12
Rest9 == x9 = 0 /\ Rest10

----------------------------------------------------------------------------
DY == INSTANCE Dumpsys WITH
  pc <- x1, turn <- x2, left <- x3, active <- x4, open <- x5, thread <- x6, held <- x7,
  copy <- x8, pipe <- x9, uncopied <- x10, outcome <- x11,
  List <- OfDumpsys.list, Skipped <- OfDumpsys.skipped, Capacity <- OfDumpsys.capacity, Timeout <- OfDumpsys.timeout, Faulty <- OfDumpsys.faulty

DS == INSTANCE DumpstateService WITH
  alive <- x1, services <- x2, binder <- x3, request <- x4, thread <- x5, options <- x6,
  listener <- x7, progress <- x8, heard <- x9,
  Callers <- OfService.callers, Modes <- OfService.modes, NoCaller <- OfService.nobody

FC == INSTANCE FreeCache WITH
  pc <- x1, call <- x2, present <- x3, size <- x4, stamp <- x5, linked <- x6, stuck <- x7,
  free <- x8, trackers <- x9, used <- x10, items <- x11, loaded <- x12, queue <- x13,
  active <- x14, needed <- x15, cleared <- x16, cacheTotal <- x17, result <- x18, late <- x19,
  uncounted <- x20,
  DataPaths <- DOMAIN OfCache.owner, Owner <- OfCache.owner, Entries <- DOMAIN OfCache.in,
  In <- OfCache.in, Directories <- OfCache.directories, Groups <- OfCache.groups,
  Tombs <- OfCache.tombs, Rewritten <- OfCache.rewritten, Blocks <- OfCache.blocks,
  Scenes <- OfCache.scenes, Quotas <- OfCache.quotas, DefaultQuota <- OfCache.quota,
  QuotaStats <- OfCache.stats, Calls <- OfCache.calls, DiskFree <- OfCache.free,
  None <- OfCache.none

OT == INSTANCE Otapreopt WITH
  step <- x1, left <- x2, rounds <- x3, pkg <- x4, request <- x5, read <- x6, guided <- x7,
  tries <- x8, image <- x9, preloaded <- x10, cache <- x11, profile <- x12, apex <- x13,
  slips <- x14, wiping <- x15,
  Packages <- OfOta.packages, Preopted <- OfOta.preopted, Absent <- OfOta.absent,
  Requests <- OfOta.requests, MaxPackages <- OfOta.rounds, MaxSlips <- OfOta.slips

RC == INSTANCE RunCommand WITH
  step <- x1, section <- x2, attempt <- x3, child <- x4, ended <- x5, strays <- x6,
  pending <- x7, result <- x8, build <- x9, done <- x10, session <- x11, progress <- x12,
  max <- x13, nRuns <- x14, average <- x15, stats <- x16, updated <- x17, percent <- x18,
  Sections <- OfCommand.sections, DefaultMax <- OfCommand.max, MaxNRuns <- OfCommand.runs,
  MaxAverage <- OfCommand.average, Threshold <- OfCommand.threshold,
  MaxSections <- OfCommand.done, MaxSessions <- OfCommand.sessions

AT == INSTANCE Atrace WITH
  step <- x1, inv <- x2, count <- x3, enabled <- x4, ok <- x5, aborted <- x6, on <- x7,
  events <- x8, options <- x9, buffer <- x10, tags <- x11, apps <- x12, seen <- x13, pdx <- x14,
  vendor <- x15, slips <- x16, spoilt <- x17, clean <- x18,
  Category <- OfAtrace.category, Vendor <- OfAtrace.vendor, ShellEvents <- OfAtrace.shell,
  ShellOptions <- OfAtrace.settings, Invocations <- OfAtrace.invocations,
  MaxInvocations <- OfAtrace.count, MaxSlips <- OfAtrace.slips

LS == INSTANCE Lshal WITH
  step <- x1, registered <- x2, readable <- x3, types <- x4, wait <- x5, thread <- x6,
  reply <- x7, names <- x8, current <- x9, bad <- x10, services <- x11, libraries <- x12,
  manifest <- x13, lazy <- x14, cached <- x15, status <- x16, slips <- x17,
  Services <- DOMAIN OfLshal.pid, PidOf <- OfLshal.pid, Tells <- OfLshal.tells,
  DeclaredHw <- OfLshal.hw, DeclaredPass <- OfLshal.pass, Libraries <- OfLshal.libraries,
  Lists <- OfLshal.lists, MaxSlips <- OfLshal.slips

PR == INSTANCE PipeRelay WITH
  main <- x1, status <- x2, writers <- x3, pipe <- x4, owed <- x5, relay <- x6,
  finished <- x7, slips <- x8,
  Capacity <- OfRelay.capacity, MaxSlips <- OfRelay.slips

RE == INSTANCE Replayer WITH
  main <- x1, trace <- x2, numThreads <- x3, index <- x4, dispatched <- x5, state <- x6,
  asleep <- x7, worker <- x8, layers <- x9, displays <- x10, queue <- x11, control <- x12,
  manual <- x13, untilVSync <- x14, hasStopped <- x15, stopAt <- x16, injecting <- x17,
  slips <- x18, failed <- x19,
  Traces <- OfReplayer.traces, Threads <- OfReplayer.threads, MaxSlips <- OfReplayer.slips

RB == INSTANCE Rawbu WITH
  pc <- x1, data <- x2, archive <- x3, where <- x4, all <- x5, running <- x6, todo <- x7,
  writes <- x8, calls <- x9, slips <- x10, source <- x11, before <- x12, stuck <- x13,
  missed <- x14,
  Places <- DOMAIN OfBackup.in, DirOf <- OfBackup.in, Dirs <- OfBackup.dirs,
  Links <- OfBackup.links, NoTouch <- OfBackup.notouch, NoBackup <- OfBackup.nobackup,
  BackupDirs <- OfBackup.where, MaxWrites <- OfBackup.writes, MaxCalls <- OfBackup.calls,
  MaxSlips <- OfBackup.slips

ASSUME PartsAssumption ==
  /\ DY!ListAssumption /\ DY!SizesAssumption /\ DS!CallersAssumption
  /\ FC!ForestAssumption /\ FC!SizesAssumption
  /\ OT!RequestsAssumption /\ RE!TracesAssumption /\ RC!SectionsAssumption
  /\ LS!LibrariesAssumption
  /\ RB!PlacesAssumption

----------------------------------------------------------------------------
OtherInit ==
  \/ part = "dumpsys" /\ DY!Init /\ Rest12
  \/ part = "service" /\ DS!Init /\ Rest10
  \/ part = "cache" /\ FC!Init
  \/ part = "ota" /\ OT!Init /\ Rest16
  \/ part = "command" /\ RC!Init /\ Rest19
  \/ part = "atrace" /\ AT!Init /\ Rest19
  \/ part = "lshal" /\ LS!Init /\ Rest18
  \/ part = "relay" /\ PR!Init /\ Rest9
  \/ part = "replayer" /\ RE!Init /\ Rest20
  \/ part = "backup" /\ RB!Init /\ Rest15

PartsInit ==
  /\ Init
  /\ \/ OtherInit
     \/ /\ part = "binder" /\ x1 = "none" /\ x2 = 0 /\ x3 = 0 /\ x4 = 0 /\ x5 = 0 /\ x6 = 0
        /\ x7 = 0 /\ x8 = 0 /\ Rest9

(* A step is one of the component; nothing else changes.                   *)
BinderStep == part = "binder" /\ Next /\ UNCHANGED <<part, slots>>
DumpsysStep == part = "dumpsys" /\ DY!Next /\ UNCHANGED <<part, vars, from12>>
ServiceStep == part = "service" /\ DS!NextUndumped /\ UNCHANGED <<part, vars, from10>>
CacheStep == part = "cache" /\ FC!Next /\ UNCHANGED <<part, vars>>
OtaStep == part = "ota" /\ OT!Next /\ UNCHANGED <<part, vars, from16>>
CommandStep == part = "command" /\ RC!Next /\ UNCHANGED <<part, vars, from19>>
AtraceStep == part = "atrace" /\ AT!Next /\ UNCHANGED <<part, vars, from19>>
LshalStep == part = "lshal" /\ LS!Next /\ UNCHANGED <<part, vars, from18>>
RelayStep == part = "relay" /\ PR!Next /\ UNCHANGED <<part, vars, from9>>
ReplayerStep == part = "replayer" /\ RE!Next /\ UNCHANGED <<part, vars, x20>>
BackupStep == part = "backup" /\ RB!Next /\ UNCHANGED <<part, vars, from15>>

PartsNext ==
  \/ BinderStep \/ DumpsysStep \/ ServiceStep \/ CacheStep \/ OtaStep \/ CommandStep
  \/ AtraceStep \/ LshalStep \/ RelayStep \/ ReplayerStep \/ BackupStep

PartsSpec == PartsInit /\ [][PartsNext]_state

(* Of each component what its FairSpec asks for.                           *)
Fairness ==
  /\ WF_(DY!vars)(part = "dumpsys" /\ DY!Advance) /\ WF_(DY!vars)(part = "dumpsys" /\ DY!Tick)
  /\ \A s \in DY!Services : /\ WF_(DY!vars)(part = "dumpsys" /\ DY!ThreadCloses(s))
                            /\ WF_(DY!vars)(part = "dumpsys" /\ DY!ThreadEnds(s))
  /\ \A c \in OfService.callers : WF_(DS!vars)(part = "service" /\ DS!Report(c))
  /\ WF_(FC!vars)(part = "cache" /\ FC!installd)
  /\ WF_(OT!vars)(part = "ota" /\ OT!Next)
  /\ WF_(RC!vars)(part = "command" /\ (RC!Parent \/ RC!Killed))
  /\ WF_(LS!vars)(part = "lshal" /\ LS!Main) /\ WF_(LS!vars)(part = "lshal" /\ LS!Interrupted)
  /\ WF_(LS!vars)(part = "lshal" /\ LS!Notify) /\ WF_(LS!vars)(part = "lshal" /\ LS!TimesOut)
  /\ WF_(PR!vars)(part = "relay" /\ PR!Main) /\ WF_(PR!vars)(part = "relay" /\ PR!Relay)
  /\ WF_(RE!vars)(part = "replayer" /\ RE!MainThread)
  /\ \A i \in UNION {DOMAIN t : t \in OfReplayer.traces} :
       WF_(RE!vars)(part = "replayer" /\ i \in RE!Increments /\ RE!Worker(i))

PartsFairSpec == PartsSpec /\ Fairness

----------------------------------------------------------------------------
(* dumpstate's service makes one report at a time and tells its verdict to *)
(* the listener of the request (DumpstateService.cpp, startBugreport).     *)
OneReportForItsCaller == part = "service" => DS!OneReportAtATime /\ DS!VerdictToItsCaller

(* dumpsys reports a dump complete only when all of it was copied, and     *)
(* never drops a thread it has not joined or detached (dumpsys.cpp).       *)
DumpComplete == part = "dumpsys" => DY!CompleteMeansAll /\ DY!NoThreadLost

(* What otapreopt leaves for the updated system fits the boot image it     *)
(* will have, and is complete when nothing failed; nothing stays active.   *)
UpdatePrepared ==
  part = "ota" => OT!CacheFits /\ OT!EveryPackageCompiled /\ OT!ApexReleased

(* Requests of every version are read as they were meant                   *)
(* (otapreopt_parameters.cpp).                                             *)
RequestUnderstood == part = "ota" => OT!RequestUnderstood

(* A command of a bug report is over when its section is, one that did not *)
(* succeed is not reported to have succeeded, and progress stays a         *)
(* percentage (RunCommandToFd, Progress).                                  *)
SectionSound == part = "command" => RC!CommandOver /\ RC!PercentInRange

(* atrace captures what was asked for and puts back everything it may      *)
(* write, whatever earlier invocations left (atrace.cpp, main).            *)
TraceSound == part = "atrace" => AT!CaptureIsAsked /\ AT!StopRestores

(* lshal lists truly what it lists without an error: each service with     *)
(* what it told of itself, although services hang, come and go             *)
(* (ListCommand.cpp, Timeout.h).                                           *)
ListingSound == part = "lshal" => LS!ListedTruly

(* surfacereplayer starts the increments in the order of the trace and     *)
(* leaves VSync injection off (Replayer::replay, Event).                   *)
StartedInOrder == part = "replayer" => RE!StartedInOrder

(* A restore that succeeds brings back what was there when the backup was  *)
(* made, whatever failed or was killed before, but for the failures of     *)
(* readdir and fclose that are not looked at (backup.cpp, restore_data).   *)
RestoredExactly == part = "backup" => RB!RestoredExactly

(* freeCache takes only from the app that is furthest over its quota, and  *)
(* from none that is within it unless that is defied; of an app it takes   *)
(* the oldest first, and no more than it counts (CacheTracker, freeCache). *)
CacheTakenInTurn == FC!FairlyTaken /\ FC!OldestFirst /\ FC!NothingUncounted

(* freeCache deletes no file in a tomb, and nothing once the disk has what *)
(* was asked for.                                                          *)
CacheSpared == FC!TombstonesKept /\ FC!StopsAtTarget

(* dumpsys, freeCache, the script of the update and `lshal list' come to   *)
(* an end: dumpsys unless a service goes on writing for ever, which its    *)
(* timeout does not stop (dumpsys.cpp, writeDump); the others whatever     *)
(* services, apps and calls do.                                            *)
EveryPartEnds ==
  \/ \E s \in DY!Services : []<><<part = "dumpsys" /\ DY!ServiceWrites(s)>>_(DY!vars)
  \/ <>(/\ part = "dumpsys" => DY!Done
        /\ part = "cache" => FC!Done
        /\ part = "ota" => OT!Done
        /\ part = "lshal" => LS!Done)

(* Nobody waits for ever: a caller of startBugreport for its listener to   *)
(* be told, dumpstate for the command of a section, the threads of         *)
(* surfacereplayer and its main thread for each other; nor `lshal debug'   *)
(* for its relay thread, unless the HAL goes on writing for ever, since    *)
(* mFinished is looked at only when there is nothing to read               *)
(* (PipeRelay.cpp, threadLoop).                                            *)
NobodyWaitsForEver ==
  \/ []<><<part = "relay" /\ PR!HalWrites>>_(PR!vars)
  \/ []<>(/\ part = "service" => \A c \in OfService.callers : DS!Told(c)
          /\ part = "command" => RC!BetweenSections
          /\ part = "relay" => ~PR!Relaying
          /\ part = "replayer" => RE!Settled)

----------------------------------------------------------------------------
(* What comments of the code say, see the README.                          *)

(* A command that has ended while it was waited for is reported with its   *)
(* own status.                                                             *)
EndedInTimeReported == part = "command" => RC!EndedInTimeReported

(* What the HAL wrote before debug() returned is printed.                  *)
Drained == part = "relay" => PR!Drained
=============================================================================
