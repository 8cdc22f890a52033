# Verification of the Android native commands (`cmds`)

The repository is a collection of native daemons and command-line tools of
Android: the binder service manager, the bugreport machinery (`dumpstate`,
`dumpsys`, `bugreport`, `bugreportz`), the package installer's helper daemon
(`installd`), and smaller tools. This directory holds TLA+ models of them, TLC
configurations that check the models on small instances, and TLAPS proofs.

## 1. Inventory

For every part: the state it keeps, its operations, what it interacts with, what
is hard about it, and what makes it correct.

**Service manager** (`servicemanager/service_manager.c`, `binder.c`). State: a
linked list of `svcinfo` (name, handle, `allow_isolated`, dump priority) and, in
the driver, strong references and one death notification per reference.
Operations: add, get/check, list by index, ping; death notices. Clients are other
processes, concurrent, and die at any time. Hard: handles are small integers the
driver reuses as soon as the last reference is gone; a death notice is
asynchronous; a listing is many calls over a changing list. Correct when the
references it holds match its list, dead names are cleared (and only those), and
a listing misses nothing.

**Binder message buffers** (`binder.c`, `bio_*`). State: a fixed buffer with two
regions and an overflow flag. Hard: a put that does not fit is skipped and a later,
smaller one lands in its place. Correct when nothing leaves the buffer and what
is sent reads back as written.

**dumpstate run** (`dumpstate/dumpstate.cpp`, `utils.cpp`). State: the options,
the user's consent (written by a binder thread), the files of the internal
directory, the control socket. Operations: the phases of `RunInternal`. Hard: the
consent arrives at any moment and is read at many points; every step may fail and
leave through an early return. Correct when nothing is shared without consent,
what is denied is deleted, what timed out is kept, and every caller is told once.

**dumpstate binder service** (`DumpstateService.cpp`, `main.cpp`). State: `ds_` of
each published service object, the one `Dumpstate` they share. Operations:
`startBugreport`, `setListener`, `dump`; a thread per report that ends the process.
Hard: binder threads run concurrently and a run may publish a second service.

**dumpstate utilities** (`DumpstateUtil.cpp`, `DumpstateInternal.cpp`,
`utils.cpp`). Forking commands with a timeout, dropping root, progress statistics
kept in a file over runs.

**dumpsys** (`dumpsys/dumpsys.cpp`). State: one active thread, one pipe. A service's
`dump()` may hang, close its descriptor early or late, or write for ever. Correct
when a dump called complete is, and the tool ends.

**bugreport, bugreportz**. Connect to dumpstate's socket with retries; bugreportz
interprets the control protocol line by line.

**cmd, service**. `cmd` sends a shell command to a service and waits on a condition
variable for the result receiver.

**installd service** (`installd/InstalldNativeService.cpp`, `utils.cpp`). State: the
directories of apps on every volume and for every user, in credential and device
encrypted storage, their snapshots and profiles, and xattrs on them. Operations:
create, migrate, clear, destroy, snapshot, restore, move; all under one lock. Hard:
each is a series of steps on directories, any of which fails half way, and the daemon
or the device may go down between two. Correct when no data is lost that was not to
be, and no app is left with a mixture.

**installd cache** (`freeCache`, `CacheTracker.cpp`, `CacheItem.cpp`). State: a
tracker per uid with its items, a priority queue of trackers, what is still needed.
Hard: the order of purges over a queue whose keys change, directories that take their
contents along, counts that differ from what the disk gives back, apps that write
meanwhile. Correct when it takes from the worst offender, oldest first, no more than
needed, and ends.

**installd dexopt** (`dexopt.cpp`). State: the profiles of a dex file (one that apps
write per user, one reference profile, snapshots), up to three compiled files, their
copies for the other slot. Operations: dexopt of an apk and of a secondary dex file,
merging, clearing, dumping, snapshotting and copying of profiles, `move_ab`,
`delete_odex`, reconciliation. Hard: apps save samples, start and have files mapped
while installd replaces them one by one; a child process may die holding a lock; the
owner of a secondary dex file may change it between two looks. Correct when what lies on
disk fits together, no mapped file is written to, code that others may read tells
nothing of its owner's profile, and samples are lost only where the code says so.

**otapreopt** (`otapreopt.cpp`, `otapreopt_chroot.cpp`, `otapreopt_parameters.cpp`,
`otapreopt_script.sh`). State: the packages left, the artifact cache of the other slot
with its boot image, active APEXes. Hard: the running system may be older than
otapreopt, an earlier update may have left its boot image, every process of the chain
may fail. Correct when what the new system finds fits its boot image.

**lshal** (`lshal/`). `list` calls the service manager and every service from threads it
interrupts after a time; `debug` has a thread relay a pipe until the HAL is done. Hard:
services hang, die and come back; data in the pipe races the end of the call.

**surfacereplayer** (`surfacereplayer/replayer/`). A window of threads replays a trace;
each meets the main thread at an `Event` with one condition variable. Hard: a lost or
misdirected notification, a thread that fails before it announces itself.

**atrace** (`atrace/atrace.cpp`). State: kernel settings, system properties and the
vendor HAL, all of which outlive the process. Hard: an invocation begins on what a
killed, failed or asynchronous one has left.

**rawbu** (`rawbu/backup.cpp`). Backup and restore of `/data` with the system stopped.
Hard: a restore wipes before it knows that its file is whole.

**flatland, ip-up-vpn, rss_hwm_reset**. Single-threaded tools over files and system
calls.

## 2. Modules

| Module | Models | Uses |
|---|---|---|
| `Registry` | what clients may expect of a name registry (abstract) | |
| `ServiceManager` | `service_manager.c`, `binder.c`, with driver and clients | `Registry` (refinement) |
| `MCServiceManager` | instances for TLC | `ServiceManager` |
| `ServiceManagerProofs` | type correctness, reference balance | `ServiceManager` |
| `RegistryProofs` | death notices, listings | `ServiceManagerProofs` |
| `RefinementProofs` | `ServiceManager` implements `Registry` | `RegistryProofs` |
| `BinderIo` | `bio_*` of `binder.c` | |
| `BinderIoProofs` | buffer bounds, what is put is got | `BinderIo` |
| `Dumpstate` | one run of dumpstate | |
| `MCDumpstate` | the requests used by TLC | `Dumpstate` |
| `DumpstateProofs` | type correctness, consent, control protocol, files | `Dumpstate` |
| `DumpstateService` | the binder service and its process | |
| `RunCommand` | the sections of a report: commands with timeouts, files, progress | |
| `Dumpsys` | dumpsys and its dump threads | |
| `FreeCache` | `freeCache`, `CacheTracker.cpp`, `CacheItem.cpp` | |
| `AppData` | the operations of installd on one app's data | |
| `MCAppData` | the calls used by TLC | `AppData` |
| `AppDataProofs` | every property of `AppData` | `AppData` |
| `Profiles` | the profiles of one dex file | |
| `Dexopt` | compilation, adoption and deletion of its artifacts | `Profiles` |
| `MCDexopt` | the scenarios and flags used by TLC | `Dexopt` |
| `DexoptProofs` | every property of `Dexopt` | `Dexopt` |
| `Otapreopt` | the preparation of an update, from the script to dexopt | |
| `Atrace` | the invocations of atrace | |
| `Lshal` | `lshal list` | |
| `PipeRelay` | `lshal debug` | |
| `Replayer` | surfacereplayer | |
| `Rawbu` | backup and restore of `/data` | |
| `Parts` | the components that fit one run, side by side | `BinderIo`, `Dumpsys`, `DumpstateService`, `FreeCache`, `Otapreopt`, `RunCommand`, `Atrace`, `Lshal`, `PipeRelay`, `Replayer`, `Rawbu` |
| `MCParts` | the scenes of each used by TLC | `Parts` |
| `PartsProofs` | eight of its components | `Parts` |

### ServiceManager

`svclist` and `info` are the list and its entries, `refs` the references the driver
keeps for the manager (`node`, strong count, cookie of the death notification),
`todo` the driver's queue of work for the manager's only thread, transactions
(named by their client) and death notices (named by the handle) in one order.
`call`, `reply` and `walk` belong to the clients. `ServeTransaction` is
`binder_parse` on `BR_TRANSACTION`: `svcmgr_handler`, freeing the buffer (which
drops the reference the message brought), the reply. `DeadBinder` is
`BR_DEAD_BINDER`. `do_add_service`, `svcinfo_death` and the driver commands are
operators on a state record, applied in the order of the code. The SELinux checks
do not appear: `check_mac_perms` returns true before it looks at anything.

A name in a list reply needs space: the reply buffer of `binder_parse` holds 224 bytes
of data, names may have up to 127 characters, and `binder_send_reply` does not look for an
overflow. `FitsReply` says which names fit (those of up to 109 characters) and `Sent` what
arrives of the others: a reply with a length and no name. Both kinds are in every run
with two names.

The driver is external: a reference counted to zero frees its descriptor and takes
its death notification along, a second notification on a reference is refused, a
request on a dead node queues the notice at once.

### BinderIo

A buffer is a sequence of 4-byte cells that say what was stored there, and a list of
offsets. `Put` and `Get` apply the code's functions; a whole message is written,
sent with `binder_call` (refused after an overflow) or `binder_send_reply` (not
refused), and read back in the same order.

### Dumpstate

`pc` walks through the phases of `RunInternal` in their order, every early return
going to `"returned"`, where `Run` tells the listener. Options are the set of those
that are true. Files are `zip`, `txt`, `tmp`, `png`, `log`. `consent` is written by
`onReportApproved`/`onReportDenied` at any time; `seen` is the copy
`CopyBugreportIfUserConsented` works with. `Sections` are the slow functions of
`DumpstateDefault` and `dumpstate()` with a consent check before and after each, and
what matters between them. `Faults` says which operations may fail. The clock is
in ms since the callback was made.

### DumpstateService

`services[i]` says whether `ds_` of the i-th published object is set; `options`,
`listener`, `progress` are fields of the one `Dumpstate`. A report is three steps;
what lies between them is `Dumpstate`.

### Dumpsys

The main thread's loop over services, the dump thread of each service and the pipe
between them. A chunk is what one `read()` can take. A service writes as many as it
likes; what it has written and dumpsys has not copied is in the pipe, so nothing needs a
bound but the pipe.

### FreeCache

What lies in cache directories is a forest `In` of entries with sizes and times;
`present`, `size` and `free` are the disk. `trackers`, `used`, `items`, `queue`,
`active`, `needed`, `cleared` and `cacheTotal` are the variables of the code.
`CreateTrackers` and `Populate` are the first two parts of `freeCache`; each turn of
the loop is one of `Finish`, `Swap`, `GiveUpTracker` and `PurgeItem`, guarded by the
code's tests in their order. The sort of `loadItems` is the relation `Before`; items it
does not order come in any order (fts visits directories in any order, and the
comparison says of two directories that each precedes the other). `AppWrites` is an
app that writes a file in the middle of the call. Quotas are constants: a tracker reads
its quota once, when it is made. Only the first `statvfs` may fail.

### AppData

A call is a program, a sequence of steps on directories computed when the call begins
(`createAppData`, `moveCompleteApp`, ... are the operators of that name). `StepDone`
and `StepFails` run its next step, `Halfway` says what a step leaves behind that
failed or was cut short, and a step says what the code does about its failure: return
after undoing, note the error and go on, or ignore it. `Die` ends installd in the
middle of a step. A directory's contents give each file the version of the data it
belongs to, so that mixtures show. `AppRuns` is the app between calls: the package
manager stops an app before it has its data worked on, which is an assumption about
a program outside this repository. Caches, labels and inode numbers are not contents;
the steps about them can only fail. Snapshots are of the internal volume, as
`checkArgumentUuidTestOrNull` demands.

`NeverMismatched` is about a restore of both storages and has a condition: neither the
data nor the snapshot mixes times when the call is made. Without the second half it is
false after four calls: snapshot both, restore DE alone after the app has run, snapshot
both again (the snapshot is now of two times), run, and restore. installd restores what it
was given; three calls are too few to show it, and it came up in the proof.

### Profiles and Dexopt

A profile is `Missing` or a set of samples. A call is a sequence of steps under
`mLock`; apps take locks, save samples and die (`AppLock`, `AppSave`, `AppDies`) between any two of them. `Dexopt`
extends it with the artifacts: a file is its inode, the call that wrote it and whether it
was finished, so that a file replaced and a file written in place differ for an app that
has it mapped. Any step may fail; `Die` is the end of installd, whose children init
kills; `Update` brings a new system that has compiled its own set, which `move_ab`
adopts. installd ignores most failures to unlink a file: the file stays, and the call goes
on, or returns, as if it were gone. Such a file is marked as `left`, in
`dexopt` (the old oat and vdex, an image that is not wanted, the clean-up after a failure),
in `move_ab` and in `delete_odex` (whose answer reports only some of the errors). The mark
ends when the file is written again or gone. Of the files of the other slot that
`move_ab` gives up, and of swap files, the model still has the unlinking succeed. Which flags of dex2oat are passed is left out, but for those that decide
which files are written and who may read them.

### Otapreopt

The script's loop, the chroot and otapreopt for each package. Parameters are sets of
flags whose bits depend on the version of the request. The artifact cache is one boot
image and the packages compiled against it. `ClearDirectory` ignores files it cannot
unlink, so a clearing may leave old artifacts, and the old image, behind (`wiping` stays set).
dexopt is `Dexopt` reduced to its result.

### RunCommand

`fork`, the child, `waitpid_with_timeout` with SIGCHLD blocked only inside it, the
SIGTERM and SIGKILL that follow, and the children that survive them (`strays`); the
sections that read a file; `Progress` and its statistics over sessions.

### Atrace

An invocation is a process with its mode, categories and options. `on`, `events`,
`options`, `buffer`, `tags`, `apps`, `vendor` are outside the process and stay. `slips`
are writes that fail and processes that are killed. A process without root finds some
settings not writable: a write to them fails, except those of the function tracer, which
`setKernelTraceFuncs` passes over in silence when no functions are asked for
(`atrace.cpp:755-760`, `PassedOver`).

### Lshal and PipeRelay

`Lshal`: each remote call is a thread (`Timeout.h`) the main thread waits for, interrupts
and joins; services come and go. A service may tell no pid or no address of its object
(`Tells`; `NO_PID`, `NO_PTR`): it is then listed alive without threads or without clients, and
without an error (`Shown`). The tables are what `fetch*` fills. `PipeRelay`: the
command, the HAL on the other side of the pipe and the relay thread with its `select()`,
`mFinished` and `read()` as separate steps; the HAL writes as much as it likes, after debug()
has returned too.

### Replayer

The main thread, a thread per increment in the window, the `Event` state and its condition
variable, of which a notification wakes one waiter (`asleep`); buffer increments go to a
queue of their layer's scheduler. Console commands and the signal of manual replay come at
any time.

### Rawbu

`data` and the archive are trees and sequences of nodes with versions. A backup file cut
short at any point is `Torn`: nodes and the end are missing, and the last node need not be
`whole`. A restore that fails in a node has made it, or part of it (`Unfinished`), or has
not. A file that was restored in part has the version `Partial`, which a later backup saves
like any other. `source` and `before` remember what a backup and a restore began with.
Three failures go unnoticed in the code and are modelled: a `readdir` error ends a directory
as if it had been listed to its end, in a backup (`ListingBreaks`; `missed` remembers what it
leaves out, and the backup gets its end all the same) and in a wipe (`WipeBreaks`), and an
`fclose` that fails to flush leaves a file cut short in a restore that goes on (`MakeNode`).

### Parts

Eleven components share a run. `part` says which of them a behaviour is about, and `x1`
to `x20` are the variables of that component; a step is a step of the component, and
fairness is that of the component. The initial states of the run are those of all of
them, so the run explores each component completely, one beside the other; nothing is
composed. The constants of a component are the fields of one record, which `MCParts` gives
TLC and the proofs leave open. The exceptions `Dumpstate`, `ServiceManager`, `AppData` and `Dexopt` have runs of
their own.

## 3. Runs

Every run that is expected to hold also has, in `PROJECT.json`, one mutant per
property: a plausible slip in one definition under which TLC refutes the property.

| Run | Checks | Result |
|---|---|---|
| `ServiceManagerSafety` | `TypeOK`, `RefBalance`, `DeathNoticeQueued`, `ListNeverMisses`; `ImplementsRegistry`: handles and counts hidden, the manager is `Registry` | holds |
| `ServiceManagerLive` | `DeadServiceUnregistered`; `ListingEnds`, with a list that grows during the walk | holds |
| `Dumpstate` | consent, retention, `NothingLeftBehind` (nothing after a denial, no temporary file), control protocol and an answer to every request, for the local modes of the API and the command lines of dumpstate's callers | holds |
| `AppData` | `SnapshotIsExact`, `RestoreIsExact`, `NeverMismatched`, `MigrationKeepsDefault`, `MoveSound` (a move is exact, or leaves nothing) | holds |
| `Dexopt` | `Matched`, `NeverModifiesMapped`, `FailedLeavesNothing`, `BadProfileForgotten`, `PrivacyKept`, `ProfileAnswersTrue`, `NoSampleLost` | holds |
| `Parts` | per component, below | holds |
| `ServiceManagerTwoNames` | `NoticeClearsOnlyTheDead`, a binder under two names | violated |
| `DumpstateWait` | `WaitsForTheUser` | violated |
| `DumpstateLateAnswer` | `FinishedMeansShared` | violated |
| `DumpstateServiceInteractive` | `OneReportAtATime` in a mode that publishes a second service | violated |
| `CommandLost` | `EndedInTimeReported`: a command that ends while it is waited for is reported with its status | violated |
| `LshalTruncated` | `Drained`: what the HAL wrote before debug() returned is printed | violated |

The properties of `Parts`:

| Component | Property |
|---|---|
| binder buffers | `WithinBuffer`; `GetsWhatWasPut`: what is sent reads back as put, and a reader never takes one field for another |
| dumpstate service | `OneReportForItsCaller`, in a mode that publishes no second service; `NobodyWaitsForEver` |
| dumpsys | `DumpComplete`: complete means all was copied, and no thread object is dropped; `EveryPartEnds`, unless a service writes for ever |
| freeCache | `CacheTakenInTurn`: from the app furthest over its quota, oldest first, counted once; `CacheSpared`: no file of a tomb, nothing beyond the target; `EveryPartEnds` |
| otapreopt | `UpdatePrepared`: the cache fits the boot image, every package is compiled if nothing fails, no APEX stays active; `RequestUnderstood`; `EveryPartEnds` |
| sections | `SectionSound`: a command is over when its section is, progress stays within its range; `NobodyWaitsForEver` |
| atrace | `TraceSound`: what is captured was asked for, and a stop restores everything a write did not fail on; excepted is a function tracer the process may not write to |
| lshal | `ListingSound`: threads are joined, and what is listed without an error is true, as far as the service tells its pid and address; `EveryPartEnds`; `NobodyWaitsForEver` for the relay, unless the HAL writes for ever |
| surfacereplayer | `StartedInOrder`; `NobodyWaitsForEver` |
| rawbu | `RestoredExactly`, but for the three failures that go unnoticed |

What each violated property contradicts is in `PROJECT.json` under `findings`, with
the line that states it.

**Bounds.** In the safety run two clients, two names, three binders and as many handles
as binders let a name be overridden, a handle be freed and reused, and a death fall
between any two steps; a third client adds no new kind of interleaving, because the
manager serves one item at a time. Of the two names one just fits a list reply and the
other does not. The liveness run has the same names and binders, so that a dying entry is
overridden and an entry is added between two calls of a walk, but two handles, no
symmetry, and clients that only add and list (`LiveSpec`): lookups and pings take a turn of
the loop and change nothing. `BinderIo`
uses buffers that hold from none to about three fields, so every put can be the one
that does not fit. `Dumpstate` needs no bound but the clock's (`MaxNow`), which lies
beyond the consent timeout. Three services (one skipped) and a pipe of two chunks
make a full pipe, an empty one and a remainder at end of file.
`FreeCache` has two apps, one with a directory of two files and a file on shared
storage, the other with a plain file and a group that holds a tomb; two of the files
may be missing or come back (`Rewritten`), one may have a second link, one may resist.
Stamps cover a directory older than, as old as and newer than its files. The targets
lie within, at and beyond what can be freed, with and without a reserve. `AppData`
has two volumes, two users, two files per directory, two versions of the data, three
calls, one fault and one crash: three calls are a snapshot, a second one or a clearing,
and a restore, and one fault with one crash hit every step of every call once. With two
faults the properties hold as well. The calls are split into those on data in place
and those that go with a move, which share no directory but the app's. `Dexopt` has two
users, two samples, three calls, one fault and one restart; three calls are two
compilations and a move or a merge between them. Profile operations and compilations
are scenarios of their own, as they meet only in merging, which both have.
`Otapreopt` has three packages of which one is compiled already, a limit of two per
round, and requests of the oldest, a middle and the newest layout. `RunCommand` has two
sections and two sessions, with statistics that may be lost; `Atrace` two invocations and
two failures, so that one follows another that was killed; `Lshal` two services of one
process. `PipeRelay` has a pipe of two chunks. `Replayer` has traces of
three and four increments and windows of one and three, so that a window is full and one
is not. `Rawbu` has three calls (a backup, a restore that fails, one that does not), one
change by an app and one failure or kill.

**Fairness.** `ServiceManager`: the loop serves a non-empty queue (it blocks only
when the queue is empty), and a client in the middle of a listing continues; no
client is made to call, nothing is made to die. `Dumpstate`: the thread runs on
(each command it waits for has a timeout) and time passes; the user need not answer
and no fault need happen. `DumpstateService`: the report threads run.
`Dumpsys`: the main thread and the threads that are out of their call run, and time
passes; services need do nothing. That dumpsys ends is conditional: a service that writes for
ever keeps it, as the timeout is looked at only when the pipe is empty (`Terminates`). `FreeCache`: the call runs on, as nothing it does
blocks; apps need not write. `Otapreopt`: the processes of the chain run on; none waits
for anything but its child. `RunCommand`: dumpstate runs on, its waits being limited, and
SIGKILL takes effect on a child that is not stuck in the kernel; a command need never end.
`Lshal`: the main thread, the interrupted thread, its notification and the passing of time;
services need not answer. `PipeRelay`: the main and the relay thread; the HAL need not close
its end, and debug() need not return, as `lshal debug` has no timeout. Once it has returned
lshal ends, on condition that the HAL does not write for ever: `mFinished` is looked
at only when `select()` times out (`RelayEnds`). `Replayer`: the main
thread and the threads of the increments; no fairness for console or signals. `AppData`,
`Dexopt`, `Atrace` and `Rawbu` have no liveness property.

**Deadlock** is checked for the service manager. It is not checked for the other
components, whose processes and calls end; that they do not end too early, by everyone
waiting for everyone, is `EveryRequestAnswered`, `EveryPartEnds` and `NobodyWaitsForEver`.

### Disagreements met while modelling that have no run

- When consent has timed out, the screenshot is copied to the caller all the same
  (`dumpstate.cpp:2721`), just before the log says "Will not copy the bugreport artifacts
  to caller" (`dumpstate.cpp:2731`). `CopyScreenshot` models it;
  `BugreportNeedsConsent` speaks of the report alone.
- A denial that comes during the sections leaves the partial report on disk:
  `RunInternal` calls `HandleUserConsentDenied` only for `USER_CONSENT_TIMED_OUT`
  (`dumpstate.cpp:2692`), which `DumpstateDefault` never returns, while a denial at the
  end deletes, "to be safe" (`dumpstate.cpp:2827`).
- A restore whose copy fails half way leaves the part that was copied, although the
  comment at `InstalldNativeService.cpp:993` prefers no data in such a case; the parts
  are of one time, which is what `NeverMismatched` says.
- A snapshot of an app without CE data returns ok without touching an earlier snapshot
  of the same id (`InstalldNativeService.cpp:881`).
- Shared-storage directories of a secondary user are accounted to the uid of the first
  user (`InstalldNativeService.cpp:1281`), because the user is dropped from the group.
- Overriding a registration replaces its handle and keeps the `allow_isolated` and
  dump priority of the first one, although the second caller passed its own
  (`do_add_service`, `service_manager.c`).
- A report in REMOTE mode that was copied to the caller hashes `path_` after the file
  was unlinked; `SHA256_file_hash` then returns a `std::string` made from `nullptr`
  (`dumpstate.cpp:1985`), which ends the process before the listener hears the
  `onFinished` that `IDumpstateListener.aidl:22` announces.
  The passing run takes the local modes.
- `DumpstateService::dump` dereferences `progress_` and `options_`
  (`DumpstateService.cpp:197-206`), which are set only once a report has begun. The
  passing run uses `UndumpedSpec`, in which nobody dumps the service; the `dump` action
  belongs to `Spec`, which `DumpstateServiceInteractive` uses.
- A service whose name has 110 to 127 characters can be registered and found, but the reply
  that lists it is sent with the name cut off (`service_manager.c:355`, `binder.c:278`):
  a client sees an entry without a name. `ListNeverMisses` speaks of names that fit.
- dumpsys's time limit is looked at only when the pipe is empty (`dumpsys.cpp:395`): a
  service that writes without pause is never timed out, against the timeout that
  `dumpsys.h:80` promises. `EveryPartEnds` excepts such a service.
- `lshal debug` waits for ever for a HAL that goes on writing after debug() has returned
  (`PipeRelay.cpp:58`).
- A shell's atrace leaves the function tracer on that an earlier run as root has left, and
  reports success (`atrace.cpp:755`).
- A restore of rawbu succeeds with a file cut short when the last `fclose` fails
  (`backup.cpp:581`), and a backup is called complete after a `readdir` error
  (`backup.cpp:273`).
- An old image that cannot be unlinked stays next to a new oat and vdex, and the call
  succeeds (`dexopt.cpp:1253`, `2543`); `Matched` excepts an image that is `left`.
- `reconcile_secondary_dex_file` promises to return false "if there were errors during
  processing" (`dexopt.cpp:2236`), but the result of the deletions before it is overwritten
  where the old profile is removed (`dexopt.cpp:2309`).
- `create_boot_image_profile_snapshot` aggregates "in batches" (`dexopt.cpp:2809`), but
  returns inside the loop, after the first batch (`dexopt.cpp:2843`).
- `move_ab` that fails at the vdex leaves a new oat next to an old vdex; `Matched` excepts
  it (`torn`), as ART verifies the pair.
- The child of `copy_system_profile` loops while `read()` is not 0, an error included
  (`dexopt.cpp:1009`), and installd waits for it holding `mLock`.
- otapreopt that fails with a guided compilation against a stale boot image clears the
  profile it was guided by, though nothing was wrong with it.
- The statistics of `Progress` are rejected as invalid once they say more than 1000 runs
  (`utils.cpp:162`), and written with one more every time: from then on every run uses the
  default, while `dumpstate.h:94` says the estimate is adjusted after each run.
- A file section whose file gets a byte now and then never times out: the limit is for one
  `poll()` (`DumpstateInternal.cpp:162`).
- When `DropRootUser` fails in the child, `RunCommandToFd` returns in the child, which
  goes on as a second dumpstate (`DumpstateUtil.cpp:305`).
- lshal keeps an empty entry for a process whose binder file cannot be read
  (`getPidInfoCached`, `ListCommand.cpp:292`): the second service of that process is listed
  without clients and without the error of the first.
- atrace: categories given in a file (`-f`) get their kernel events and not their tags; an
  asynchronous stop does not poke PDX services, because the category is not given again
  (`atrace.cpp:866`); a start that fails leaves tracing as far as it got.
- surfacereplayer: `mHasStopped` and `mWaitingForNextVSync` are not initialised
  (`Replayer.h:137`, `140`), so whether `-s` takes effect is open, and the model chooses. A
  surface that cannot be locked returns from `fillSurface` without announcing its event
  (`BufferQueueScheduler.cpp:86`), and main waits for ever; after such a failure
  `NobodyWaitsForEver` does not ask the replayer to end (`failed`).
- rawbu: a symbolic link is wiped and never backed up; the time of a directory is set
  before its files are made and so is not restored. `RestoredExactly` speaks of regular
  files and directories.
- `setListener` on a waiting service sets `ds_`, after which every `startBugreport` is
  refused (`DumpstateService.cpp:100`); `setListener` is part of `Spec`.
- `CacheTracker::getCacheRatio` narrows to `int` (`CacheTracker.cpp:204`), and a failing
  `data_disk_free` in the loop is taken for -1 free bytes (`InstalldNativeService.cpp:1380`);
  the model has neither.
- The inode of a cache directory is remembered in an xattr that may outlive it
  (`installd/utils.cpp:779`).
- `cmd` waits for its result without a timeout or a link to the service's death.

## 4. Proofs

Every theorem holds for all values of the constants that satisfy the named assumptions of
the module (`ConstantsAssumption`, `SizesAssumption`, `RequestsAssumption`,
`ProfilesAssumption`, `DexoptAssumption`, ...). These say that bounds are natural
numbers, that marks such as `Missing` and `NoHandle` differ from what they mark the absence
of, and which requests and flags exist: `RequestsAssumption` lists the letters `getopt`
knows (`CliFlags`). TLC evaluates them in every run.

### ServiceManagerProofs

`TypeCorrect` and `ReferencesBalance` for any sets of names, binders, clients and handles.
`RefBalance` (the strong count of a handle is the number of entries registered under it
plus the number of queued messages that carry it) is not inductive. The invariant `Inv`
adds: the queue has each client at most once and exactly those with an outstanding call,
and each handle at most once (`QueueOK`); a handle with no reference is nowhere
(`UnusedOK`); entries outside the list have no handle (`ListedOK`); and the balance itself
(`Balanced`). It needs the queue facts because a transaction's reference is dropped when it
leaves the queue, and the unused ones because a new message may be given any free handle.
The steps are lemmas on the operators (`svcinfo_death`, `BC_RELEASE`, ...), which change
one count and one entry.

### RegistryProofs

`DeadServicesNoticed` (`DeathNoticeQueued`) and `OnlyTheDeadCleared`
(`NoticeClearsOnlyTheDead`) assume what the safety run's constants say: each binder is
published under one name (`SingleNamed`), by the process that hosts it (`~ForeignAdds`).
Both are needed. With two names on one handle the second notification is refused by the
driver, and one death clears one of two entries: that is the violation of
`ServiceManagerTwoNames`. A binder registered by somebody else may be registered again
after its notice was handled. Under these conditions `NoticeInv` is inductive:

- a binder has one handle (`OneHandle`), the cookie of its notification is its name
  (`CookieOK`), and a registered handle has the cookie of its entry (`LinkedOK`);
- an add that is under way is under the binder's name (`CarriedOK`), and the notice of a
  handle comes after every add that carries the handle (`QueueOrder`; `QueueWaits` says who
  is in the queue): this is what forbids a late registration of a dead binder;
- whoever asked for the notice of a node that is dead has it in the queue (`NoticeOK`).

`ListingComplete` (`ListNeverMisses`) needs neither condition. New entries go to the front
of the list and none leaves it, so the rank of an entry among those a client lists never
falls; `ListInv` says that a service the client has not seen yet has at least the rank of
its next index, and that a finished walk leaves none. It speaks of the names that fit the
reply; `ListedNames` shows that these are the ones of up to 109 characters, as does
`ListedNameFits` of `BinderIoProofs` from the buffer itself. Ranks are cardinalities of finite
sets of positions; the lemmas about them rest on `FiniteSetTheorems`.

### RefinementProofs

`ServiceManagerRefines` is `Spec => ImplementsRegistry` under the same two conditions. In
`Registry` a name has a binder and clients have requests and answers; the mapping takes the
node behind the handle of an entry, a message or an answer (`Denotes`,
`AbstractCall`). A listing answers with the name of an entry, or with none if the name is
not listable (`ListableNames`, mapped to the names that fit the reply). The invariants above give the two facts that make it work: while
anything holds a handle its node is the same (`KeptBefore`, `KeptAfter`), so reuse is
invisible; and a notice withdraws exactly the registration of the dead binder. A call of a
client is `Ask`, `ServeTransaction` is `Serve` (`Add`, `Find`, `List`, `Ping` or `Refuse`),
`DeadBinder` is `Unregister` or a stutter, the death of a binder is `Die`, and the end of a
walk is a stutter.

### BinderIoProofs

`StaysWithinBuffer`, for all sizes, from the invariant that used and available space add up
to the data region; `ListedNameFits`, for which names the reply to a list request fits.
`MessagesReadBack` (`GetsWhatWasPut`) is for messages of any length. Its invariant
`MessageInv` says that a message that did not overflow is laid out (`Layout`): there is a
function from field numbers to the cells they begin after, the cells there are those of
the field, and an offset points there exactly for an object that is not null. A reader is
where a field begins (`InStep`) or was stopped by a null and has nothing left (`Stopped`).
For writing the lemmas are `PutAdds` (a put that fits adds its field and changes nothing
before it) and `LayoutExtends`; for reading `GetInStep`, `GetStopped` and `GetCut`, the
last for the one field of a reply that did not fit (`CutShort`).

### DumpstateProofs

`TypeCorrect`; `SharedWithConsent`, from `AnswerOK` (an answer is given once and `seen` is
an answer that was given); `TimedOutIsKept`, from `KeepOK` (a finished report stays in the
directory until it is copied or denied). `ControlSocketTold` and `NothingIsLeft` have
invariants that tie the phase to what was sent and to the files: before
`FinalizeFile` a control socket has seen at most BEGIN, from then on BEGIN and one
verdict, and the verdict is OK exactly if `path` is the zip and the zip is there; nothing
deletes it before the end but a denial or a completed copy, which do not come with a
control socket.

### DexoptProofs

Every property of the `Dexopt` run, for any numbers of users, samples, calls, faults and
updates. One invariant carries them all:

- where a call of each kind can be (`CallOK`);
- while dexopt writes, the files it has opened are of this call and unfinished, the others
  are older, and an image that is not wanted is missing or could not be unlinked
  (`FilesOK`), which is what `Matched` and `FailedLeavesNothing` need between two steps.
  `FailedLeavesNothing` says that what a failed call leaves of its own is unfinished and
  could not be unlinked. What unlinking does is stated once (`LeftFields`, `UnlinkType`);
- the files of an update are of one compilation, none of which is in use, and `move_ab`
  takes them one by one (`UpdateOK`);
- an inode that an app has mapped is none that dexopt is about to write: the vdex is
  written in place only for a new boot image, and then no app runs with the old files
  (`MappedOK`, for `NeverModifiesMapped`);
- every sample on disk was saved or shipped, and what merging and clearing have seen and
  still have to do covers the profiles (`SamplesOK`, `MergeOK`, `ClearOK`, `SnapshotOK`,
  for `ProfileAnswersTrue`).

The steps are sorted by what they may change (`StepKinds`), and each part of the invariant
is kept by one lemma. `SamplesKept` proves the action property `NoSampleLost` from it.

### PartsProofs

Each of the components has an invariant `Inv` at the end of its module; the theorem is of the
instance in `Parts`, that is of `part` and the slots. `PartStays` and `SlotsStutter` are
the two facts about `Parts` itself.

- `DumpsAreComplete` (dumpsys): what was copied and what is in the pipe is what was written
  (`Accounted`), a service whose turn has not come has nothing (`InTurn`), and a thread in
  its call holds the write end (`Closed`): so the end of file means that nobody writes any
  more. No service is listed twice (`ListAssumption`): the names come from a sorted vector
  of the registry's names.
- `ReportsOneByOne` (dumpstate service) has `OneService` as its hypothesis: no mode that is
  asked for publishes a second service. Without it the statement is false, which is the
  violation of `DumpstateServiceInteractive`. With it the first report sets `ds_` for
  good and keeps options and listener (`FirstKept`), and everybody hears once
  (`HeardOnce`).
- `UpdatesPrepared` (otapreopt): `FlagsRead` shows that the flags come out of the bits they
  were put into, for requests that use flags of their version (`RequestsAssumption`).
- `ReplayInOrder` (surfacereplayer): the state of an event tells where its thread and the
  main thread are, and only the front of the window is signalled.
- `SectionsAreSound` (sections): a process that SIGKILL was sent to is over or will be
  (`ChildKnown`), and the percentage is bounded because the maximum is positive
  (`PercentOf`, from `SectionsAssumption`).
- `ListingIsSound` (lshal): what each entry holds is true of the service it is of, by the
  stage of the fetch (`EntriesGood`, `Fetched`), and the cache of processes is (`CachedKnown`),
  for any services that tell or do not tell their pid and address.
- `TracesAreSound` (atrace): for each step, what the steps before it have set
  (`UserSpaceSet`, `KernelSet`, `OnlyOwn`) or put back (`PutBack`) without an error, whatever
  was there before: no part of it mentions an earlier invocation. Which files and settings
  a shell may write is open.
- `BackupsRestored` (rawbu): whatever happens to it, the backup file holds what was there
  when it was made, each node once, and if it has an end then all of it (`Sound`); nothing is
  there without its directory (`TreeOK`), and no directory comes up that the backup did not
  see (`DirsKept`). A restore has wiped what it is done with (`Wiping`), then has made what
  it is done with (`Making`), but for what the three unnoticed failures have left (`missed`,
  `stuck`), by the option of the file and not that of the caller
  (`SameOption`). `Least` finds the first node that is left of a file: a directory comes before
  what is in it. `PlacesAssumption` says what the tree is like: there are two levels below
  `/data`, as in the model, the places that are left out of a backup are directories, and
  the backup file is in a directory of `/data` or somewhere else.

### AppDataProofs

All five properties of the `AppData` run, for any volumes, users, snapshots, files, calls,
failures and deaths (`BoundsAssumption`; `CallsAssumption` says which calls exist).

A call is a sequence of steps that is put together by concatenation and, over the users,
by `FlattenSeq`, which is a recursive function. The first part of the module shows what
`FlattenSeq` returns (`Flattened`): the library's induction theorems cannot be applied
here, but the set of lengths for which there is no flattening would have a least member
(`Least`), and a flattening for one less can be continued (`FlatThere`). From it follow
the lemmas on the programs (`ProgramOfSnapshot`, `ProgramOfMove`, `NukeAll`, ...): every
step is one of its call (`StepsOf`: the directories it is about and what its failure
does), and the steps come in an order (`Ordered`: what is copied is not cleared
afterwards, copying waits for the check, a rename is last).

The invariant then speaks of the steps that are left, and so never of how far the call is:

- `ProgramLeft`: what is left is steps of the call, or what it undoes, in order;
- `TakenKnown`, for `SnapshotIsExact`: no call touches a snapshot it is not about;
- `Snapshotting`, `Restoring`: a storage is still to be copied, or holds what it should; and
  unless it is still to be cleared it is empty or complete, so that a copy is exact;
- `Unmixed`: before the check is passed all files are from before, and afterwards all are
  from the snapshot; `DoneUnmixed` shows that at the check nothing of the old data is left;
- `OneDefault`, `Migrating`: the two storages are not both marked, and the default data is
  at the source while a rename is left and at the target otherwise;
- `MovedSoFar`: a copy is to be made or has been; once the move has failed, a deletion
  is left for everything that is there.

The action properties follow at `Return`, where nothing is left, and at `Die`, where
`HalfUnmixed` and `HalfMigrated` say what half a step may do.

### Only model-checked

Liveness and the fairness behind it, and whatever speaks of ENABLED, which the prover does
not reach. The action properties of `FreeCache` speak of sums (`MapThenSumSet`) and of
chains of directories (the recursive functions `Above` and `PathOf`), whose values for
every input would have to be shown first.

## 5. Not modelled, and the plan

What is left to prove: `CacheTakenInTurn` and `CacheSpared` of `FreeCache`. What does not
depend on sums comes first, the order in which the packages are taken and that the
tombstones are kept; for the recursive functions, a least counterexample as in
`AppDataProofs`.

What could be modelled further: `fixupAppData`, links, idmaps, fs-verity and obb migration
of installd (each one pass over the file system), `hash_secondary_dex_file` and the boot
image profile snapshot; `cmd` with its result receiver; bugreportz over the control
protocol of `Dumpstate`.

Left out for good: what sections of a bugreport print and the layout of tables (no
property is about it), installd's size queries (they only measure), the setters of a
surface transaction, option parsing and help texts, `service` (one call), `flatland` (a
benchmark), `ip-up-vpn` and `rss_hwm_reset` (one pass over system calls), the generated
`MatchExtensionGen.h`, SELinux policy.
