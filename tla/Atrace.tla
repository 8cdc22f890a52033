------------------------------- MODULE Atrace -------------------------------
(***************************************************************************)
(* atrace (src/atrace/atrace.cpp): each invocation is a process that sets  *)
(* up tracing in user space, the kernel and the vendor's HAL, captures,    *)
(* dumps and puts everything back.  What it sets outlives it: a process    *)
(* may be killed, --async_start leaves tracing on for a later --async_stop,*)
(* and a set-up that fails half way is left as it is when the invocation   *)
(* does not stop tracing itself.  Invocations run one after another.       *)
(***************************************************************************)
EXTENDS Naturals, FiniteSets

CONSTANTS
  Category,     \* k_categories: name -> [tag, req, opt], the files it enables
  Vendor,       \* the categories of the atrace HAL
  ShellEvents,  \* the files that are writable for shell; root writes all
  ShellOptions, \* of the settings likewise
  Invocations,  \* [mode, userspace, args, file, funcs, root]
  MaxInvocations, MaxSlips

VARIABLES
  step, inv, count,
  enabled,    \* g_categoryEnables and the vendor categories that are enabled
  ok, aborted,
  on, events, options, buffer,  \* the kernel: tracing_on, enable files, settings, trace
  tags, apps,                   \* the system properties
  seen, pdx,                    \* the tags that services have read
  vendor,                       \* what the HAL traces
  slips,
  spoilt,     \* history: a write of the clean up failed
  clean       \* history: what the last invocation has put back

vars == <<step, inv, count, enabled, ok, aborted, on, events, options, buffer, tags, apps,
          seen, pdx, vendor, slips, spoilt, clean>>
kernel == <<on, events, options, buffer>>
user == <<tags, apps, seen, pdx>>
self == <<inv, count, enabled, aborted, clean>>

Categories == DOMAIN Category
Files(c) == Category[c].req \cup Category[c].opt
FilesOf(cs) == UNION {Files(c) : c \in cs \cap Categories}
Events == FilesOf(Categories)
FunctionTracing == {"tracer", "filter"}
Options == {"initiated", "no_overwrite", "buffer", "clock", "tgid"} \cup FunctionTracing
Idle == [mode |-> "idle", userspace |-> FALSE, args |-> {}, file |-> {}, funcs |-> FALSE, root |-> FALSE]

Starts(i) == i.mode \in {"trace", "stream", "async_start"}
Stops(i) == i.mode \in {"trace", "stream", "async_stop"}
Dumps(i) == i.mode \in {"trace", "async_stop", "async_dump"}
Writable(i) == IF i.root THEN Events ELSE ShellEvents
MayWrite(i) == IF i.root THEN Options ELSE ShellOptions

Init ==
  /\ step = "idle" /\ inv = Idle /\ count = 0 /\ enabled = {} /\ ok = TRUE /\ aborted = FALSE
  /\ on = FALSE /\ events = {} /\ options = {} /\ buffer = {}
  /\ tags = {} /\ apps = "unset" /\ seen = {} /\ pdx = {} /\ vendor = {}
  /\ slips = 0 /\ spoilt = FALSE /\ clean = "nothing"

(* A write that fails leaves the setting as it was.  Set-up remembers it   *)
(* in ok and goes on with the next setting; clean-up only prints it.       *)
Slip == slips < MaxSlips /\ slips' = slips + 1
Written(all, old, new, failed) == {x \in all : IF x \in failed THEN x \in old ELSE x \in new}
Failures(all) == {{}} \cup {{x} : x \in all}
Counted(failed) == IF failed = {} THEN UNCHANGED slips ELSE Slip

----------------------------------------------------------------------------
(* main up to the set-up.  An argument that is no supported category ends  *)
(* the process before it has touched anything.                             *)
Supported(c, w) ==
  \/ c \in {"core", "pdx"}
  \/ c \in Categories /\ Category[c].req \subseteq w /\ (Category[c].tag \/ Files(c) \cap w # {})
SetCategoryEnable(c, w) == c \in Vendor \/ Supported(c, w)

Invoke(i) ==
  /\ step = "idle" /\ count < MaxInvocations /\ count' = count + 1
  /\ i.userspace => i.mode \in {"async_start", "async_stop"}
  /\ \A c \in i.args : SetCategoryEnable(c, Writable(i))
  /\ inv' = i /\ enabled' = i.args /\ ok' = TRUE /\ aborted' = FALSE
  /\ spoilt' = FALSE /\ clean' = "nothing"
  /\ step' = IF Starts(i) THEN "tags" ELSE "stop"
  /\ buffer' = IF Starts(i) /\ buffer # {} THEN {"old"} ELSE buffer
  /\ UNCHANGED <<on, events, options, user, vendor, slips>>

(* handleSignal.                                                           *)
Signal ==
  /\ step # "idle" /\ ~aborted /\ aborted' = TRUE
  /\ UNCHANGED <<step, inv, count, enabled, ok, kernel, user, vendor, slips, spoilt, clean>>

Kill ==
  /\ step # "idle" /\ Slip /\ step' = "idle"
  /\ UNCHANGED <<inv, count, enabled, ok, aborted, kernel, user, vendor, spoilt, clean>>

(* The kernel records while tracing is on.                                 *)
Record ==
  /\ on /\ buffer' = buffer \cup {IF Starts(inv) /\ step \in {"tags", "poke", "options", "events", "vendor", "start", "clear"}
                                  THEN "old" ELSE "own"}
  /\ UNCHANGED <<step, inv, count, enabled, ok, aborted, on, events, options, user, vendor, slips, spoilt, clean>>

----------------------------------------------------------------------------
(* setUpUserspaceTracing.                                                  *)
Tags(cs) == {c \in cs \cap Categories : Category[c].tag}

SetTags ==
  /\ step = "tags" /\ step' = "poke"
  /\ \E failed \in Failures({"tags", "apps"}) :
       /\ tags' = IF "tags" \in failed THEN tags ELSE Tags(enabled)
       /\ apps' = IF "apps" \in failed THEN "unset"
                  ELSE IF "core" \in enabled THEN "withCore" ELSE "set"
       /\ ok' = (failed = {}) /\ Counted(failed)
  /\ UNCHANGED <<self, kernel, seen, pdx, vendor, spoilt>>

Poke ==
  /\ step = "poke" /\ seen' = tags
  /\ \/ /\ pdx' = IF "pdx" \in enabled THEN tags ELSE pdx
        /\ UNCHANGED <<ok, slips>>
     \/ "pdx" \in enabled /\ Slip /\ ok' = FALSE /\ UNCHANGED pdx
  /\ step' = IF ~ok' THEN "stop" ELSE IF inv.userspace THEN "capture" ELSE "options"
  /\ UNCHANGED <<self, kernel, tags, apps, vendor, spoilt>>

(* setUpKernelTracing.  Setting the clock empties the buffer.  Function    *)
(* tracing that is not asked for is switched off only as far as its files  *)
(* are writable, which is no error; every other write is attempted.        *)
Wanted(i) ==
  {"initiated", "buffer", "clock", "tgid"}
    \cup (IF i.mode = "async_start" THEN {} ELSE {"no_overwrite"})
    \cup (IF i.funcs THEN FunctionTracing ELSE {})
PassedOver(i, wanted) == (FunctionTracing \ wanted) \ MayWrite(i)
Denied(i, all, wanted) == all \ (MayWrite(i) \cup PassedOver(i, wanted))

SetOptions ==
  /\ step = "options" /\ step' = "events"
  /\ LET known == {c \in inv.file : SetCategoryEnable(c, Writable(inv))} IN
     \E failed \in Failures(Options \cap MayWrite(inv)) :
       /\ enabled' = enabled \cup known
       /\ options' = Written(Options, options, Wanted(inv), failed \cup (Options \ MayWrite(inv)))
       /\ buffer' = IF "clock" \in options' \ options THEN {} ELSE buffer
       /\ ok' = (failed = {} /\ Denied(inv, Options, Wanted(inv)) = {} /\ known = inv.file)
       /\ Counted(failed)
  /\ UNCHANGED <<inv, count, aborted, on, events, user, vendor, spoilt, clean>>

(* All are disabled before some are enabled.                               *)
(* Mutant: nothing is disabled first.                                      *)
OnlyEnabled(i, cs) == events \cup (FilesOf(cs) \cap Writable(i))
EventsFor(i, cs) == (events \ Writable(i)) \cup (FilesOf(cs) \cap Writable(i))

SetEvents ==
  /\ step = "events" /\ step' = "vendor"
  /\ \E failed \in Failures(Writable(inv)) :
       /\ events' = Written(Events, events, EventsFor(inv, enabled), failed)
       /\ ok' = (ok /\ failed = {}) /\ Counted(failed)
  /\ UNCHANGED <<self, on, options, buffer, user, vendor, spoilt>>

(* setUpVendorTracing and startTrace, also when the kernel was not set up. *)
SetVendor ==
  /\ step = "vendor" /\ step' = "start"
  /\ \/ vendor' = vendor \cup (enabled \cap Vendor) /\ UNCHANGED <<ok, slips>>
     \/ enabled \cap Vendor # {} /\ Slip /\ ok' = FALSE /\ UNCHANGED vendor
  /\ UNCHANGED <<self, kernel, user, spoilt>>

StartTrace ==
  /\ step = "start"
  /\ \/ on' = TRUE /\ UNCHANGED <<ok, slips>>
     \/ Slip /\ ok' = FALSE /\ UNCHANGED on
  /\ step' = IF ok' THEN "clear" ELSE "stop"
  /\ UNCHANGED <<self, events, options, buffer, user, vendor, spoilt>>

ClearTrace ==
  /\ step = "clear" /\ step' = "capture"
  /\ \/ buffer' = {} /\ UNCHANGED <<ok, slips>>
     \/ Slip /\ ok' = FALSE /\ UNCHANGED buffer
  /\ UNCHANGED <<self, on, events, options, user, vendor, spoilt>>

----------------------------------------------------------------------------
(* The capture: until the time is up or a signal comes; streamTrace until  *)
(* the signal or a failing read; not at all for an asynchronous trace.     *)
Capture ==
  /\ step = "capture" /\ step' = "stop"
  /\ UNCHANGED <<self, ok, kernel, user, vendor, slips, spoilt>>

StopTrace ==
  /\ step = "stop" /\ step' = "dump"
  /\ \/ Stops(inv) /\ ~inv.userspace /\ on' = FALSE /\ UNCHANGED <<slips, spoilt>>
     \/ Stops(inv) /\ ~inv.userspace /\ Slip /\ spoilt' = TRUE /\ UNCHANGED on
     \/ ~(Stops(inv) /\ ~inv.userspace) /\ UNCHANGED <<on, slips, spoilt>>
  /\ UNCHANGED <<self, ok, events, options, buffer, user, vendor>>

(* dumpTrace, unless the trace was aborted, and clearTrace.                *)
Dumping == ok /\ Dumps(inv) /\ ~inv.userspace
Dump ==
  /\ step = "dump"
  /\ \/ Dumping /\ buffer' = {} /\ UNCHANGED slips
     \/ Dumping /\ Slip /\ UNCHANGED buffer
     \/ ~Dumping /\ UNCHANGED <<buffer, slips>>
  /\ step' = IF Stops(inv) THEN "vendorOff" ELSE "idle"
  /\ UNCHANGED <<self, ok, on, events, options, user, vendor, spoilt>>

(* cleanUpVendorTracing, cleanUpUserspaceTracing, cleanUpKernelTracing.    *)
VendorOff ==
  /\ step = "vendorOff" /\ step' = "tagsOff"
  /\ \/ vendor' = {} /\ UNCHANGED <<slips, spoilt>>
     \/ Slip /\ spoilt' = TRUE /\ UNCHANGED vendor
  /\ UNCHANGED <<self, ok, kernel, user>>

TagsOff ==
  /\ step = "tagsOff" /\ step' = "pokeOff"
  /\ \E failed \in Failures({"tags", "apps"}) :
       /\ tags' = IF "tags" \in failed THEN tags ELSE {}
       /\ apps' = IF "apps" \in failed THEN apps ELSE "unset"
       /\ spoilt' = (spoilt \/ failed # {}) /\ Counted(failed)
  /\ UNCHANGED <<self, ok, kernel, seen, pdx, vendor>>

PokeOff ==
  /\ step = "pokeOff" /\ seen' = tags
  /\ pdx' = IF "pdx" \in enabled THEN tags ELSE pdx
  /\ \/ inv.userspace /\ step' = "idle" /\ clean' = (IF spoilt THEN "nothing" ELSE "userspace")
     \/ ~inv.userspace /\ step' = "kernelOff" /\ UNCHANGED clean
  /\ UNCHANGED <<inv, count, enabled, aborted, ok, kernel, tags, apps, vendor, slips, spoilt>>

(* The clock is not set back.                                              *)
Defaults == {"clock"}

KernelOff ==
  /\ step = "kernelOff" /\ step' = "idle"
  /\ \E failed \in Failures(Writable(inv) \cup ((Options \ Defaults) \cap MayWrite(inv))) :
       /\ events' = Written(Events, events, events \ Writable(inv), failed)
       /\ options' = Written(Options, options, options \cap Defaults,
                             failed \cup (Options \ MayWrite(inv)))
       /\ spoilt' = (spoilt \/ failed # {} \/ Denied(inv, Options \ Defaults, {}) # {})
       /\ Counted(failed)
  /\ clean' = IF spoilt' THEN "nothing" ELSE "all"
  /\ UNCHANGED <<inv, count, enabled, aborted, ok, on, buffer, user, vendor>>

Next ==
  \/ (\E i \in Invocations : Invoke(i)) \/ Signal \/ Kill \/ Record
  \/ SetTags \/ Poke \/ SetOptions \/ SetEvents \/ SetVendor \/ StartTrace \/ ClearTrace
  \/ Capture \/ StopTrace \/ Dump \/ VendorOff \/ TagsOff \/ PokeOff \/ KernelOff

Spec == Init /\ [][Next]_vars

----------------------------------------------------------------------------
(* Once an invocation has set up without an error, the kernel traces what  *)
(* the categories of the arguments and of the file ask for and nothing     *)
(* that an earlier invocation left behind; services have read the tags of  *)
(* the arguments; and a trace holds only what was recorded since then.     *)
(* Function tracing alone may go on from an earlier invocation by root,    *)
(* when shell may not write its files.                                     *)
CaptureIsAsked ==
  /\ step = "capture" /\ ok =>
       /\ tags = Tags(inv.args) /\ seen = tags /\ ("pdx" \in inv.args => pdx = tags)
       /\ ~inv.userspace =>
            /\ on /\ options \ PassedOver(inv, Wanted(inv)) = Wanted(inv)
            /\ events \cap Writable(inv) = FilesOf(inv.args \cup inv.file) \cap Writable(inv)
            /\ (inv.args \cup inv.file) \cap Vendor \subseteq vendor
  /\ step = "dump" /\ ok /\ inv.mode = "trace" => buffer \subseteq {"own"}

(* An invocation that stops tracing and whose own writes do not fail puts  *)
(* everything back that it may write, whatever it or earlier invocations   *)
(* set, failed at or left when they were killed.  PDX services alone may   *)
(* go on with old tags, and the clock stays; so does function tracing that *)
(* root has switched on and shell may not switch off.                      *)
StopRestores ==
  /\ clean # "nothing" => tags = {} /\ apps = "unset" /\ seen = {}
  /\ clean = "all" =>
       /\ ~on /\ events \cap Writable(inv) = {} /\ vendor = {}
       /\ options \subseteq Defaults \cup (FunctionTracing \ MayWrite(inv))

----------------------------------------------------------------------------
(* What the proofs rest on: at each step, what those before have set or    *)
(* put back without an error.                                              *)

ForCapture == {"clear", "capture"}
ForStart == ForCapture \cup {"start"}
ForVendor == ForStart \cup {"vendor"}
ForEvents == ForVendor \cup {"events"}
ForOptions == ForEvents \cup {"options"}

UserSpaceSet ==
  /\ inv.userspace => inv.mode \in {"async_start", "async_stop"}
  /\ step \in {"tags", "poke", "options"} => enabled = inv.args
  /\ step = "poke" /\ ok => tags = Tags(inv.args)
  /\ step \in ForOptions =>
       tags = Tags(inv.args) /\ seen = tags /\ ("pdx" \in inv.args => pdx = tags)
  /\ step \in ForOptions \ {"capture"} => ~inv.userspace

KernelSet ==
  ok /\ ~inv.userspace =>
    /\ step \in ForEvents => options \ PassedOver(inv, Wanted(inv)) = Wanted(inv)
                             /\ enabled = inv.args \cup inv.file
    /\ step \in ForVendor =>
         events \cap Writable(inv) = FilesOf(inv.args \cup inv.file) \cap Writable(inv)
    /\ step \in ForStart => (inv.args \cup inv.file) \cap Vendor \subseteq vendor
    /\ step \in ForCapture => on

OnlyOwn ==
  step \in {"capture", "stop", "dump"} /\ ok /\ inv.mode = "trace" => buffer \subseteq {"own"}

PutBack ==
  /\ step \in {"vendorOff", "tagsOff", "pokeOff", "kernelOff"} => Stops(inv)
  /\ step = "kernelOff" => ~inv.userspace /\ (~spoilt => seen = {})
  /\ ~spoilt =>
       /\ step \in {"dump", "vendorOff", "tagsOff", "pokeOff", "kernelOff"}
            /\ Stops(inv) /\ ~inv.userspace => ~on
       /\ step \in {"tagsOff", "pokeOff", "kernelOff"} => vendor = {}
       /\ step \in {"pokeOff", "kernelOff"} => tags = {} /\ apps = "unset"

CleanWhenIdle == (clean # "nothing" => step = "idle") /\ StopRestores

Inv == UserSpaceSet /\ KernelSet /\ OnlyOwn /\ PutBack /\ CleanWhenIdle
=============================================================================
