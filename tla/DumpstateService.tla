-------------------------- MODULE DumpstateService --------------------------
(***************************************************************************)
(* The binder face of dumpstate (src/dumpstate/DumpstateService.cpp and    *)
(* main.cpp): a process started with -w publishes a DumpstateService and   *)
(* waits; startBugreport starts a thread that makes one report, tells the  *)
(* listener and ends the process.  All services of the process share the   *)
(* one Dumpstate object.                                                   *)
(*                                                                         *)
(* A report is three steps here: RunInternal up to where it may publish    *)
(* another service, the end of Run, and exit().  What happens in between   *)
(* is module Dumpstate.                                                    *)
(***************************************************************************)
EXTENDS Integers, Sequences

CONSTANTS
  Callers,     \* the processes that call the service
  Modes,       \* the modes they may ask for, out of those of Dumpstate
  NoCaller

CallersAssumption == NoCaller \notin Callers

VARIABLES
  alive,       \* "yes", "exited" or "crashed"
  services,    \* for each DumpstateService published, whether its ds_ is set
  binder,      \* the service a caller has looked up; 0 is none
  request,     \* what a caller asked startBugreport for
  thread,      \* where the thread made for a caller's request is
  options,     \* Dumpstate::options_: whose request it holds
  listener,    \* Dumpstate::listener_: whose it is
  progress,    \* Dumpstate::progress_ is set
  heard        \* what each caller's listener was told

vars == <<alive, services, binder, request, thread, options, listener, progress, heard>>

Requests == [mode : Modes \cup {"bad"}, listener : BOOLEAN, fds : BOOLEAN]
NoRequest == [mode |-> "none", listener |-> FALSE, fds |-> FALSE]

(* The modes with do_start_service, of SetOptionsFromMode.                 *)
StartsService == {"INTERACTIVE", "WEAR"}

Tell(c, event) == heard' = [heard EXCEPT ![c] = Append(@, event)]

(* main, with -w: Start() publishes a service whose ds_ is null.           *)
Init ==
  /\ alive = "yes" /\ services = <<FALSE>>
  /\ binder = [c \in Callers |-> 0]
  /\ request = [c \in Callers |-> NoRequest]
  /\ thread = [c \in Callers |-> "none"]
  /\ options = NoCaller /\ listener = NoCaller /\ progress = FALSE
  /\ heard = [c \in Callers |-> <<>>]

(* getService("dumpstate") gives the service published last.               *)
Lookup(c) ==
  /\ alive = "yes" /\ binder[c] # Len(services) /\ request[c] = NoRequest
  /\ binder' = [binder EXCEPT ![c] = Len(services)]
  /\ UNCHANGED <<alive, services, request, thread, options, listener, progress, heard>>

Calls(c, r) ==
  /\ alive = "yes" /\ binder[c] # 0 /\ request[c] = NoRequest
  /\ request' = [request EXCEPT ![c] = r]

(* Mutant: the check for a report in progress is missing.                  *)
MutNeverBusy(c, r) == FALSE

(* startBugreport while ds_ is set.                                        *)
Busy(c, r) == services[binder[c]]

startBugreportRefused(c, r) ==
  /\ Calls(c, r) /\ Busy(c, r)
  /\ IF r.listener THEN Tell(c, "ANOTHER_REPORT_IN_PROGRESS") ELSE UNCHANGED heard
  /\ UNCHANGED <<alive, services, binder, thread, options, listener, progress>>

(* Without a listener nobody is told; a bad mode or descriptor is.  Either *)
(* way the process exits.                                                  *)
startBugreportInvalid(c, r) ==
  /\ Calls(c, r) /\ ~Busy(c, r)
  /\ ~r.listener \/ r.mode = "bad" \/ ~r.fds
  /\ IF r.listener THEN Tell(c, "INVALID_INPUT") ELSE UNCHANGED heard
  /\ alive' = "exited"
  /\ UNCHANGED <<services, binder, thread, options, listener, progress>>

(* The options and the listener replace the ones that were there; then the *)
(* thread is started, or the process gives up.                             *)
startBugreport(c, r) ==
  /\ Calls(c, r) /\ ~Busy(c, r)
  /\ r.listener /\ r.mode # "bad" /\ r.fds
  /\ services' = [services EXCEPT ![binder[c]] = TRUE]
  /\ options' = c /\ listener' = c
  /\ \/ thread' = [thread EXCEPT ![c] = "started"] /\ UNCHANGED <<alive, heard>>
     \/ Tell(c, "RUNTIME_ERROR") /\ alive' = "exited" /\ UNCHANGED thread
  /\ UNCHANGED <<binder, progress>>

(* The old flow.  A listener that is there already stays, but ds_ is set.  *)
setListener(c) ==
  /\ alive = "yes" /\ binder[c] # 0
  /\ services' = [services EXCEPT ![binder[c]] = TRUE]
  /\ listener' = IF listener = NoCaller THEN c ELSE listener
  /\ UNCHANGED <<alive, binder, request, thread, options, progress, heard>>

(* RunInternal on the shared object: it has its options from whoever set   *)
(* them last.                                                              *)
RunInternal(c) ==
  /\ alive = "yes" /\ thread[c] = "started"
  /\ thread' = [thread EXCEPT ![c] = "running"]
  /\ progress' = TRUE
  /\ services' = IF request[options].mode \in StartsService
                   THEN Append(services, FALSE) ELSE services
  /\ UNCHANGED <<alive, binder, request, options, listener, heard>>

(* Mutant: the thread returns without a word.                              *)
MutRunSilently(c) ==
  /\ alive = "yes" /\ thread[c] = "running"
  /\ thread' = [thread EXCEPT ![c] = "told"]
  /\ UNCHANGED <<alive, services, binder, request, options, listener, progress, heard>>

(* The end of Run.                                                         *)
RunTells(c) ==
  /\ alive = "yes" /\ thread[c] = "running"
  /\ Tell(listener, "verdict")
  /\ thread' = [thread EXCEPT ![c] = "told"]
  /\ UNCHANGED <<alive, services, binder, request, options, listener, progress>>

(* dumpstate_thread_main.                                                  *)
Exit(c) ==
  /\ alive = "yes" /\ thread[c] = "told"
  /\ alive' = "exited"
  /\ UNCHANGED <<services, binder, request, thread, options, listener, progress, heard>>

(* dump: takes no lock; options_ and progress_ are used when ds_ is set.   *)
dump(c) ==
  /\ alive = "yes" /\ binder[c] # 0
  /\ services[binder[c]]
  /\ alive' = IF options # NoCaller /\ progress THEN "yes" ELSE "crashed"
  /\ UNCHANGED <<services, binder, request, thread, options, listener, progress, heard>>

StartsReport(c) ==
  \E r \in Requests :
    startBugreportRefused(c, r) \/ startBugreportInvalid(c, r) \/ startBugreport(c, r)
Report(c) == RunInternal(c) \/ RunTells(c) \/ Exit(c)

(* Every operation; and every operation but dump, which can take the       *)
(* process down.                                                           *)
NextUndumped == \E c \in Callers : Lookup(c) \/ StartsReport(c) \/ Report(c) \/ setListener(c)
Next == NextUndumped \/ \E c \in Callers : dump(c)

Spec == Init /\ [][Next]_vars
UndumpedSpec == Init /\ [][NextUndumped]_vars

(* The threads that make reports run on, see Dumpstate.                    *)
FairSpec == UndumpedSpec /\ \A c \in Callers : WF_vars(Report(c))

----------------------------------------------------------------------------
(* Properties *)

InProgress == {c \in Callers : thread[c] \in {"started", "running"}}

(* At most one bugreport is in progress at a time.                         *)
OneReportAtATime == alive = "yes" => \A c, d \in InProgress : c = d

(* The listener that hears how a report ended is the one of its request,   *)
(* and it hears nothing else.                                              *)
VerdictToItsCaller ==
  \A c \in Callers : "verdict" \in {heard[c][i] : i \in DOMAIN heard[c]} =>
     /\ thread[c] = "told"
     /\ heard[c] = <<"verdict">>

(* A request with a listener has been answered.                            *)
Told(c) == request[c].listener => heard[c] # <<>>

(* A caller with a listener hears from its request, whatever the others    *)
(* ask for meanwhile.                                                      *)
EveryCallHeard == []<>(\A c \in Callers : Told(c))

----------------------------------------------------------------------------
(* What the proofs rest on.                                                *)

(* No mode that is asked for publishes a second service.                   *)
OneService == Modes \cap StartsService = {}

TypeOK ==
  /\ services \in {<<FALSE>>, <<TRUE>>} /\ binder \in [Callers -> {0, 1}]
  /\ request \in [Callers -> Requests \cup {NoRequest}]
  /\ thread \in [Callers -> {"none", "started", "running", "told"}]
  /\ DOMAIN heard = Callers

(* The one service is busy from the first report on, which keeps the       *)
(* options and the listener.                                               *)
FirstKept ==
  \A c \in Callers :
    thread[c] # "none" =>
      services = <<TRUE>> /\ listener = c /\ options = c /\ request[c] # NoRequest

(* A caller that has not asked has heard nothing, and a refusal is all     *)
(* that one hears who makes no report.                                     *)
HeardOnce ==
  \A c \in Callers :
    /\ request[c] = NoRequest \/ thread[c] \in {"started", "running"} => heard[c] = <<>>
    /\ thread[c] = "told" => heard[c] = <<"verdict">>
    /\ thread[c] # "told" =>
         heard[c] \in {<<>>, <<"ANOTHER_REPORT_IN_PROGRESS">>, <<"INVALID_INPUT">>, <<"RUNTIME_ERROR">>}

Inv == TypeOK /\ FirstKept /\ HeardOnce
=============================================================================
