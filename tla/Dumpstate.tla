----------------------------- MODULE Dumpstate -----------------------------
(***************************************************************************)
(* One bugreport of dumpstate (src/dumpstate/dumpstate.cpp): the thread    *)
(* that executes Dumpstate::Run, the binder threads that deliver the       *)
(* user's answer to the consent dialog (ConsentCallback) and the listener  *)
(* of the old flow (setListener), and the clock.  The request comes from   *)
(* startBugreport ("api") or from the command line ("cli").                *)
(*                                                                         *)
(* Kept: every option that steers the run, which files exist in the        *)
(* internal directory, what has been copied to the caller, what the        *)
(* listener, the control socket and the broadcast receivers are told.      *)
(* Left out: the contents of the report, file names, ownership, logging.   *)
(***************************************************************************)
EXTENDS Integers, Sequences

CONSTANTS
  Requests,   \* the requests: [flow, mode, flags]
  Faults,     \* the operations that may fail
  TickMs,     \* what the clock advances by, in ms
  MaxNow      \* bound: the clock stops here

Modes == {"FULL", "INTERACTIVE", "REMOTE", "WEAR", "TELEPHONY", "WIFI", "DEFAULT"}
Options == {"do_add_date", "do_zip_file", "do_vibrate", "use_socket", "use_control_socket",
            "do_fb", "do_broadcast", "is_remote_mode", "show_header_only", "do_start_service",
            "telephony_only", "wifi_only", "do_progress_updates", "bugreport_fd", "screenshot_fd"}
FaultNames == {"incidentcompanion", "publish", "socket", "zip_open", "screencap", "redirect",
               "setuid", "zip", "rename", "copy"}
RunStatus == {"OK", "HELP", "INVALID_INPUT", "ERROR", "USER_CONSENT_DENIED",
              "USER_CONSENT_TIMED_OUT"}
ControlLines == {"BEGIN", "OK", "FAIL"}
Broadcasts == {"BUGREPORT_STARTED", "BUGREPORT_FINISHED", "REMOTE_BUGREPORT_FINISHED"}

(* What the letters of the command line set, or do_vibrate, clear.         *)
CliFlags == {"do_add_date", "do_zip_file", "use_socket", "use_control_socket", "show_header_only",
             "do_vibrate", "do_fb", "do_progress_updates", "is_remote_mode", "do_broadcast"}

ASSUME RequestsAssumption ==
  Requests \subseteq [flow : {"api", "cli"}, mode : Modes, flags : SUBSET (CliFlags \cup {"-h", "-?"})]
ASSUME FaultsAssumption == Faults \subseteq FaultNames
ASSUME ClockAssumption == TickMs \in Nat \ {0} /\ MaxNow \in Nat

VARIABLES
  pc,        \* where Dumpstate::Run is
  section,   \* the section DumpstateDefault is in
  running,   \* its slow function is running
  flow,      \* where the request came from
  opts,      \* the options that are set
  status,    \* what RunInternal returned
  consent,   \* ConsentCallback::result_; "none" before there is a callback
  asked,     \* the user was shown the dialog
  seen,      \* the consent_result CopyBugreportIfUserConsented works with
  now,       \* ms since the callback was made
  wake,      \* when sleep() returns
  early,     \* do_early_screenshot_
  published, \* this run published a "dumpstate" service of its own
  listener,  \* listener_ is set
  path,      \* path_: "zip", "txt" or "none"
  files,     \* the files in the internal directory
  shared,    \* what has been copied to the caller's descriptors
  heard,     \* what the listener was told at the end
  control,   \* the lines written to the control socket
  sent       \* the broadcasts

state == <<status, path, files, shared, heard, control, sent>>
user == <<consent, asked, seen, now, wake>>
config == <<flow, opts, early, published, listener>>
step == <<section, running>>
vars == <<pc, step, state, user, config>>

Set(option) == option \in opts
MayFail(op) == {FALSE} \cup (IF op \in Faults THEN {TRUE} ELSE {})
OutputToFile == ~Set("use_socket")

(* RunInternal returns s; Run still has the listener to tell.              *)
Return(s) == pc' = "returned" /\ status' = s

----------------------------------------------------------------------------
(* Options *)

SetOptionsFromMode(mode, set) ==
  CASE mode = "FULL"        -> set \cup {"do_broadcast", "do_fb"}
    [] mode = "INTERACTIVE" ->
         (set \ {"do_fb"}) \cup {"do_start_service", "do_progress_updates", "do_broadcast"}
    [] mode = "REMOTE"      ->
         (set \ {"do_vibrate", "do_fb"}) \cup {"is_remote_mode", "do_broadcast"}
    [] mode = "WEAR"        ->
         set \cup {"do_start_service", "do_progress_updates", "do_zip_file", "do_fb", "do_broadcast"}
    [] mode = "TELEPHONY"   -> (set \ {"do_fb"}) \cup {"telephony_only", "do_broadcast"}
    [] mode = "WIFI"        -> (set \ {"do_fb"}) \cup {"wifi_only", "do_zip_file", "do_broadcast"}
    [] mode = "DEFAULT"     -> set

(* DumpOptions::Initialize, from a mode or from the command line, where    *)
(* the flag do_vibrate stands for -q.                                      *)
InitializeApi(r) ==
  SetOptionsFromMode(r.mode, {"do_vibrate", "do_add_date", "do_zip_file",
                              "bugreport_fd", "screenshot_fd"})
InitializeCli(r) ==
  LET quiet == "do_vibrate" \in r.flags
      flags == (r.flags \cap Options) \ {"do_vibrate"}
  IN  SetOptionsFromMode(r.mode, flags \cup (IF quiet THEN {} ELSE {"do_vibrate"}))

(* What getopt made of the flags: the last of the two decides.             *)
ParseStatus(r) ==
  IF {"-h", "-?"} \cap r.flags = {}
    THEN {"OK"}
    ELSE {s \in {"HELP", "INVALID_INPUT"} : (s = "HELP" => "-h" \in r.flags)
                                             /\ (s = "INVALID_INPUT" => "-?" \in r.flags)}

ValidateOptions ==
  /\ Set("bugreport_fd") => Set("do_zip_file")
  /\ ~OutputToFile => opts \cap {"do_zip_file", "do_add_date",
                                 "do_progress_updates", "do_broadcast"} = {}
  /\ Set("use_control_socket") => Set("do_zip_file")
  /\ Set("do_progress_updates") => Set("do_broadcast")
  /\ Set("is_remote_mode") => /\ ~Set("do_progress_updates")
                              /\ {"do_broadcast", "do_zip_file", "do_add_date"} \subseteq opts

----------------------------------------------------------------------------
Init ==
  /\ pc = "idle" /\ section = 1 /\ running = FALSE /\ flow = "none" /\ opts = {} /\ status = "none"
  /\ consent = "none" /\ asked = FALSE /\ seen = "none" /\ now = 0 /\ wake = 0
  /\ early = FALSE /\ published = FALSE /\ listener = FALSE
  /\ path = "none" /\ files = {} /\ shared = {} /\ heard = <<>> /\ control = <<>> /\ sent = <<>>

(* startBugreport has checked the request and started the thread.          *)
StartApi(r) ==
  /\ pc = "idle" /\ r.flow = "api"
  /\ flow' = "api" /\ opts' = InitializeApi(r) /\ listener' = TRUE /\ pc' = "run"
  /\ UNCHANGED <<step, state, user, early, published>>

(* run_main and ParseCommandlineAndRun.                                    *)
StartCli(r) ==
  /\ pc = "idle" /\ r.flow = "cli"
  /\ flow' = "cli" /\ opts' = InitializeCli(r)
  /\ \E s \in ParseStatus(r) :
       IF s = "OK" THEN pc' = "run" /\ UNCHANGED status ELSE Return(s)
  /\ UNCHANGED <<step, path, files, shared, heard, control, sent, user, early, published, listener>>

(* From the start of RunInternal to CheckUserConsent.                      *)
Begin ==
  /\ pc = "run"
  /\ \/ ~ValidateOptions /\ Return("INVALID_INPUT") /\ UNCHANGED <<consent, asked>>
     \/ /\ ValidateOptions /\ Set("show_header_only")
        /\ Return("OK") /\ UNCHANGED <<consent, asked>>
     \/ /\ ValidateOptions /\ ~Set("show_header_only")
        /\ pc' = "service" /\ UNCHANGED status
        /\ IF Set("bugreport_fd")
             THEN /\ consent' = "UNAVAILABLE"
                  /\ \E fails \in MayFail("incidentcompanion") : asked' = ~fails
             ELSE UNCHANGED <<consent, asked>>
  /\ UNCHANGED <<step, path, files, shared, heard, control, sent, seen, now, wake, config>>

(* A service that cannot be published is only logged.                      *)
StartService ==
  /\ pc = "service"
  /\ \E fails \in MayFail("publish") : published' = (Set("do_start_service") /\ ~fails)
  /\ early' = Set("do_progress_updates")
  /\ pc' = "sockets"
  /\ UNCHANGED <<step, state, user, flow, opts, listener>>

(* Mutant: the control socket no longer implies progress updates.          *)
MutNoProgress ==
  /\ pc = "sockets" /\ pc' = "prepare"
  /\ UNCHANGED <<step, state, user, config>>

OpenSockets ==
  /\ pc = "sockets"
  /\ \E fails \in MayFail("socket") :
       IF fails /\ (Set("use_socket") \/ Set("use_control_socket"))
         THEN Return("ERROR") /\ UNCHANGED opts
         ELSE /\ opts' = opts \cup (IF Set("use_control_socket")
                                      THEN {"do_progress_updates"} ELSE {})
              /\ pc' = "prepare" /\ UNCHANGED status
  /\ UNCHANGED <<step, path, files, shared, heard, control, sent, user, flow, early, published,
                 listener>>

(* PrepareToWriteToFile and what is announced after it.  The path is set   *)
(* whether or not the zip file could be made.                              *)
PrepareToWriteToFile ==
  /\ pc = "prepare"
  /\ IF OutputToFile
       THEN /\ \E fails \in MayFail("zip_open") :
                 files' = IF Set("do_zip_file") /\ ~fails THEN files \cup {"zip"} ELSE files
            /\ path' = IF Set("do_zip_file") THEN "zip" ELSE path
            /\ sent' = IF Set("do_progress_updates") /\ Set("do_broadcast")
                         THEN Append(sent, "BUGREPORT_STARTED") ELSE sent
            /\ control' = IF Set("do_progress_updates") /\ Set("use_control_socket")
                            THEN Append(control, "BEGIN") ELSE control
       ELSE UNCHANGED <<files, path, sent, control>>
  /\ pc' = "screenshot"
  /\ UNCHANGED <<step, status, shared, heard, user, config>>

(* screenshot_path_ is set only with do_fb and a file to write to; without *)
(* it screencap fails.                                                     *)
HasScreenshotPath == Set("do_fb") /\ OutputToFile
TakeScreenshot ==
  \E fails \in MayFail("screencap") :
    files' = IF HasScreenshotPath /\ ~fails THEN files \cup {"png"} ELSE files

EarlyScreenshot ==
  /\ pc = "screenshot"
  /\ IF Set("do_fb") /\ early THEN TakeScreenshot ELSE UNCHANGED files
  /\ pc' = "redirect"
  /\ UNCHANGED <<step, status, path, shared, heard, control, sent, user, config>>

(* stderr goes to the log, then stdout to the temporary file.              *)
Redirect ==
  LET begin == pc' = (IF Set("telephony_only") \/ Set("wifi_only") THEN "radio" ELSE "default")
               /\ UNCHANGED status
  IN  /\ pc = "redirect"
      /\ IF ~OutputToFile
           THEN begin /\ UNCHANGED files
           ELSE \/ begin /\ files' = files \cup {"log", "tmp"}
                \/ /\ "redirect" \in Faults /\ Return("ERROR")
                   /\ \E made \in {{}, {"log"}} : files' = files \cup made
      /\ UNCHANGED <<step, path, shared, heard, control, sent, user, config>>

----------------------------------------------------------------------------
(* The sections of the report *)

(* DumpstateTelephonyOnly with DumpstateBoard, or DumpstateWifiOnly: no    *)
(* consent checks, and a failure to drop root is ignored.                  *)
DumpRadio ==
  /\ pc = "radio" /\ pc' = "finalize"
  /\ UNCHANGED <<step, state, user, config>>

(* DumpstateDefault and dumpstate(): the slow functions, and the work done *)
(* between them where it matters.                                          *)
Sections == <<"RunDumpsysCritical", "DumpTraces", "as root", "PROCRANK", "LIBRANK", "SMAPS",
              "screenshot", "RunDumpsysHigh", "DumpstateBoard", "RunDumpsysNormal",
              "CHECKIN MEMINFO", "rest">>
Slow == {"RunDumpsysCritical", "DumpTraces", "PROCRANK", "LIBRANK", "SMAPS", "RunDumpsysHigh",
         "DumpstateBoard", "RunDumpsysNormal", "CHECKIN MEMINFO"}
Section == Sections[section]
NextSection == section' = section + 1 /\ running' = FALSE /\ UNCHANGED <<pc, status>>
IsUserConsentDenied == consent = "DENIED"

(* RUN_SLOW_FUNCTION_WITH_CONSENT_CHECK: a check before and one after.     *)
EnterSlow ==
  /\ pc = "default" /\ Section \in Slow /\ ~running
  /\ IF IsUserConsentDenied
       THEN Return("USER_CONSENT_DENIED") /\ UNCHANGED step
       ELSE running' = TRUE /\ UNCHANGED <<section, pc, status>>
  /\ UNCHANGED <<path, files, shared, heard, control, sent, user, config>>

LeaveSlow ==
  /\ pc = "default" /\ Section \in Slow /\ running
  /\ IF IsUserConsentDenied
       THEN Return("USER_CONSENT_DENIED") /\ UNCHANGED step
       ELSE NextSection
  /\ UNCHANGED <<path, files, shared, heard, control, sent, user, config>>

(* The commands that need root, DropRootUser, and a consent check.         *)
DropRoot ==
  /\ pc = "default" /\ Section = "as root"
  /\ \E fails \in MayFail("setuid") :
       IF fails THEN Return("ERROR") /\ UNCHANGED step
       ELSE IF IsUserConsentDenied THEN Return("USER_CONSENT_DENIED") /\ UNCHANGED step
       ELSE NextSection
  /\ UNCHANGED <<path, files, shared, heard, control, sent, user, config>>

LateScreenshot ==
  /\ pc = "default" /\ Section = "screenshot"
  /\ IF early THEN UNCHANGED files ELSE TakeScreenshot
  /\ NextSection
  /\ UNCHANGED <<path, shared, heard, control, sent, user, config>>

(* What follows the last check.                                            *)
DumpRest ==
  /\ pc = "default" /\ Section = "rest" /\ pc' = "finalize"
  /\ UNCHANGED <<step, state, user, config>>

DumpstateDefault == EnterSlow \/ LeaveSlow \/ DropRoot \/ LateScreenshot \/ DumpRest

----------------------------------------------------------------------------
(* The end of the run *)

(* FinishZipFile succeeds, or the text is kept instead; a suffix chosen by *)
(* the user changes names only.                                            *)
FinalizeFile ==
  /\ pc = "finalize"
  /\ IF ~OutputToFile
       THEN UNCHANGED <<path, files, control>>
       ELSE LET say(line) == IF Set("use_control_socket") THEN Append(control, line) ELSE control
            IN  \/ /\ Set("do_zip_file") /\ "zip" \in files
                   /\ files' = files \ {"tmp"} /\ control' = say("OK") /\ UNCHANGED path
                \/ /\ Set("do_zip_file") => "zip" \notin files \/ "zip" \in Faults
                   /\ control' = say("FAIL")
                   /\ \E fails \in MayFail("rename") :
                        IF fails THEN path' = "none" /\ UNCHANGED files
                                 ELSE path' = "txt" /\ files' = (files \ {"tmp"}) \cup {"txt"}
  /\ pc' = IF Set("bugreport_fd") THEN "copy" ELSE "finish"
  /\ UNCHANGED <<step, status, shared, heard, sent, user, config>>

USER_CONSENT_TIMEOUT_MS == 30000

(* A difference of two Nanotime() readings.  Beyond 2 s it stays what it   *)
(* is then: it is only compared with the timeout.                          *)
getElapsedTimeMs == 1000000 * (IF now < 2000 THEN now ELSE 2000)

(* Mutant: what is left of the timeout is taken without asking whether     *)
(* anything is.                                                            *)
MutAlwaysSleeps ==
  /\ pc = "copy" /\ seen' = consent /\ pc' = "sleep"
  /\ wake' = now + ((USER_CONSENT_TIMEOUT_MS - getElapsedTimeMs) \div 1000) * 1000
  /\ UNCHANGED <<step, state, consent, asked, now, config>>

(* CopyBugreportIfUserConsented up to the sleep.                           *)
AwaitConsent ==
  /\ pc = "copy"
  /\ seen' = consent
  /\ IF consent # "UNAVAILABLE"
       THEN pc' = "decide" /\ UNCHANGED wake
       ELSE /\ pc' = "sleep"
            /\ wake' = IF getElapsedTimeMs < USER_CONSENT_TIMEOUT_MS
                         THEN now + ((USER_CONSENT_TIMEOUT_MS - getElapsedTimeMs) \div 1000) * 1000
                         ELSE now
  /\ UNCHANGED <<step, state, consent, asked, now, config>>

WakeUp ==
  /\ pc = "sleep" /\ now >= wake
  /\ seen' = consent /\ pc' = "decide"
  /\ UNCHANGED <<step, state, consent, asked, now, wake, config>>

(* Mutant: the screenshot is forgotten.                                    *)
MutKeepsScreenshot == files' = files \ {"tmp", path}

CleanupFiles ==
  files' = files \ ({"tmp", path} \cup (IF HasScreenshotPath THEN {"png"} ELSE {}))

(* HandleUserConsentDenied.                                                *)
Denied ==
  /\ pc = "decide" /\ seen = "DENIED"
  /\ CleanupFiles /\ Return("USER_CONSENT_DENIED")
  /\ UNCHANGED <<step, path, shared, heard, control, sent, user, config>>

CopyFileToFd(file, what) ==
  files' = files \ {file} /\ shared' = shared \cup {what}

(* Mutant: everything but a denial is taken for an approval.               *)
MutCopyUnlessDenied ==
  /\ pc = "decide" /\ seen # "DENIED"
  /\ path \in files /\ CopyFileToFd(path, "bugreport")
  /\ pc' = "copy_screenshot"
  /\ UNCHANGED <<step, status, path, heard, control, sent, user, config>>

Approved ==
  /\ pc = "decide" /\ seen = "APPROVED"
  /\ \/ path \in files /\ CopyFileToFd(path, "bugreport")
        /\ pc' = "copy_screenshot" /\ UNCHANGED status
     \/ (path \notin files \/ "copy" \in Faults) /\ Return("ERROR") /\ UNCHANGED <<files, shared>>
  /\ UNCHANGED <<step, path, heard, control, sent, user, config>>

(* Mutant: a timeout is treated as a denial.                               *)
MutTimeoutDeletes ==
  /\ pc = "decide" /\ seen = "UNAVAILABLE"
  /\ CleanupFiles /\ pc' = "copy_screenshot"
  /\ UNCHANGED <<step, status, path, shared, heard, control, sent, user, config>>

TimedOut ==
  /\ pc = "decide" /\ seen = "UNAVAILABLE"
  /\ pc' = "copy_screenshot"
  /\ UNCHANGED <<step, state, user, config>>

(* RunInternal, after the report was copied or consent timed out; in the   *)
(* latter case the dialog is then cancelled.                               *)
CopyScreenshot ==
  /\ pc = "copy_screenshot"
  /\ \/ /\ Set("do_fb") /\ Set("screenshot_fd") /\ "png" \in files
        /\ CopyFileToFd("png", "screenshot")
     \/ /\ Set("do_fb") /\ Set("screenshot_fd") => "png" \notin files \/ "copy" \in Faults
        /\ UNCHANGED <<files, shared>>
  /\ pc' = "finish"
  /\ UNCHANGED <<step, status, path, heard, control, sent, user, config>>

(* SHA256_file_hash returns a std::string made from nullptr when it cannot *)
(* open the file, which ends the process.                                  *)
SHA256_file_hash_fails == path \notin files

(* SendBugreportFinishedBroadcast; in remote mode the file is hashed.      *)
Broadcast ==
  /\ pc = "finish"
  /\ IF ~Set("do_broadcast") \/ path = "none"
       THEN pc' = "saved" /\ UNCHANGED sent
     ELSE IF Set("is_remote_mode") /\ SHA256_file_hash_fails
       THEN pc' = "crashed" /\ UNCHANGED sent
     ELSE /\ pc' = "saved"
          /\ sent' = Append(sent, IF Set("is_remote_mode") THEN "REMOTE_BUGREPORT_FINISHED"
                                                           ELSE "BUGREPORT_FINISHED")
  /\ UNCHANGED <<step, status, path, files, shared, heard, control, user, config>>

(* The last statement of RunInternal reads the consent once more.          *)
ReturnFromRunInternal ==
  /\ pc = "saved"
  /\ Return(IF consent = "UNAVAILABLE" THEN "USER_CONSENT_TIMED_OUT" ELSE "OK")
  /\ UNCHANGED <<step, path, files, shared, heard, control, sent, user, config>>

(* Run tells the listener, if there is one, and the process exits.         *)
Event(s) == IF s = "OK" THEN "onFinished" ELSE s
(* Mutant: the switch has no case for a timeout.                           *)
MutSilentTimeout ==
  /\ pc = "returned" /\ pc' = "exited"
  /\ heard' = IF listener /\ status \notin {"HELP", "USER_CONSENT_TIMED_OUT"}
                THEN Append(heard, Event(status)) ELSE heard
  /\ UNCHANGED <<step, status, path, files, shared, control, sent, user, config>>

TellListener ==
  /\ pc = "returned"
  /\ heard' = IF listener /\ status # "HELP" THEN Append(heard, Event(status)) ELSE heard
  /\ pc' = "exited"
  /\ UNCHANGED <<step, status, path, files, shared, control, sent, user, config>>

Run ==
  \/ Begin \/ StartService \/ OpenSockets \/ PrepareToWriteToFile \/ EarlyScreenshot \/ Redirect
  \/ DumpRadio \/ DumpstateDefault \/ FinalizeFile
  \/ AwaitConsent \/ WakeUp \/ Denied \/ Approved \/ TimedOut \/ CopyScreenshot
  \/ Broadcast \/ ReturnFromRunInternal \/ TellListener

----------------------------------------------------------------------------
(* What happens beside the run *)

Alive == pc \notin {"idle", "exited", "crashed"}

(* onReportApproved and onReportDenied: incidentcompanion answers once; an *)
(* answer that was under way when the dialog was cancelled still arrives.  *)
Answer(result) ==
  /\ Alive /\ asked /\ consent = "UNAVAILABLE"
  /\ consent' = result
  /\ UNCHANGED <<pc, step, state, asked, seen, now, wake, config>>
onReportApproved == Answer("APPROVED")
onReportDenied == Answer("DENIED")

(* DumpstateService::setListener on the service this run published.        *)
setListener ==
  /\ Alive /\ published /\ ~listener
  /\ listener' = TRUE
  /\ UNCHANGED <<pc, step, state, user, flow, opts, early, published>>

Tick ==
  /\ Alive /\ consent # "none" /\ now + TickMs <= MaxNow
  /\ now' = now + TickMs
  /\ UNCHANGED <<pc, step, state, consent, asked, seen, wake, config>>

Next ==
  \/ \E r \in Requests : StartApi(r) \/ StartCli(r)
  \/ Run
  \/ onReportApproved \/ onReportDenied \/ setListener \/ Tick

Spec == Init /\ [][Next]_vars

(* The thread runs on: every command it waits for has a timeout.  Time     *)
(* passes.  Nothing makes the user answer.                                 *)
FairSpec == Spec /\ WF_vars(Run) /\ WF_vars(Tick)

----------------------------------------------------------------------------
(* Properties *)

SectionTyped == section \in 1 .. 12
SwitchesTyped ==
  /\ running \in BOOLEAN /\ asked \in BOOLEAN
  /\ early \in BOOLEAN /\ published \in BOOLEAN /\ listener \in BOOLEAN
DataTyped ==
  /\ pc \in {"idle", "run", "service", "sockets", "prepare", "screenshot", "redirect", "radio",
             "default", "finalize", "copy", "sleep", "decide", "copy_screenshot", "finish",
             "saved", "returned", "exited", "crashed"}
  /\ flow \in {"none", "api", "cli"}
  /\ opts \subseteq Options
  /\ status \in RunStatus \cup {"none"}
  /\ pc = "returned" => status # "none"
  /\ consent \in {"none", "UNAVAILABLE", "APPROVED", "DENIED"}
  /\ seen \in {"none", "UNAVAILABLE", "APPROVED", "DENIED"}
  /\ now \in Nat
  /\ wake \in Nat
  /\ path \in {"none", "zip", "txt"}
  /\ files \subseteq {"zip", "txt", "tmp", "png", "log"}
  /\ shared \subseteq {"bugreport", "screenshot"}
  /\ heard \in Seq(RunStatus \cup {"onFinished"})
  /\ control \in Seq(ControlLines)
  /\ sent \in Seq(Broadcasts)

(* Every variable has its type: DumpstateDefault ends after its last       *)
(* section, and the thread never sleeps until a time before the start.     *)
TypeOK == SectionTyped /\ SwitchesTyped /\ DataTyped

(* The bugreport itself reaches the caller's descriptor only when the user *)
(* has approved, whenever the answer comes.                                *)
BugreportNeedsConsent == "bugreport" \in shared => consent = "APPROVED"

(* A report nobody consented to in time stays in the internal directory,   *)
(* "from where the user can manually pull it": as path_, or as the         *)
(* temporary file when the last rename failed.                             *)
KeptForManualRetrieval ==
  flow = "api" /\ pc = "exited" /\ status = "USER_CONSENT_TIMED_OUT"
    => files \cap {path, "tmp"} # {}

(* A denial the copy sees leaves nothing but the log behind, given that    *)
(* the zip file was finished, and is told as such.                         *)
DeniedCopyLeavesNothing ==
  pc = "exited" /\ seen = "DENIED" /\ path = "zip"
    => files \subseteq {"log"} /\ heard = <<"USER_CONSENT_DENIED">>

(* Where a run got to its end, the text exists once: the temporary file    *)
(* was put into the zip or became the report.                              *)
NoTemporaryLeft == pc \in {"finish", "saved"} /\ "tmp" \in files => path = "none"

(* bugreportz reads BEGIN and then exactly one of OK and FAIL from the     *)
(* control socket when dumpstate comes to its end, and OK names a zip file *)
(* that is there.                                                          *)
ControlProtocol ==
  /\ control \in {<<>>, <<"BEGIN">>, <<"BEGIN", "OK">>, <<"BEGIN", "FAIL">>}
  /\ pc \in {"finish", "saved"} /\ Set("use_control_socket") =>
       /\ Len(control) = 2
       /\ control[2] = "OK" <=> (path = "zip" /\ "zip" \in files)

(* Every caller of startBugreport is told an end: "When bugreport creation *)
(* is complete one of onError or onFinished is called."                    *)
EveryRequestAnswered == (flow = "api") ~> (heard # <<>>)

----------------------------------------------------------------------------
(* What the sources say and the code does not do *)

(* The user has 30 s, to the second, before consent counts as timed out.   *)
WaitsForTheUser ==
  pc = "exited" /\ seen = "UNAVAILABLE" => now >= USER_CONSENT_TIMEOUT_MS - 1000

(* onFinished is called only when the report was copied to the caller.     *)
FinishedMeansShared == flow = "api" /\ heard = <<"onFinished">> => "bugreport" \in shared

(* Run leaves no file nobody will look for, after a denied copy or at its  *)
(* end: DeniedCopyLeavesNothing and NoTemporaryLeft.                       *)
NothingLeftBehind == DeniedCopyLeavesNothing /\ NoTemporaryLeft
=============================================================================
