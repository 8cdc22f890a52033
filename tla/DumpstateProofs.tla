--------------------------- MODULE DumpstateProofs ---------------------------
(***************************************************************************)
(* Proofs about Dumpstate, for every set of requests and faults and every  *)
(* clock.                                                                  *)
(***************************************************************************)
EXTENDS Dumpstate, TLAPS

(* What startBugreport sets, whatever the mode: the report is copied to a  *)
(* descriptor and written to a file first.                                 *)
LEMMA ApiOptions ==
  ASSUME NEW r \in Requests
  PROVE  /\ InitializeApi(r) \subseteq Options
         /\ "bugreport_fd" \in InitializeApi(r)
         /\ "use_socket" \notin InitializeApi(r)
         /\ "use_control_socket" \notin InitializeApi(r)
<1> DEFINE set == {"do_vibrate", "do_add_date", "do_zip_file", "bugreport_fd", "screenshot_fd"}
<1>1. r.mode \in Modes
  BY RequestsAssumption
<1> QED
  BY <1>1 DEF InitializeApi, SetOptionsFromMode, Modes, Options

(* The command line sets nothing but options.                              *)
LEMMA CliOptions ==
  ASSUME NEW r \in Requests
  PROVE  InitializeCli(r) \subseteq Options /\ "bugreport_fd" \notin InitializeCli(r)
<1>1. r.mode \in Modes /\ "bugreport_fd" \notin r.flags
  BY RequestsAssumption DEF CliFlags
<1>2. ASSUME NEW set \in SUBSET Options, "bugreport_fd" \notin set
      PROVE  SetOptionsFromMode(r.mode, set) \subseteq Options
             /\ "bugreport_fd" \notin SetOptionsFromMode(r.mode, set)
  BY <1>1, <1>2 DEF SetOptionsFromMode, Modes, Options
<1>3. ((r.flags \cap Options) \ {"do_vibrate"})
        \cup (IF "do_vibrate" \in r.flags THEN {} ELSE {"do_vibrate"}) \in SUBSET Options
  BY DEF Options
<1>4. "bugreport_fd" \notin ((r.flags \cap Options) \ {"do_vibrate"})
        \cup (IF "do_vibrate" \in r.flags THEN {} ELSE {"do_vibrate"})
  BY <1>1
<1> QED
  BY <1>2, <1>3, <1>4 DEF InitializeCli

(* A sequence with one more element of its set.                            *)
LEMMA AppendTyped ==
  ASSUME NEW S, NEW s \in Seq(S), NEW e \in S
  PROVE  Append(s, e) \in Seq(S)
OBVIOUS

(* The last section runs no slow function.                                 *)
LEMMA RestIsNotSlow ==
  "rest" \notin Slow /\ "rest" # "as root" /\ "rest" # "screenshot"
BY DEF Slow

(* The section after one that is not the last.                             *)
LEMMA NextIndex ==
  ASSUME NEW n \in 1 .. 12, n # 12
  PROVE  n + 1 \in 1 .. 12
OBVIOUS

(* Every section but the last is followed by another.                      *)
LEMMA SectionOrder ==
  ASSUME NEW n \in 1 .. 12, Sections[n] # "rest"
  PROVE  n + 1 \in 1 .. 12
<1>1. Sections[12] = "rest"
  BY DEF Sections
<1>2. n # 12
  BY <1>1
<1> QED
  BY <1>2, NextIndex

(* The time the thread sleeps until is not in the past.                    *)
LEMMA SleepTime ==
  ASSUME now \in Nat, getElapsedTimeMs < USER_CONSENT_TIMEOUT_MS
  PROVE  ((USER_CONSENT_TIMEOUT_MS - getElapsedTimeMs) \div 1000) * 1000 \in Nat
BY DEF getElapsedTimeMs, USER_CONSENT_TIMEOUT_MS

(* Every variable keeps its type: in particular DumpstateDefault comes to  *)
(* an end after its last section and sleep() is never given a time in the  *)
(* past.                                                                   *)
THEOREM TypeCorrect == Spec => []TypeOK
<1> USE DEF TypeOK
<1>1. Init => TypeOK
  <2> SUFFICES ASSUME Init PROVE TypeOK
    OBVIOUS
  <2>1. SectionTyped
    BY DEF Init, SectionTyped
  <2>2. SwitchesTyped
    BY DEF Init, SwitchesTyped
  <2>3. DataTyped
    BY DEF Init, DataTyped
  <2> QED
    BY <2>1, <2>2, <2>3
<1>2. TypeOK /\ [Next]_vars => TypeOK'
  <2> SUFFICES ASSUME TypeOK, [Next]_vars PROVE TypeOK'
    OBVIOUS
  <2>1. ASSUME NEW r \in Requests, StartApi(r) PROVE TypeOK'
    <3>2. UNCHANGED section
      BY <2>1 DEF StartApi, step
    <3>3. SwitchesTyped'
      BY <2>1, Zenon DEF SwitchesTyped, StartApi, step, user, config
    <3>4. DataTyped'
      BY <2>1, ApiOptions DEF DataTyped, state, user, config, StartApi
    <3> QED
      BY <3>2, <3>3, <3>4 DEF SectionTyped, SwitchesTyped
  <2>2. ASSUME NEW r \in Requests, StartCli(r) PROVE TypeOK'
    <3>2. UNCHANGED section
      BY <2>2 DEF StartCli, step
    <3>3. UNCHANGED <<running, asked, early, published, listener>>
      BY <2>2 DEF StartCli, step, user, config
    <3>4. DataTyped'
      <4>1. PICK s \in ParseStatus(r) :
              IF s = "OK" THEN pc' = "run" /\ UNCHANGED status ELSE Return(s)
        BY <2>2 DEF StartCli
      <4>2. s \in {"OK", "HELP", "INVALID_INPUT"}
        BY DEF ParseStatus
      <4> QED
        BY <2>2, <4>1, <4>2, CliOptions DEF DataTyped, user, StartCli, Return, RunStatus
    <3> QED
      BY <3>2, <3>3, <3>4 DEF SectionTyped, SwitchesTyped
  <2>3. CASE Begin
    <3>2. UNCHANGED section
      BY <2>3 DEF Begin, step
    <3>3. SwitchesTyped'
      BY <2>3, Zenon DEF SwitchesTyped, Begin, step, user, config, MayFail
    <3>4. DataTyped'
      <4>1. /\ \/ pc' = "service" /\ status' = status
               \/ pc' = "returned" /\ status' \in {"INVALID_INPUT", "OK"}
            /\ consent' \in {consent, "UNAVAILABLE"}
        BY <2>3 DEF Begin, Return
      <4>2. UNCHANGED <<path, files, shared, heard, control, sent, seen, now, wake, flow, opts>>
        BY <2>3 DEF Begin, config
      <4> QED
        BY <2>3, <4>1, <4>2 DEF DataTyped, RunStatus, Begin
    <3> QED
      BY <3>2, <3>3, <3>4 DEF SectionTyped, SwitchesTyped
  <2>4. CASE StartService
    <3>2. UNCHANGED section
      BY <2>4 DEF StartService, step
    <3>3. SwitchesTyped'
      <4>1. published' \in BOOLEAN
        <5>1. PICK fails \in MayFail("publish") :
                published' = (Set("do_start_service") /\ ~fails)
          BY <2>4 DEF StartService
        <5> QED
          BY <5>1, Zenon
      <4>2. early' \in BOOLEAN
        BY <2>4 DEF StartService, Set
      <4> QED
        BY <2>4, <4>1, <4>2, Zenon DEF SwitchesTyped, StartService, step, user
    <3>4. DataTyped'
      BY <2>4 DEF DataTyped, state, user, config, StartService, MayFail
    <3> QED
      BY <3>2, <3>3, <3>4 DEF SectionTyped, SwitchesTyped
  <2>5. CASE OpenSockets
    <3>2. UNCHANGED section
      BY <2>5 DEF OpenSockets, step
    <3>3. UNCHANGED <<running, asked, early, published, listener>>
      BY <2>5 DEF OpenSockets, step, user, config
    <3>4. DataTyped'
      BY <2>5 DEF DataTyped, state, user, config, OpenSockets, MayFail, Return, RunStatus, Options
    <3> QED
      BY <3>2, <3>3, <3>4 DEF SectionTyped, SwitchesTyped
  <2>6. CASE PrepareToWriteToFile
    <3>2. UNCHANGED section
      BY <2>6 DEF PrepareToWriteToFile, step
    <3>3. UNCHANGED <<running, asked, early, published, listener>>
      BY <2>6 DEF PrepareToWriteToFile, step, user, config
    <3>4. DataTyped'
      <4>1. /\ files' \in {files, files \cup {"zip"}} /\ path' \in {path, "zip"}
            /\ sent' \in {sent, Append(sent, "BUGREPORT_STARTED")}
            /\ control' \in {control, Append(control, "BEGIN")}
        BY <2>6 DEF PrepareToWriteToFile
      <4>2. /\ pc' = "screenshot"
            /\ UNCHANGED <<status, shared, heard, consent, seen, now, wake, flow, opts>>
        BY <2>6 DEF PrepareToWriteToFile, user, config
      <4>3. control' \in Seq(ControlLines)
        <5>1. control \in Seq(ControlLines)
          BY DEF DataTyped
        <5>2. {"BEGIN", "OK", "FAIL"} \subseteq ControlLines
          BY DEF ControlLines
        <5> QED
          BY <4>1, <5>1, <5>2, AppendTyped
      <4>4. sent' \in Seq(Broadcasts)
        <5>1. sent \in Seq(Broadcasts)
          BY DEF DataTyped
        <5>2. {"BUGREPORT_STARTED", "BUGREPORT_FINISHED", "REMOTE_BUGREPORT_FINISHED"} \subseteq Broadcasts
          BY DEF Broadcasts
        <5> QED
          BY <4>1, <5>1, <5>2, AppendTyped
      <4>5. /\ files' \subseteq {"zip", "txt", "tmp", "png", "log"}
            /\ path' \in {"none", "zip", "txt"}
        BY <4>1 DEF DataTyped
      <4> QED
        BY <4>2, <4>3, <4>4, <4>5 DEF DataTyped
    <3> QED
      BY <3>2, <3>3, <3>4 DEF SectionTyped, SwitchesTyped
  <2>7. CASE EarlyScreenshot
    <3>2. UNCHANGED section
      BY <2>7 DEF EarlyScreenshot, step
    <3>3. UNCHANGED <<running, asked, early, published, listener>>
      BY <2>7 DEF EarlyScreenshot, step, user, config
    <3>4. DataTyped'
      BY <2>7 DEF DataTyped, state, user, config, EarlyScreenshot, TakeScreenshot,
           HasScreenshotPath, MayFail
    <3> QED
      BY <3>2, <3>3, <3>4 DEF SectionTyped, SwitchesTyped
  <2>8. CASE Redirect
    <3>2. UNCHANGED section
      BY <2>8 DEF Redirect, step
    <3>3. UNCHANGED <<running, asked, early, published, listener>>
      BY <2>8 DEF Redirect, step, user, config
    <3>4. DataTyped'
      BY <2>8 DEF DataTyped, state, user, config, Redirect, Return, RunStatus
    <3> QED
      BY <3>2, <3>3, <3>4 DEF SectionTyped, SwitchesTyped
  <2>9. CASE DumpRadio
    <3>2. UNCHANGED section
      BY <2>9 DEF DumpRadio, step
    <3>3. UNCHANGED <<running, asked, early, published, listener>>
      BY <2>9 DEF DumpRadio, step, user, config
    <3>4. DataTyped'
      BY <2>9 DEF DataTyped, state, user, config, DumpRadio
    <3> QED
      BY <3>2, <3>3, <3>4 DEF SectionTyped, SwitchesTyped
  <2>10. CASE EnterSlow
    <3>2. UNCHANGED section
      BY <2>10 DEF EnterSlow, step
    <3>3. SwitchesTyped'
      BY <2>10, Zenon DEF SwitchesTyped, EnterSlow, step, user, config
    <3>4. DataTyped'
      BY <2>10 DEF DataTyped, state, user, config, EnterSlow, Return, RunStatus
    <3> QED
      BY <3>2, <3>3, <3>4 DEF SectionTyped, SwitchesTyped
  <2>11. CASE LeaveSlow
    <3>1. section' = section \/ (section' = section + 1 /\ Sections[section] # "rest")
      BY <2>11, RestIsNotSlow DEF LeaveSlow, Section, NextSection, step
    <3>2. SectionTyped'
      BY <3>1, SectionOrder DEF SectionTyped
    <3>3. SwitchesTyped'
      BY <2>11, Zenon DEF SwitchesTyped, LeaveSlow, step, user, config, NextSection
    <3>4. DataTyped'
      BY <2>11 DEF DataTyped, state, user, config, LeaveSlow, NextSection, Return, RunStatus
    <3> QED
      BY <3>2, <3>3, <3>4 DEF SectionTyped, SwitchesTyped
  <2>12. CASE DropRoot
    <3>1. section' = section \/ (section' = section + 1 /\ Sections[section] # "rest")
      BY <2>12, RestIsNotSlow DEF DropRoot, Section, NextSection, step
    <3>2. SectionTyped'
      BY <3>1, SectionOrder DEF SectionTyped
    <3>3. SwitchesTyped'
      BY <2>12, Zenon DEF SwitchesTyped, DropRoot, step, user, config, NextSection
    <3>4. DataTyped'
      BY <2>12 DEF DataTyped, state, user, config, DropRoot, NextSection, MayFail, Return, RunStatus
    <3> QED
      BY <3>2, <3>3, <3>4 DEF SectionTyped, SwitchesTyped
  <2>13. CASE LateScreenshot
    <3>1. section' = section \/ (section' = section + 1 /\ Sections[section] # "rest")
      BY <2>13, RestIsNotSlow DEF LateScreenshot, Section, NextSection, step
    <3>2. SectionTyped'
      BY <3>1, SectionOrder DEF SectionTyped
    <3>3. SwitchesTyped'
      BY <2>13, Zenon DEF SwitchesTyped, LateScreenshot, step, user, config, NextSection
    <3>4. DataTyped'
      BY <2>13 DEF DataTyped, state, user, config, LateScreenshot, NextSection, TakeScreenshot,
           HasScreenshotPath, MayFail
    <3> QED
      BY <3>2, <3>3, <3>4 DEF SectionTyped, SwitchesTyped
  <2>14. CASE DumpRest
    <3>2. UNCHANGED section
      BY <2>14 DEF DumpRest, step
    <3>3. UNCHANGED <<running, asked, early, published, listener>>
      BY <2>14 DEF DumpRest, step, user, config
    <3>4. DataTyped'
      BY <2>14 DEF DataTyped, state, user, config, DumpRest
    <3> QED
      BY <3>2, <3>3, <3>4 DEF SectionTyped, SwitchesTyped
  <2>15. CASE FinalizeFile
    <3>2. UNCHANGED section
      BY <2>15 DEF FinalizeFile, step
    <3>3. UNCHANGED <<running, asked, early, published, listener>>
      BY <2>15 DEF FinalizeFile, step, user, config
    <3>4. DataTyped'
      <4>1. /\ files' \in {files, files \ {"tmp"}, (files \ {"tmp"}) \cup {"txt"}}
            /\ path' \in {path, "txt", "none"}
            /\ control' \in {control, Append(control, "OK"), Append(control, "FAIL")}
        BY <2>15 DEF FinalizeFile
      <4>2. /\ pc' \in {"copy", "finish"}
            /\ UNCHANGED <<status, shared, heard, sent, consent, seen, now, wake, flow, opts>>
        BY <2>15 DEF FinalizeFile, user, config
      <4>3. control' \in Seq(ControlLines)
        <5>1. control \in Seq(ControlLines)
          BY DEF DataTyped
        <5>2. {"BEGIN", "OK", "FAIL"} \subseteq ControlLines
          BY DEF ControlLines
        <5> QED
          BY <4>1, <5>1, <5>2, AppendTyped
      <4>4. /\ files' \subseteq {"zip", "txt", "tmp", "png", "log"}
            /\ path' \in {"none", "zip", "txt"}
        BY <4>1 DEF DataTyped
      <4> QED
        BY <4>2, <4>3, <4>4 DEF DataTyped
    <3> QED
      BY <3>2, <3>3, <3>4 DEF SectionTyped, SwitchesTyped
  <2>16. CASE AwaitConsent
    <3>2. UNCHANGED section
      BY <2>16 DEF AwaitConsent, step
    <3>3. UNCHANGED <<running, asked, early, published, listener>>
      BY <2>16 DEF AwaitConsent, step, user, config
    <3>4. DataTyped'
      BY <2>16, SleepTime DEF DataTyped, state, user, config, AwaitConsent
    <3> QED
      BY <3>2, <3>3, <3>4 DEF SectionTyped, SwitchesTyped
  <2>17. CASE WakeUp
    <3>2. UNCHANGED section
      BY <2>17 DEF WakeUp, step
    <3>3. UNCHANGED <<running, asked, early, published, listener>>
      BY <2>17 DEF WakeUp, step, user, config
    <3>4. DataTyped'
      BY <2>17 DEF DataTyped, state, user, config, WakeUp
    <3> QED
      BY <3>2, <3>3, <3>4 DEF SectionTyped, SwitchesTyped
  <2>18. CASE Denied
    <3>2. UNCHANGED section
      BY <2>18 DEF Denied, step
    <3>3. UNCHANGED <<running, asked, early, published, listener>>
      BY <2>18 DEF Denied, step, user, config
    <3>4. DataTyped'
      BY <2>18 DEF DataTyped, state, user, config, Denied, CleanupFiles, HasScreenshotPath, Return,
           RunStatus
    <3> QED
      BY <3>2, <3>3, <3>4 DEF SectionTyped, SwitchesTyped
  <2>19. CASE Approved
    <3>2. UNCHANGED section
      BY <2>19 DEF Approved, step
    <3>3. UNCHANGED <<running, asked, early, published, listener>>
      BY <2>19 DEF Approved, step, user, config
    <3>4. DataTyped'
      BY <2>19 DEF DataTyped, state, user, config, Approved, CopyFileToFd, Return, RunStatus
    <3> QED
      BY <3>2, <3>3, <3>4 DEF SectionTyped, SwitchesTyped
  <2>20. CASE TimedOut
    <3>2. UNCHANGED section
      BY <2>20 DEF TimedOut, step
    <3>3. UNCHANGED <<running, asked, early, published, listener>>
      BY <2>20 DEF TimedOut, step, user, config
    <3>4. DataTyped'
      BY <2>20 DEF DataTyped, state, user, config, TimedOut
    <3> QED
      BY <3>2, <3>3, <3>4 DEF SectionTyped, SwitchesTyped
  <2>21. CASE CopyScreenshot
    <3>2. UNCHANGED section
      BY <2>21 DEF CopyScreenshot, step
    <3>3. UNCHANGED <<running, asked, early, published, listener>>
      BY <2>21 DEF CopyScreenshot, step, user, config
    <3>4. DataTyped'
      BY <2>21 DEF DataTyped, state, user, config, CopyScreenshot, CopyFileToFd
    <3> QED
      BY <3>2, <3>3, <3>4 DEF SectionTyped, SwitchesTyped
  <2>22. CASE Broadcast
    <3>2. UNCHANGED section
      BY <2>22 DEF Broadcast, step
    <3>3. UNCHANGED <<running, asked, early, published, listener>>
      BY <2>22 DEF Broadcast, step, user, config
    <3>4. DataTyped'
      <4>1. sent' \in {sent, Append(sent, "BUGREPORT_FINISHED"),
                         Append(sent, "REMOTE_BUGREPORT_FINISHED")}
        BY <2>22 DEF Broadcast
      <4>2. sent' \in Seq(Broadcasts)
        <5>1. sent \in Seq(Broadcasts)
          BY DEF DataTyped
        <5>2. {"BUGREPORT_STARTED", "BUGREPORT_FINISHED", "REMOTE_BUGREPORT_FINISHED"} \subseteq Broadcasts
          BY DEF Broadcasts
        <5> QED
          BY <4>1, <5>1, <5>2, AppendTyped
      <4>3. /\ pc' \in {"saved", "crashed"}
            /\ UNCHANGED <<status, path, files, shared, heard, control, consent, seen, now, wake,
                           flow, opts>>
        BY <2>22 DEF Broadcast, user, config
      <4> QED
        BY <4>2, <4>3 DEF DataTyped
    <3> QED
      BY <3>2, <3>3, <3>4 DEF SectionTyped, SwitchesTyped
  <2>23. CASE ReturnFromRunInternal
    <3>2. UNCHANGED section
      BY <2>23 DEF ReturnFromRunInternal, step
    <3>3. UNCHANGED <<running, asked, early, published, listener>>
      BY <2>23 DEF ReturnFromRunInternal, step, user, config
    <3>4. DataTyped'
      BY <2>23 DEF DataTyped, state, user, config, ReturnFromRunInternal, Return, RunStatus
    <3> QED
      BY <3>2, <3>3, <3>4 DEF SectionTyped, SwitchesTyped
  <2>24. CASE TellListener
    <3>2. UNCHANGED section
      BY <2>24 DEF TellListener, step
    <3>3. UNCHANGED <<running, asked, early, published, listener>>
      BY <2>24 DEF TellListener, step, user, config
    <3>4. DataTyped'
      BY <2>24 DEF DataTyped, state, user, config, TellListener, Event, RunStatus
    <3> QED
      BY <3>2, <3>3, <3>4 DEF SectionTyped, SwitchesTyped
  <2>25. CASE onReportApproved
    <3>2. UNCHANGED section
      BY <2>25 DEF onReportApproved, Answer, step
    <3>3. UNCHANGED <<running, asked, early, published, listener>>
      BY <2>25 DEF onReportApproved, Answer, step, user, config
    <3>4. DataTyped'
      BY <2>25 DEF DataTyped, state, user, config, onReportApproved, Answer
    <3> QED
      BY <3>2, <3>3, <3>4 DEF SectionTyped, SwitchesTyped
  <2>26. CASE onReportDenied
    <3>2. UNCHANGED section
      BY <2>26 DEF onReportDenied, Answer, step
    <3>3. UNCHANGED <<running, asked, early, published, listener>>
      BY <2>26 DEF onReportDenied, Answer, step, user, config
    <3>4. DataTyped'
      BY <2>26 DEF DataTyped, state, user, config, onReportDenied, Answer
    <3> QED
      BY <3>2, <3>3, <3>4 DEF SectionTyped, SwitchesTyped
  <2>27. CASE setListener
    <3>2. UNCHANGED section
      BY <2>27 DEF setListener, step
    <3>3. SwitchesTyped'
      BY <2>27, Zenon DEF SwitchesTyped, setListener, step, user, config
    <3>4. DataTyped'
      BY <2>27 DEF DataTyped, state, user, config, setListener
    <3> QED
      BY <3>2, <3>3, <3>4 DEF SectionTyped, SwitchesTyped
  <2>28. CASE Tick
    <3>2. UNCHANGED section
      BY <2>28 DEF Tick, step
    <3>3. UNCHANGED <<running, asked, early, published, listener>>
      BY <2>28 DEF Tick, step, user, config
    <3>4. DataTyped'
      BY <2>28, ClockAssumption DEF DataTyped, state, user, config, Tick
    <3> QED
      BY <3>2, <3>3, <3>4 DEF SectionTyped, SwitchesTyped
  <2>29. CASE UNCHANGED vars
    BY <2>29 DEF SectionTyped, SwitchesTyped, DataTyped, vars, step, state, user, config
  <2> QED
    BY <2>1, <2>2, <2>3, <2>4, <2>5, <2>6, <2>7, <2>8, <2>9, <2>10, <2>11, <2>12, <2>13, <2>14,
         <2>15, <2>16, <2>17, <2>18, <2>19, <2>20, <2>21, <2>22, <2>23, <2>24, <2>25, <2>26, <2>27, <2>28, <2>29
    DEF Next, Run, DumpstateDefault
<1> QED
  BY <1>1, <1>2, PTL DEF Spec

----------------------------------------------------------------------------
(* Consent *)

(* The answer the copy works with is the user's, and there is none before  *)
(* the user was asked.                                                     *)
AnswerOK ==
  /\ pc \in {"idle", "run"} => seen = "none" /\ shared = {}
  /\ seen \in {"APPROVED", "DENIED"} => consent = seen

(* A report with nobody's consent is in the internal directory.            *)
ReportKept == files \cap {path, "tmp"} # {}

KeepOK ==
  /\ flow = "api" => "bugreport_fd" \in opts /\ "use_socket" \notin opts
  /\ pc = "idle" => flow = "none"
  /\ pc \in {"idle", "run", "service", "sockets", "prepare"} => files = {}
  /\ pc \in {"screenshot", "redirect", "radio", "default", "finalize"} /\ "zip" \in files
       => path = "zip"
  /\ pc \notin {"returned", "exited"} => status = "none"
  /\ flow = "api" /\ pc \in {"radio", "default", "finalize"} => "tmp" \in files
  /\ flow = "api" /\ pc \in {"copy", "sleep", "decide"} => ReportKept
  /\ flow = "api" /\ pc \in {"copy_screenshot", "finish", "saved"} /\ consent = "UNAVAILABLE"
       => ReportKept
  /\ flow = "api" /\ status = "USER_CONSENT_TIMED_OUT" => ReportKept

ConsentInv == AnswerOK /\ BugreportNeedsConsent

(* The answer the copy acts on is never another than the one the user      *)
(* gave, so a report is copied only with consent.                          *)
THEOREM ConsentInductive == Spec => []ConsentInv
<1>1. Init => ConsentInv
  BY DEF Init, ConsentInv, AnswerOK, BugreportNeedsConsent
<1>2. ConsentInv /\ [Next]_vars => ConsentInv'
  <2> SUFFICES ASSUME ConsentInv, [Next]_vars PROVE ConsentInv'
    OBVIOUS
  <2>1. ASSUME NEW r \in Requests, StartApi(r) PROVE ConsentInv'
    BY <2>1 DEF ConsentInv, AnswerOK, BugreportNeedsConsent, step, state, user, config, StartApi
  <2>2. ASSUME NEW r \in Requests, StartCli(r) PROVE ConsentInv'
    BY <2>2 DEF ConsentInv, AnswerOK, BugreportNeedsConsent, step, state, user, config, StartCli, Return
  <2>3. CASE Begin
    BY <2>3 DEF ConsentInv, AnswerOK, BugreportNeedsConsent, step, state, user, config, Begin,
         Return, MayFail
  <2>4. CASE StartService
    BY <2>4 DEF ConsentInv, AnswerOK, BugreportNeedsConsent, step, state, user, config,
         StartService, MayFail
  <2>5. CASE OpenSockets
    BY <2>5 DEF ConsentInv, AnswerOK, BugreportNeedsConsent, step, state, user, config,
         OpenSockets, Return, MayFail
  <2>6. CASE PrepareToWriteToFile
    BY <2>6 DEF ConsentInv, AnswerOK, BugreportNeedsConsent, step, state, user, config,
         PrepareToWriteToFile, MayFail
  <2>7. CASE EarlyScreenshot
    BY <2>7 DEF ConsentInv, AnswerOK, BugreportNeedsConsent, step, state, user, config,
         EarlyScreenshot, TakeScreenshot, HasScreenshotPath, MayFail
  <2>8. CASE Redirect
    BY <2>8 DEF ConsentInv, AnswerOK, BugreportNeedsConsent, step, state, user, config, Redirect, Return
  <2>9. CASE DumpRadio
    BY <2>9 DEF ConsentInv, AnswerOK, BugreportNeedsConsent, step, state, user, config, DumpRadio
  <2>10. CASE EnterSlow
    BY <2>10 DEF ConsentInv, AnswerOK, BugreportNeedsConsent, step, state, user, config, EnterSlow,
         Return
  <2>11. CASE LeaveSlow
    BY <2>11 DEF ConsentInv, AnswerOK, BugreportNeedsConsent, step, state, user, config, LeaveSlow,
         NextSection, Return
  <2>12. CASE DropRoot
    BY <2>12 DEF ConsentInv, AnswerOK, BugreportNeedsConsent, step, state, user, config, DropRoot,
         NextSection, Return, MayFail
  <2>13. CASE LateScreenshot
    BY <2>13 DEF ConsentInv, AnswerOK, BugreportNeedsConsent, step, state, user, config,
         LateScreenshot, NextSection, TakeScreenshot, HasScreenshotPath, MayFail
  <2>14. CASE DumpRest
    BY <2>14 DEF ConsentInv, AnswerOK, BugreportNeedsConsent, step, state, user, config, DumpRest
  <2>15. CASE FinalizeFile
    BY <2>15 DEF ConsentInv, AnswerOK, BugreportNeedsConsent, step, state, user, config,
         FinalizeFile, MayFail
  <2>16. CASE AwaitConsent
    BY <2>16 DEF ConsentInv, AnswerOK, BugreportNeedsConsent, step, state, user, config, AwaitConsent
  <2>17. CASE WakeUp
    BY <2>17 DEF ConsentInv, AnswerOK, BugreportNeedsConsent, step, state, user, config, WakeUp
  <2>18. CASE Denied
    BY <2>18 DEF ConsentInv, AnswerOK, BugreportNeedsConsent, step, state, user, config, Denied,
         CleanupFiles, HasScreenshotPath, Return
  <2>19. CASE Approved
    BY <2>19 DEF ConsentInv, AnswerOK, BugreportNeedsConsent, step, state, user, config, Approved,
         CopyFileToFd, Return
  <2>20. CASE TimedOut
    BY <2>20 DEF ConsentInv, AnswerOK, BugreportNeedsConsent, step, state, user, config, TimedOut
  <2>21. CASE CopyScreenshot
    BY <2>21 DEF ConsentInv, AnswerOK, BugreportNeedsConsent, step, state, user, config,
         CopyScreenshot, CopyFileToFd
  <2>22. CASE Broadcast
    BY <2>22 DEF ConsentInv, AnswerOK, BugreportNeedsConsent, step, state, user, config, Broadcast
  <2>23. CASE ReturnFromRunInternal
    BY <2>23 DEF ConsentInv, AnswerOK, BugreportNeedsConsent, step, state, user, config,
         ReturnFromRunInternal, Return
  <2>24. CASE TellListener
    BY <2>24 DEF ConsentInv, AnswerOK, BugreportNeedsConsent, step, state, user, config,
         TellListener, Event
  <2>25. CASE onReportApproved
    BY <2>25 DEF ConsentInv, AnswerOK, BugreportNeedsConsent, step, state, user, config,
         onReportApproved, Answer
  <2>26. CASE onReportDenied
    BY <2>26 DEF ConsentInv, AnswerOK, BugreportNeedsConsent, step, state, user, config,
         onReportDenied, Answer
  <2>27. CASE setListener
    BY <2>27 DEF ConsentInv, AnswerOK, BugreportNeedsConsent, step, state, user, config, setListener
  <2>28. CASE Tick
    BY <2>28 DEF ConsentInv, AnswerOK, BugreportNeedsConsent, step, state, user, config, Tick
  <2>29. CASE UNCHANGED vars
    BY <2>29 DEF ConsentInv, AnswerOK, BugreportNeedsConsent, vars, step, state, user, config
  <2> QED
    BY <2>1, <2>2, <2>3, <2>4, <2>5, <2>6, <2>7, <2>8, <2>9, <2>10, <2>11, <2>12, <2>13, <2>14,
         <2>15, <2>16, <2>17, <2>18, <2>19, <2>20, <2>21, <2>22, <2>23, <2>24, <2>25, <2>26, <2>27, <2>28, <2>29
    DEF Next, Run, DumpstateDefault
<1> QED
  BY <1>1, <1>2, PTL DEF Spec

(* The bugreport reaches the caller only with the user's approval.         *)
THEOREM SharedWithConsent == Spec => []BugreportNeedsConsent
<1>1. ConsentInv => BugreportNeedsConsent
  BY DEF ConsentInv
<1> QED
  BY <1>1, ConsentInductive, PTL

(* A report whose consent timed out can be pulled by hand.                 *)
THEOREM TimedOutIsKept == Spec => []KeptForManualRetrieval
<1>1. Init => KeepOK
  BY DEF Init, KeepOK
<1>2. DataTyped /\ AnswerOK /\ KeepOK /\ [Next]_vars => KeepOK'
  <2> SUFFICES ASSUME DataTyped, AnswerOK, KeepOK, [Next]_vars PROVE KeepOK'
    OBVIOUS
  <2> USE DEF KeepOK, ReportKept
  <2>1. ASSUME NEW r \in Requests, StartApi(r) PROVE KeepOK'
    BY <2>1, ApiOptions DEF DataTyped, AnswerOK, step, state, user, config, StartApi
  <2>2. ASSUME NEW r \in Requests, StartCli(r) PROVE KeepOK'
    BY <2>2 DEF DataTyped, AnswerOK, step, state, user, config, StartCli, Return
  <2>3. CASE Begin
    BY <2>3 DEF DataTyped, AnswerOK, Set, OutputToFile, step, state, user, config, Begin, Return, MayFail
  <2>4. CASE StartService
    BY <2>4 DEF DataTyped, AnswerOK, step, state, user, config, StartService, MayFail
  <2>5. CASE OpenSockets
    BY <2>5 DEF DataTyped, AnswerOK, Set, OutputToFile, step, state, user, config, OpenSockets,
         Return, MayFail
  <2>6. CASE PrepareToWriteToFile
    BY <2>6 DEF DataTyped, AnswerOK, step, state, user, config, PrepareToWriteToFile, MayFail
  <2>7. CASE EarlyScreenshot
    <3>1. files' \in {files, files \cup {"png"}}
      BY <2>7 DEF EarlyScreenshot, TakeScreenshot
    <3> QED
      BY <2>7, <3>1 DEF DataTyped, AnswerOK, user, config, EarlyScreenshot
  <2>8. CASE Redirect
    BY <2>8 DEF DataTyped, AnswerOK, Set, OutputToFile, step, state, user, config, Redirect, Return
  <2>9. CASE DumpRadio
    BY <2>9 DEF DataTyped, AnswerOK, step, state, user, config, DumpRadio
  <2>10. CASE EnterSlow
    BY <2>10 DEF DataTyped, AnswerOK, step, state, user, config, EnterSlow, Return
  <2>11. CASE LeaveSlow
    BY <2>11 DEF DataTyped, AnswerOK, step, state, user, config, LeaveSlow, NextSection, Return
  <2>12. CASE DropRoot
    BY <2>12 DEF DataTyped, AnswerOK, step, state, user, config, DropRoot, NextSection, Return, MayFail
  <2>13. CASE LateScreenshot
    <3>1. files' \in {files, files \cup {"png"}}
      BY <2>13 DEF LateScreenshot, TakeScreenshot
    <3> QED
      BY <2>13, <3>1 DEF DataTyped, AnswerOK, user, config, LateScreenshot, NextSection
  <2>14. CASE DumpRest
    BY <2>14 DEF DataTyped, AnswerOK, step, state, user, config, DumpRest
  <2>15. CASE FinalizeFile
    <3>1. CASE flow # "api"
      BY <2>15, <3>1 DEF DataTyped, FinalizeFile, config
    <3>2. CASE flow = "api"
      <4>1. "tmp" \in files /\ OutputToFile /\ pc' = "copy"
        BY <2>15, <3>2 DEF FinalizeFile, Set, OutputToFile
      <4>2. \/ "zip" \in files /\ files' = files \ {"tmp"} /\ path' = path
            \/ path' = "none" /\ files' = files
            \/ path' = "txt" /\ files' = (files \ {"tmp"}) \cup {"txt"}
        BY <2>15, <4>1 DEF FinalizeFile
      <4> QED
        BY <2>15, <3>2, <4>1, <4>2 DEF DataTyped, FinalizeFile, config
    <3> QED
      BY <3>1, <3>2
  <2>16. CASE AwaitConsent
    BY <2>16 DEF DataTyped, AnswerOK, step, state, user, config, AwaitConsent
  <2>17. CASE WakeUp
    BY <2>17 DEF DataTyped, AnswerOK, step, state, user, config, WakeUp
  <2>18. CASE Denied
    BY <2>18 DEF DataTyped, AnswerOK, step, state, user, config, Denied, CleanupFiles,
         HasScreenshotPath, Return
  <2>19. CASE Approved
    BY <2>19 DEF DataTyped, AnswerOK, step, state, user, config, Approved, CopyFileToFd, Return
  <2>20. CASE TimedOut
    BY <2>20 DEF DataTyped, AnswerOK, step, state, user, config, TimedOut
  <2>21. CASE CopyScreenshot
    BY <2>21 DEF DataTyped, AnswerOK, step, state, user, config, CopyScreenshot, CopyFileToFd
  <2>22. CASE Broadcast
    BY <2>22 DEF DataTyped, AnswerOK, step, state, user, config, Broadcast
  <2>23. CASE ReturnFromRunInternal
    BY <2>23 DEF DataTyped, AnswerOK, step, state, user, config, ReturnFromRunInternal, Return
  <2>24. CASE TellListener
    BY <2>24 DEF DataTyped, AnswerOK, step, state, user, config, TellListener, Event
  <2>25. CASE onReportApproved
    BY <2>25 DEF DataTyped, AnswerOK, step, state, user, config, onReportApproved, Answer
  <2>26. CASE onReportDenied
    BY <2>26 DEF DataTyped, AnswerOK, step, state, user, config, onReportDenied, Answer
  <2>27. CASE setListener
    BY <2>27 DEF DataTyped, AnswerOK, step, state, user, config, setListener
  <2>28. CASE Tick
    BY <2>28 DEF DataTyped, AnswerOK, step, state, user, config, Tick
  <2>29. CASE UNCHANGED vars
    BY <2>29 DEF DataTyped, AnswerOK, vars, step, state, user, config
  <2> QED
    BY <2>1, <2>2, <2>3, <2>4, <2>5, <2>6, <2>7, <2>8, <2>9, <2>10, <2>11, <2>12, <2>13, <2>14,
         <2>15, <2>16, <2>17, <2>18, <2>19, <2>20, <2>21, <2>22, <2>23, <2>24, <2>25, <2>26, <2>27, <2>28, <2>29
    DEF Next, Run, DumpstateDefault
<1>3. KeepOK => KeptForManualRetrieval
  BY DEF KeepOK, KeptForManualRetrieval, ReportKept
<1>4. ConsentInv => AnswerOK
  BY DEF ConsentInv
<1>5. TypeOK => DataTyped
  BY DEF TypeOK
<1> QED
  BY <1>1, <1>2, <1>3, <1>4, <1>5, TypeCorrect, ConsentInductive, PTL DEF Spec

(* A line after the first makes a sequence of two.                         *)
LEMMA AppendToOne ==
  ASSUME NEW S, NEW a \in S, NEW b \in S
  PROVE  Append(<<a>>, b) = <<a, b>>
<1>1. PICK s \in Seq(S) : s = <<a>> /\ Len(s) = 1 /\ s[1] = a
  <2>1. <<a>> \in Seq(S)  OBVIOUS
  <2>2. Len(<<a>>) = 1 /\ <<a>>[1] = a  OBVIOUS
  <2> QED  BY <2>1, <2>2
<1>2. PICK t \in Seq(S) : t = Append(s, b) /\ Len(t) = 2 /\ t[1] = a /\ t[2] = b
  <2>1. Append(s, b) \in Seq(S)  OBVIOUS
  <2>2. Len(Append(s, b)) = Len(s) + 1  OBVIOUS
  <2>3. Append(s, b)[Len(s) + 1] = b  OBVIOUS
  <2>4. Append(s, b)[1] = s[1]  BY <1>1
  <2>5. Len(s) + 1 = 2  BY <1>1
  <2> QED  BY <1>1, <2>1, <2>2, <2>3, <2>4, <2>5, Zenon
<1>3. PICK u \in Seq(S) : u = <<a, b>> /\ Len(u) = 2 /\ u[1] = a /\ u[2] = b
  <2>1. <<a, b>> \in Seq(S)  OBVIOUS
  <2>2. Len(<<a, b>>) = 2 /\ <<a, b>>[1] = a /\ <<a, b>>[2] = b  OBVIOUS
  <2> QED  BY <2>1, <2>2
<1>4. t = u
  <2>1. \A p, q \in Seq(S) : Len(p) = 2 /\ Len(q) = 2 /\ p[1] = q[1] /\ p[2] = q[2] => p = q
    OBVIOUS
  <2> QED  BY <1>2, <1>3, <2>1, Zenon
<1> QED  BY <1>1, <1>2, <1>3, <1>4, Zenon

(* What the control socket has been told by when.  Only the command line   *)
(* asks for it, never together with a descriptor to copy the report to, so *)
(* the zip file that OK names is not moved away.                           *)
Fixed == {"screenshot", "redirect", "radio", "default", "finalize"}
ControlInv ==
  /\ Set("bugreport_fd") => ~Set("use_control_socket")
  /\ pc \in {"copy", "sleep", "decide", "copy_screenshot"} => Set("bugreport_fd")
  /\ ~Set("use_control_socket") => control = <<>>
  /\ pc \in {"idle", "run", "service", "sockets", "prepare"} => control = <<>>
  /\ pc \in {"service", "sockets", "prepare"} \cup Fixed /\ Set("use_control_socket")
       => Set("do_zip_file") /\ ~Set("use_socket")
  /\ pc = "prepare" /\ Set("use_control_socket") => Set("do_progress_updates")
  /\ pc \in Fixed /\ Set("use_control_socket") => control = <<"BEGIN">> /\ path = "zip"
  /\ control \in {<<>>, <<"BEGIN">>, <<"BEGIN", "OK">>, <<"BEGIN", "FAIL">>}
  /\ pc \in {"finish", "saved"} /\ Set("use_control_socket") =>
       \/ control = <<"BEGIN", "OK">> /\ path = "zip" /\ "zip" \in files
       \/ control = <<"BEGIN", "FAIL">> /\ path # "zip"

(* bugreportz is told the truth, in order and once.                        *)
THEOREM ControlSocketTold == Spec => []ControlProtocol
<1>1. Init => ControlInv
  BY DEF Init, ControlInv, Set
<1>2. ControlInv /\ [Next]_vars => ControlInv'
  <2> SUFFICES ASSUME ControlInv, [Next]_vars PROVE ControlInv'
    OBVIOUS
  <2> USE DEF ControlInv, Fixed, Set
  <2>1. ASSUME NEW r \in Requests, StartApi(r) PROVE ControlInv'
    BY <2>1, ApiOptions DEF step, state, user, StartApi
  <2>2. ASSUME NEW r \in Requests, StartCli(r) PROVE ControlInv'
    BY <2>2, CliOptions DEF step, user, StartCli, Return
  <2>3. CASE Begin
    BY <2>3 DEF step, config, Begin, Return, ValidateOptions, OutputToFile, MayFail
  <2>4. CASE OpenSockets
    BY <2>4 DEF step, user, OpenSockets, Return, MayFail
  <2>5. CASE PrepareToWriteToFile
    <3>1. CASE ~Set("use_control_socket")
      BY <2>5, <3>1 DEF step, user, config, PrepareToWriteToFile
    <3>2. CASE Set("use_control_socket")
      <4>1. control' = Append(control, "BEGIN") /\ path' = "zip" /\ pc' = "screenshot" /\ control = <<>>
        BY <2>5, <3>2 DEF PrepareToWriteToFile, OutputToFile
      <4>2. Append(<<>>, "BEGIN") = <<"BEGIN">>  OBVIOUS
      <4> QED
        BY <2>5, <3>2, <4>1, <4>2 DEF PrepareToWriteToFile, config
    <3> QED
      BY <3>1, <3>2
  <2>6. CASE FinalizeFile
    <3>1. CASE ~Set("use_control_socket")
      BY <2>6, <3>1 DEF step, user, config, FinalizeFile
    <3>2. CASE Set("use_control_socket")
      <4>1. control = <<"BEGIN">> /\ path = "zip" /\ pc' = "finish" /\ UNCHANGED <<opts, listener>>
        BY <2>6, <3>2 DEF FinalizeFile, config
      <4>2. \/ control' = Append(control, "OK") /\ path' = path /\ "zip" \in files'
            \/ control' = Append(control, "FAIL") /\ path' \in {"none", "txt"}
        BY <2>6, <3>2 DEF FinalizeFile, OutputToFile
      <4>3. \A line \in ControlLines : Append(<<"BEGIN">>, line) = <<"BEGIN", line>>
        BY AppendToOne DEF ControlLines
      <4> QED
        BY <3>2, <4>1, <4>2, <4>3 DEF ControlLines
    <3> QED
      BY <3>1, <3>2
  <2>7. CASE StartService
    BY <2>7 DEF step, state, user, config, StartService, MayFail
  <2>8. CASE EarlyScreenshot
    BY <2>8 DEF step, state, user, config, EarlyScreenshot, TakeScreenshot, HasScreenshotPath, MayFail
  <2>9. CASE Redirect
    BY <2>9 DEF step, state, user, config, Redirect, Return
  <2>10. CASE DumpRadio
    BY <2>10 DEF step, state, user, config, DumpRadio
  <2>11. CASE EnterSlow
    BY <2>11 DEF step, state, user, config, EnterSlow, Return
  <2>12. CASE LeaveSlow
    BY <2>12 DEF step, state, user, config, LeaveSlow, NextSection, Return
  <2>13. CASE DropRoot
    BY <2>13 DEF step, state, user, config, DropRoot, NextSection, Return, MayFail
  <2>14. CASE LateScreenshot
    BY <2>14 DEF step, state, user, config, LateScreenshot, NextSection, TakeScreenshot,
         HasScreenshotPath, MayFail
  <2>15. CASE DumpRest
    BY <2>15 DEF step, state, user, config, DumpRest
  <2>16. CASE AwaitConsent
    BY <2>16 DEF step, state, user, config, AwaitConsent
  <2>17. CASE WakeUp
    BY <2>17 DEF step, state, user, config, WakeUp
  <2>18. CASE Denied
    BY <2>18 DEF step, state, user, config, Denied, CleanupFiles, HasScreenshotPath, Return
  <2>19. CASE Approved
    BY <2>19 DEF step, state, user, config, Approved, CopyFileToFd, Return
  <2>20. CASE TimedOut
    BY <2>20 DEF step, state, user, config, TimedOut
  <2>21. CASE CopyScreenshot
    BY <2>21 DEF step, state, user, config, CopyScreenshot, CopyFileToFd
  <2>22. CASE Broadcast
    BY <2>22 DEF step, state, user, config, Broadcast
  <2>23. CASE ReturnFromRunInternal
    BY <2>23 DEF step, state, user, config, ReturnFromRunInternal, Return
  <2>24. CASE TellListener
    BY <2>24 DEF step, state, user, config, TellListener
  <2>25. CASE onReportApproved
    BY <2>25 DEF step, state, user, config, onReportApproved, Answer
  <2>26. CASE onReportDenied
    BY <2>26 DEF step, state, user, config, onReportDenied, Answer
  <2>27. CASE setListener
    BY <2>27 DEF step, state, user, config, setListener
  <2>28. CASE Tick
    BY <2>28 DEF step, state, user, config, Tick
  <2>29. CASE UNCHANGED vars
    BY <2>29 DEF vars, step, state, user, config
  <2> QED
    BY <2>1, <2>2, <2>3, <2>4, <2>5, <2>6, <2>7, <2>8, <2>9, <2>10, <2>11, <2>12, <2>13, <2>14,
       <2>15, <2>16, <2>17, <2>18, <2>19, <2>20, <2>21, <2>22, <2>23, <2>24, <2>25, <2>26, <2>27,
       <2>28, <2>29
    DEF Next, Run, DumpstateDefault
<1>3. ControlInv => ControlProtocol
  <2>1. Len(<<"BEGIN", "OK">>) = 2 /\ Len(<<"BEGIN", "FAIL">>) = 2
    OBVIOUS
  <2> QED
    BY <2>1 DEF ControlInv, ControlProtocol
<1> QED
  BY <1>1, <1>2, <1>3, PTL DEF Spec

(* Which files a run has made by when, and what a denial leaves.  A caller *)
(* with a descriptor is a listener from the start.                         *)
Ending == {"copy", "sleep", "decide", "copy_screenshot", "finish", "saved"}
LeftInv ==
  /\ Set("bugreport_fd") => listener
  /\ pc \in {"copy", "sleep", "decide", "copy_screenshot"} \/ seen # "none" => Set("bugreport_fd")
  /\ "tmp" \in files => ~Set("use_socket")
  /\ "png" \in files => Set("do_fb") /\ ~Set("use_socket")
  /\ "txt" \in files => path = "txt"
  /\ pc \notin Ending \cup {"returned", "exited", "crashed"} => path # "txt" /\ seen = "none"
  /\ pc \in {"idle", "run", "service", "sockets", "prepare"} => files = {}
  /\ pc \in Ending /\ "tmp" \in files => path = "none"
  /\ pc # "exited" => heard = <<>>
  /\ pc \in {"copy", "sleep", "copy_screenshot", "finish", "saved", "crashed"} => seen # "DENIED"
  /\ pc \in {"returned", "exited"} /\ seen = "DENIED" =>
       status = "USER_CONSENT_DENIED" /\ (path = "zip" => files \subseteq {"log"})
  /\ pc = "exited" /\ seen = "DENIED" => heard = <<"USER_CONSENT_DENIED">>

(* A denied copy leaves nothing but the log, and a run that got to its end *)
(* no temporary file beside its report.                                    *)
THEOREM NothingIsLeft == Spec => []NothingLeftBehind
<1>1. Init => LeftInv
  BY DEF Init, LeftInv, Set, Ending
<1>2. TypeOK /\ LeftInv /\ [Next]_vars => LeftInv'
  <2> SUFFICES ASSUME TypeOK, LeftInv, [Next]_vars PROVE LeftInv'
    OBVIOUS
  <2> USE DEF LeftInv, Ending, Set, OutputToFile
  <2>1. ASSUME NEW r \in Requests, StartApi(r) PROVE LeftInv'
    BY <2>1, ApiOptions DEF step, state, user, StartApi
  <2>2. ASSUME NEW r \in Requests, StartCli(r) PROVE LeftInv'
    BY <2>2, CliOptions DEF step, user, StartCli, Return
  <2>3. CASE Begin
    BY <2>3 DEF step, config, Begin, Return, MayFail
  <2>4. CASE OpenSockets
    BY <2>4 DEF step, user, OpenSockets, Return, MayFail
  <2>5. CASE PrepareToWriteToFile
    <3>1. files' \in {files, files \cup {"zip"}} /\ path' \in {path, "zip"} /\ pc' = "screenshot"
      BY <2>5 DEF PrepareToWriteToFile
    <3> QED
      BY <2>5, <3>1 DEF PrepareToWriteToFile, step, user, config
  <2>6. CASE FinalizeFile
    <3>1. \/ path' = path /\ files' = files /\ "tmp" \notin files
          \/ path' = path /\ files' = files \ {"tmp"}
          \/ path' = "none" /\ files' = files
          \/ path' = "txt" /\ files' = (files \ {"tmp"}) \cup {"txt"}
      BY <2>6 DEF FinalizeFile
    <3>2. pc' = (IF Set("bugreport_fd") THEN "copy" ELSE "finish")
      BY <2>6 DEF FinalizeFile
    <3> QED
      BY <2>6, <3>1, <3>2 DEF FinalizeFile, step, user, config
  <2>7. CASE StartService
    BY <2>7 DEF step, state, user, config, StartService, MayFail
  <2>8. CASE EarlyScreenshot
    <3>1. files' = files \/ (files' = files \cup {"png"} /\ HasScreenshotPath)
      BY <2>8 DEF EarlyScreenshot, TakeScreenshot
    <3> QED
      BY <2>8, <3>1 DEF EarlyScreenshot, HasScreenshotPath, step, user, config
  <2>9. CASE Redirect
    BY <2>9 DEF step, state, user, config, Redirect, Return
  <2>10. CASE DumpRadio
    BY <2>10 DEF step, state, user, config, DumpRadio
  <2>11. CASE EnterSlow
    BY <2>11 DEF step, state, user, config, EnterSlow, Return
  <2>12. CASE LeaveSlow
    BY <2>12 DEF step, state, user, config, LeaveSlow, NextSection, Return
  <2>13. CASE DropRoot
    BY <2>13 DEF step, state, user, config, DropRoot, NextSection, Return, MayFail
  <2>14. CASE LateScreenshot
    <3>1. files' = files \/ (files' = files \cup {"png"} /\ HasScreenshotPath)
      BY <2>14 DEF LateScreenshot, TakeScreenshot
    <3> QED
      BY <2>14, <3>1 DEF LateScreenshot, NextSection, HasScreenshotPath, step, user, config
  <2>15. CASE DumpRest
    BY <2>15 DEF step, state, user, config, DumpRest
  <2>16. CASE AwaitConsent
    BY <2>16 DEF step, state, user, config, AwaitConsent
  <2>17. CASE WakeUp
    BY <2>17 DEF step, state, user, config, WakeUp
  <2>18. CASE Denied
    BY <2>18 DEF TypeOK, DataTyped, step, user, config, Denied, CleanupFiles, HasScreenshotPath, Return
  <2>19. CASE Approved
    BY <2>19 DEF step, state, user, config, Approved, CopyFileToFd, Return
  <2>20. CASE TimedOut
    BY <2>20 DEF step, state, user, config, TimedOut
  <2>21. CASE CopyScreenshot
    BY <2>21 DEF step, state, user, config, CopyScreenshot, CopyFileToFd
  <2>22. CASE Broadcast
    BY <2>22 DEF step, state, user, config, Broadcast
  <2>23. CASE ReturnFromRunInternal
    BY <2>23 DEF step, state, user, config, ReturnFromRunInternal, Return
  <2>24. CASE TellListener
    <3>1. \A e : Append(<<>>, e) = <<e>>
      OBVIOUS
    <3>2. seen = "DENIED" => heard' = <<"USER_CONSENT_DENIED">>
      BY <2>24, <3>1 DEF TellListener, Event
    <3> QED
      BY <2>24, <3>2 DEF TellListener, step, user, config
  <2>25. CASE onReportApproved
    BY <2>25 DEF step, state, user, config, onReportApproved, Answer
  <2>26. CASE onReportDenied
    BY <2>26 DEF step, state, user, config, onReportDenied, Answer
  <2>27. CASE setListener
    BY <2>27 DEF step, state, user, config, setListener
  <2>28. CASE Tick
    BY <2>28 DEF step, state, user, config, Tick
  <2>29. CASE UNCHANGED vars
    BY <2>29 DEF vars, step, state, user, config
  <2> QED
    BY <2>1, <2>2, <2>3, <2>4, <2>5, <2>6, <2>7, <2>8, <2>9, <2>10, <2>11, <2>12, <2>13, <2>14,
       <2>15, <2>16, <2>17, <2>18, <2>19, <2>20, <2>21, <2>22, <2>23, <2>24, <2>25, <2>26, <2>27,
       <2>28, <2>29
    DEF Next, Run, DumpstateDefault
<1>3. LeftInv => NothingLeftBehind
  BY DEF LeftInv, NothingLeftBehind, DeniedCopyLeavesNothing, NoTemporaryLeft, Ending
<1> QED
  BY <1>1, <1>2, <1>3, TypeCorrect, PTL DEF Spec
=============================================================================
