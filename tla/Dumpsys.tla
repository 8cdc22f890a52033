------------------------------ MODULE Dumpsys ------------------------------
(***************************************************************************)
(* dumpsys (src/dumpsys/dumpsys.cpp): for each service in turn a thread    *)
(* that makes the blocking dump() call with the write end of a pipe, while *)
(* the main thread copies the pipe to its output until end of file or a    *)
(* timeout.  A thread that did not finish in time is detached and runs on. *)
(*                                                                         *)
(* The services are the environment: each writes when and as much as it    *)
(* likes, may close its copy of the descriptor early, late or never, and   *)
(* need not return.  A chunk stands for what one read() can take.          *)
(***************************************************************************)
EXTENDS Integers, Sequences

CONSTANTS
  List,        \* the services to be dumped, in order
  Skipped,     \* those named with --skip
  Capacity,    \* chunks a pipe holds
  Timeout,     \* the timeout, in ticks
  Faulty       \* whether pipe(), poll(), read() and write() may fail

(* No service is listed twice: their names are keys of the service manager.*)
ListAssumption ==
  /\ List \in Seq({List[i] : i \in DOMAIN List})
  /\ \A i, j \in DOMAIN List : List[i] = List[j] => i = j
SizesAssumption ==
  /\ Capacity \in Nat \ {0} /\ Timeout \in Nat
  /\ Faulty \in BOOLEAN

Services == {List[i] : i \in DOMAIN List}

VARIABLES
  pc,         \* "next", "poll", "join" or "done"
  turn,       \* the index in List
  left,       \* ticks until the deadline of writeDump
  active,     \* activeThread_: joinable or not
  open,       \* redirectFd_ is open
  thread,     \* per service: "none", "dumping", "returned" or "ended"
  held,       \* the thread has the write end open: remote_end
  copy,       \* the service has a copy of the write end open
  pipe,       \* chunks in the pipe
  uncopied,   \* chunks the service has written that are not in the output
  outcome     \* per service: what became of it

main == <<pc, turn, left, active, open, outcome>>
remote == <<thread, held, copy, pipe, uncopied>>
vars == <<main, remote>>

Current == List[turn]

Init ==
  /\ pc = "next" /\ turn = 1 /\ left = 0 /\ active = FALSE /\ open = FALSE
  /\ thread = [s \in Services |-> "none"]
  /\ held = [s \in Services |-> FALSE]
  /\ copy = [s \in Services |-> FALSE]
  /\ pipe = [s \in Services |-> 0]
  /\ uncopied = [s \in Services |-> 0]
  /\ outcome = [s \in Services |-> "none"]

----------------------------------------------------------------------------
(* The main thread *)

Record(o) == outcome' = [outcome EXCEPT ![Current] = o]

(* --skip; a service that is no longer registered; pipe() fails.           *)
PassOver ==
  /\ pc = "next" /\ turn <= Len(List)
  /\ \/ Current \in Skipped /\ Record("skipped")
     \/ Current \notin Skipped /\ Record("NAME_NOT_FOUND")
     \/ Current \notin Skipped /\ Faulty /\ Record("error")
  /\ turn' = turn + 1
  /\ UNCHANGED <<pc, left, active, open, remote>>

(* The thread holds the write end until the call is over.                  *)
startDumpThread ==
  /\ pc = "next" /\ turn <= Len(List) /\ Current \notin Skipped
  /\ thread' = [thread EXCEPT ![Current] = "dumping"]
  /\ held' = [held EXCEPT ![Current] = TRUE]
  /\ copy' = [copy EXCEPT ![Current] = TRUE]
  /\ active' = TRUE /\ open' = TRUE /\ left' = Timeout /\ pc' = "poll"
  /\ UNCHANGED <<turn, outcome, pipe, uncopied>>

(* writeDump.  poll() says when there is something to read or the last     *)
(* write end is closed; at the deadline it still looks once.               *)
AtEof(s) == pipe[s] = 0 /\ ~copy[s] /\ ~held[s]
Readable(s) == pipe[s] > 0 \/ AtEof(s)

CopyChunk ==
  /\ pc = "poll" /\ pipe[Current] > 0
  /\ \E n \in 1 .. pipe[Current] :
       /\ pipe' = [pipe EXCEPT ![Current] = @ - n]
       /\ uncopied' = [uncopied EXCEPT ![Current] = @ - n]
  /\ UNCHANGED <<main, thread, held, copy>>

(* stopDumpThread: join after success, detach otherwise, and close the     *)
(* read end; then the next service.                                        *)
Detach == active' = FALSE /\ open' = FALSE /\ turn' = turn + 1 /\ pc' = "next"

(* Mutant: a hang-up of the writers is taken for the end of the dump.      *)
MutHangup ==
  /\ pc = "poll" /\ ~copy[Current] /\ ~held[Current]
  /\ pc' = "join" /\ Record("OK")
  /\ UNCHANGED <<turn, left, active, open, remote>>

ReadEof ==
  /\ pc = "poll" /\ AtEof(Current)
  /\ pc' = "join" /\ Record("OK")
  /\ UNCHANGED <<turn, left, active, open, remote>>

(* Mutant: a dump that timed out is joined as well.                        *)
MutJoinAlways ==
  /\ pc = "poll" /\ left = 0 /\ ~Readable(Current)
  /\ Record("TIMED_OUT") /\ pc' = "join"
  /\ UNCHANGED <<turn, left, active, open, remote>>

PollTimesOut ==
  /\ pc = "poll" /\ left = 0 /\ ~Readable(Current)
  /\ Record("TIMED_OUT") /\ Detach
  /\ UNCHANGED <<left, remote>>

(* poll() or read() fails, or write() does after read() took a chunk.      *)
WriteDumpFails ==
  /\ pc = "poll" /\ Faulty
  /\ \/ UNCHANGED pipe
     \/ pipe[Current] > 0 /\ pipe' = [pipe EXCEPT ![Current] = @ - 1]
  /\ Record("error") /\ Detach
  /\ UNCHANGED <<left, thread, held, copy, uncopied>>

Join ==
  /\ pc = "join" /\ thread[Current] = "ended"
  /\ Detach
  /\ UNCHANGED <<left, outcome, remote>>

Finish ==
  /\ pc = "next" /\ turn > Len(List)
  /\ pc' = "done"
  /\ UNCHANGED <<turn, left, active, open, outcome, remote>>

(* RunDumpsysTextByPriority and RunDumpsysProto of dumpstate make the same *)
(* calls, and stop in between when the user denied consent or the section  *)
(* has used up its time.                                                   *)
BreakOff ==
  /\ pc = "next" /\ turn > 1 /\ turn <= Len(List)
  /\ pc' = "done"
  /\ UNCHANGED <<turn, left, active, open, outcome, remote>>

Advance ==
  \/ PassOver \/ startDumpThread \/ CopyChunk \/ ReadEof \/ PollTimesOut \/ Join \/ Finish
Main == Advance \/ WriteDumpFails \/ BreakOff

Tick ==
  /\ pc = "poll" /\ left > 0
  /\ left' = left - 1
  /\ UNCHANGED <<pc, turn, active, open, outcome, remote>>

----------------------------------------------------------------------------
(* The dump threads and the services behind them *)

(* With the read end closed a write fails.                                 *)
ReadEndOpen(s) == open /\ pc \in {"poll", "join"} /\ s = Current

ServiceWrites(s) ==
  /\ copy[s] /\ ReadEndOpen(s) /\ pipe[s] < Capacity
  /\ pipe' = [pipe EXCEPT ![s] = @ + 1]
  /\ uncopied' = [uncopied EXCEPT ![s] = @ + 1]
  /\ UNCHANGED <<main, thread, held, copy>>

ServiceCloses(s) ==
  /\ copy[s]
  /\ copy' = [copy EXCEPT ![s] = FALSE]
  /\ UNCHANGED <<main, thread, held, pipe, uncopied>>

DumpReturns(s) ==
  /\ thread[s] = "dumping"
  /\ thread' = [thread EXCEPT ![s] = "returned"]
  /\ UNCHANGED <<main, held, copy, pipe, uncopied>>

(* remote_end.reset(), then the error message and the end of the thread.   *)
ThreadCloses(s) ==
  /\ thread[s] = "returned" /\ held[s]
  /\ held' = [held EXCEPT ![s] = FALSE]
  /\ UNCHANGED <<main, thread, copy, pipe, uncopied>>

ThreadEnds(s) ==
  /\ thread[s] = "returned" /\ ~held[s]
  /\ thread' = [thread EXCEPT ![s] = "ended"]
  /\ UNCHANGED <<main, held, copy, pipe, uncopied>>

Next ==
  \/ Main \/ Tick
  \/ \E s \in Services : \/ ServiceWrites(s) \/ ServiceCloses(s)
                         \/ DumpReturns(s) \/ ThreadCloses(s) \/ ThreadEnds(s)

Spec == Init /\ [][Next]_vars

(* The main thread and the threads that are out of their call run on, and  *)
(* time passes.  No failure and nothing of the services is counted on.     *)
FairSpec ==
  /\ Spec
  /\ WF_vars(Advance) /\ WF_vars(Tick)
  /\ \A s \in Services : WF_vars(ThreadCloses(s)) /\ WF_vars(ThreadEnds(s))

----------------------------------------------------------------------------
(* Properties *)

(* A dump that is reported complete is: everything the service wrote was   *)
(* copied, also what it wrote just before it returned, and by then neither *)
(* it nor the thread can write any more.                                   *)
CompleteMeansAll ==
  \A s \in Services : outcome[s] = "OK" =>
     uncopied[s] = 0 /\ ~copy[s] /\ thread[s] # "dumping"

(* activeThread_ is never assigned or destroyed while it holds a thread,   *)
(* for which std::thread ends the process.                                 *)
NoThreadLost == pc \in {"next", "done"} => ~active /\ ~open

Done == pc = "done"

(* dumpsys comes to its end, unless a service writes for ever: join()      *)
(* never waits for a service, and one that hangs costs its timeout and no  *)
(* more.                                                                   *)
Terminates == (\E s \in Services : []<><<ServiceWrites(s)>>_vars) \/ <>Done

----------------------------------------------------------------------------
(* What the proofs rest on.                                                *)

TypeOK ==
  /\ pc \in {"next", "poll", "join", "done"} /\ turn \in Nat \ {0} /\ left \in Nat
  /\ thread \in [Services -> {"none", "dumping", "returned", "ended"}]
  /\ DOMAIN held = Services /\ DOMAIN copy = Services
  /\ pipe \in [Services -> Nat] /\ uncopied \in [Services -> Nat]
  /\ outcome \in [Services -> {"none", "skipped", "NAME_NOT_FOUND", "error", "OK", "TIMED_OUT"}]

(* A service whose turn has not come has nothing.                          *)
Untouched(s) ==
  /\ outcome[s] = "none" /\ thread[s] = "none" /\ ~held[s] /\ ~copy[s]
  /\ pipe[s] = 0 /\ uncopied[s] = 0

InTurn ==
  /\ pc \in {"poll", "join"} => turn <= Len(List)
  /\ \A i \in DOMAIN List : i > turn \/ (i = turn /\ pc = "next") => Untouched(List[i])

(* While a dump is copied nothing of it is lost.                           *)
Accounted ==
  pc = "poll" => outcome[Current] = "none" /\ uncopied[Current] = pipe[Current]

(* The thread holds the write end as long as it is in its call, and what   *)
(* is reported complete has nobody left to write more.                     *)
Closed ==
  \A s \in Services :
    /\ thread[s] = "dumping" => held[s]
    /\ outcome[s] = "OK" => uncopied[s] = 0 /\ ~copy[s] /\ ~held[s]

Inv == TypeOK /\ NoThreadLost /\ InTurn /\ Accounted /\ Closed
=============================================================================
