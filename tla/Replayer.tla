------------------------------ MODULE Replayer ------------------------------
(***************************************************************************)
(* surfacereplayer (src/surfacereplayer/replayer): the increments of a     *)
(* trace are replayed by threads, a window of NumThreads ahead of the main *)
(* thread.  A thread sets its increment up, announces itself, waits to be  *)
(* signalled and executes; the main thread signals in the order of the     *)
(* trace.  The two meet at the increment's Event, a state with a condition *)
(* variable of which one waiter at a time is notified.  Buffers of a layer *)
(* are updated by a scheduler thread of the layer.                         *)
(***************************************************************************)
EXTENDS Naturals, Sequences, FiniteSets

CONSTANTS
  Traces,      \* sequences of increments [kind, id, uses]
  Threads,     \* the values of mNumThreads
  MaxSlips     \* bound on failing calls and signals

VARIABLES
  trace, numThreads,
  main,        \* where the main thread is
  index,       \* mIncrementIndex, from 1
  dispatched,  \* increments dispatched so far
  state,       \* increment -> mState of its Event
  asleep,      \* increment -> who waits on its condition variable
  worker,      \* increment -> where its thread is
  layers, displays,  \* mLayers and mDisplays that are not null
  queue, control,    \* layer -> mBufferEvents; the schedulers with a surface control
  manual, untilVSync, hasStopped, stopAt,  \* the manual replay
  injecting,   \* VSync injections in SurfaceFlinger
  slips, failed \* failed: history, a call of a thread has failed

vars == <<trace, numThreads, main, index, dispatched, state, asleep, worker, layers, displays,
          queue, control, manual, untilVSync, hasStopped, stopAt, injecting, slips, failed>>
given == <<trace, numThreads>>
console == <<manual, untilVSync, hasStopped, stopAt>>
surfaces == <<layers, displays, queue, control>>

Increments == 1..Len(trace)
Ids == UNION {{t[i].id : i \in DOMAIN t} : t \in Traces}
Kinds == {"surface", "transaction", "buffer", "vsync", "display", "deletion", "power"}

(* mHasStopped is set only when no time stamp was given, and               *)
(* mWaitingForNextVSync not at all.                                        *)
Init ==
  /\ trace \in Traces /\ numThreads \in Threads
  /\ main = "load" /\ index = 1 /\ dispatched = 0
  /\ state = [i \in Increments |-> "SettingUp"] /\ asleep = [i \in Increments |-> {}]
  /\ worker = [i \in Increments |-> "none"]
  /\ layers = {} /\ displays = {} /\ queue = [l \in Ids |-> <<>>] /\ control = {}
  /\ manual \in BOOLEAN /\ untilVSync \in BOOLEAN /\ stopAt \in {0, 2}
  /\ hasStopped \in IF stopAt = 0 THEN {TRUE} ELSE BOOLEAN
  /\ injecting = FALSE /\ slips = 0 /\ failed = FALSE

Slip == slips < MaxSlips /\ slips' = slips + 1

----------------------------------------------------------------------------
(* Event: waitUntil, and changeState with the notification after it.       *)

FallsAsleep(i, who, s) ==
  /\ state[i] # s /\ who \notin asleep[i] /\ asleep' = [asleep EXCEPT ![i] = @ \cup {who}]
Awake(i, who) == who \notin asleep[i]
NotifyOne(i) ==
  IF asleep[i] = {} THEN UNCHANGED asleep
  ELSE \E who \in asleep[i] : asleep' = [asleep EXCEPT ![i] = @ \ {who}]

----------------------------------------------------------------------------
(* dispatchEvent.  A buffer update goes to the scheduler of the layer,     *)
(* which is made for the first one with the surface control there is.      *)
ControlAtStart(l) == layers \cap {l}
HasScheduler(l) == \E i \in 1..dispatched : trace[i].kind = "buffer" /\ trace[i].id = l

Dispatch(i) ==
  /\ dispatched' = i
  /\ LET inc == trace[i] IN
     /\ worker' = [worker EXCEPT ![i] = IF inc.kind \in Kinds THEN "setup" ELSE @]
     /\ queue' = IF inc.kind = "buffer" THEN [queue EXCEPT ![inc.id] = Append(@, i)] ELSE queue
     /\ control' = IF inc.kind = "buffer" /\ ~HasScheduler(inc.id)
                   THEN control \cup ControlAtStart(inc.id) ELSE control

(* replay: loadSurfaceComposerClient, and initReplay, whose status is not  *)
(* looked at.                                                              *)
Load ==
  /\ main = "load"
  /\ \/ main' = "init" /\ injecting' = TRUE /\ UNCHANGED slips
     \/ Slip /\ main' = "end" /\ UNCHANGED injecting
  /\ UNCHANGED <<given, index, dispatched, state, asleep, worker, surfaces, console, failed>>

LastKnown == dispatched = 0 \/ trace[dispatched].kind \in Kinds
InitReplay ==
  /\ main = "init"
  /\ IF dispatched < numThreads /\ dispatched < Len(trace) /\ LastKnown
     THEN Dispatch(dispatched + 1) /\ UNCHANGED main
     ELSE main' = "loop" /\ UNCHANGED <<dispatched, worker, queue, control>>
  /\ UNCHANGED <<given, index, state, asleep, layers, displays, console, injecting, slips, failed>>

(* The head of the loop, up to waitForConsoleCommand.                      *)
Loop ==
  /\ main = "loop"
  /\ LET stops == ~hasStopped /\ index >= stopAt IN
     \/ /\ index > dispatched /\ main' = "end" /\ injecting' = FALSE
        /\ UNCHANGED <<hasStopped, manual>>
     \/ /\ index <= dispatched
        /\ hasStopped' = (hasStopped \/ stops) /\ manual' = (manual \/ stops)
        /\ main' = IF manual' /\ ~untilVSync THEN "console" ELSE "complete"
        /\ UNCHANGED injecting
  /\ UNCHANGED <<given, index, dispatched, state, asleep, worker, surfaces, untilVSync, stopAt, slips, failed>>

(* The commands n, ni, c, s and q; the others ask again.                   *)
Command(c) ==
  /\ main = "console" /\ main' = IF c = "q" THEN "end" ELSE "complete"
  /\ injecting' = (injecting /\ c # "q")
  /\ untilVSync' = CASE c = "n" -> TRUE [] c = "c" -> FALSE [] OTHER -> untilVSync
  /\ manual' = (manual /\ c \notin {"c", "s"})
  /\ stopAt' = IF c = "s" THEN Len(trace) ELSE stopAt
  /\ hasStopped' = (hasStopped /\ c # "s")
  /\ UNCHANGED <<given, index, dispatched, state, asleep, worker, surfaces, slips, failed>>

(* stopAutoReplayHandler: the first SIGINT stops, the second ends.         *)
Interrupt ==
  /\ main \notin {"load", "end"} /\ Slip /\ manual' = TRUE
  /\ \/ manual /\ main' = "end" /\ injecting' = FALSE
     \/ ~manual /\ UNCHANGED <<main, injecting>>
  /\ UNCHANGED <<given, index, dispatched, state, asleep, worker, surfaces, untilVSync, hasStopped, stopAt, failed>>

----------------------------------------------------------------------------
(* Event::complete, for the event at the front.                            *)
MainOnly == UNCHANGED <<given, worker, surfaces, injecting, slips, failed, dispatched>>

Announced == state[index] = "Waiting"

Complete ==
  /\ main = "complete" /\ Awake(index, "main")
  /\ \/ Announced /\ state' = [state EXCEPT ![index] = "Signaled"] /\ main' = "notify" /\ UNCHANGED asleep
     \/ ~Announced /\ FallsAsleep(index, "main", "Waiting") /\ UNCHANGED <<state, main>>
  /\ MainOnly /\ UNCHANGED <<index, console>>

NotifySignaled ==
  /\ main = "notify" /\ NotifyOne(index) /\ main' = "completing"
  /\ MainOnly /\ UNCHANGED <<index, state, console>>

Completing ==
  /\ main = "completing" /\ Awake(index, "main")
  /\ \/ state[index] = "Running" /\ main' = "advance" /\ UNCHANGED asleep
     \/ FallsAsleep(index, "main", "Running") /\ UNCHANGED main
  /\ MainOnly /\ UNCHANGED <<index, state, console>>

(* The next increment is dispatched; one that is not known ends replay.    *)
Advance ==
  /\ main = "advance" /\ index' = index + 1
  /\ untilVSync' = (untilVSync /\ trace[index].kind # "vsync")
  /\ IF index + numThreads <= Len(trace)
     THEN /\ Dispatch(index + numThreads)
          /\ IF trace[index + numThreads].kind \in Kinds
             THEN main' = "loop" /\ UNCHANGED injecting
             ELSE main' = "end" /\ injecting' = FALSE
     ELSE main' = "loop" /\ UNCHANGED <<dispatched, worker, queue, control, injecting>>
  /\ UNCHANGED <<given, state, asleep, layers, displays, manual, hasStopped, stopAt, slips, failed>>

----------------------------------------------------------------------------
(* The threads of the increments.                                          *)
Step(i, from, to) == worker[i] = from /\ worker' = [worker EXCEPT ![i] = to]
WorkerOnly == UNCHANGED <<given, main, index, dispatched, console, injecting>>

(* A transaction waits for the layers and displays it changes; a scheduler *)
(* for its surface control, and takes its updates one after another.       *)
IsReady(i) ==
  CASE trace[i].kind = "transaction" -> trace[i].uses \subseteq layers \cup displays
    [] trace[i].kind = "buffer" -> Head(queue[trace[i].id]) = i /\ trace[i].id \in control
    [] OTHER -> TRUE

(* fillSurface returns when it cannot lock the buffer.                     *)
SetUp(i) ==
  /\ worker[i] = "setup" /\ IsReady(i)
  /\ \/ Step(i, "setup", "announce") /\ UNCHANGED <<queue, slips, failed>>
     \/ /\ trace[i].kind = "buffer" /\ Slip /\ failed' = TRUE /\ Step(i, "setup", "over")
        /\ queue' = [queue EXCEPT ![trace[i].id] = Tail(@)]
  /\ WorkerOnly /\ UNCHANGED <<state, asleep, layers, displays, control>>

(* readyToExecute.                                                         *)
Announce(i) ==
  /\ Step(i, "announce", "notify") /\ state' = [state EXCEPT ![i] = "Waiting"]
  /\ WorkerOnly /\ UNCHANGED <<asleep, surfaces, slips, failed>>

NotifyWaiting(i) ==
  /\ Step(i, "notify", "await") /\ NotifyOne(i)
  /\ WorkerOnly /\ UNCHANGED <<state, surfaces, slips, failed>>

(* Mutant: the thread does not wait for its turn.                          *)
HeldByNone(i) == TRUE
Released(i) == state[i] = "Signaled"

Await(i) ==
  /\ worker[i] = "await" /\ Awake(i, "worker")
  /\ \/ /\ Released(i) /\ state' = [state EXCEPT ![i] = "Running"]
        /\ Step(i, "await", "running") /\ UNCHANGED asleep
     \/ FallsAsleep(i, "worker", "Signaled") /\ UNCHANGED <<worker, state>>
  /\ WorkerOnly /\ UNCHANGED <<surfaces, slips, failed>>

NotifyRunning(i) ==
  /\ Step(i, "running", "execute") /\ NotifyOne(i)
  /\ WorkerOnly /\ UNCHANGED <<state, surfaces, slips, failed>>

(* What is executed; a surface may not be created.                         *)
Execute(i) ==
  /\ Step(i, "execute", "over")
  /\ LET inc == trace[i] IN
     \/ /\ layers' = IF inc.kind = "surface" THEN layers \cup {inc.id} ELSE layers
        /\ control' = IF inc.kind = "surface" /\ HasScheduler(inc.id) THEN control \cup {inc.id} ELSE control
        /\ displays' = CASE inc.kind = "display" -> displays \cup {inc.id}
                         [] inc.kind = "deletion" -> displays \ {inc.id}
                         [] OTHER -> displays
        /\ queue' = IF inc.kind = "buffer" THEN [queue EXCEPT ![inc.id] = Tail(@)] ELSE queue
        /\ UNCHANGED <<slips, failed>>
     \/ inc.kind = "surface" /\ Slip /\ failed' = TRUE /\ UNCHANGED surfaces
  /\ WorkerOnly /\ UNCHANGED <<state, asleep>>

MainThread == Load \/ InitReplay \/ Loop \/ Complete \/ NotifySignaled \/ Completing \/ Advance
Worker(i) ==
  SetUp(i) \/ Announce(i) \/ NotifyWaiting(i) \/ Await(i) \/ NotifyRunning(i) \/ Execute(i)

Next ==
  \/ MainThread \/ Interrupt \/ (\E c \in {"n", "ni", "c", "s", "q"} : Command(c))
  \/ \E i \in Increments : Worker(i)

Spec == Init /\ [][Next]_vars

(* The threads run on; nobody has to type a command.                       *)
FairSpec ==
  Spec /\ WF_vars(MainThread)
       /\ \A i \in UNION {DOMAIN t : t \in Traces} : WF_vars(i \in Increments /\ Worker(i))

----------------------------------------------------------------------------
(* No increment is executed before those that precede it in the trace have *)
(* been started, however many threads are ahead; and replay never leaves   *)
(* VSync injections on.                                                    *)
StartedInOrder ==
  /\ \A i, j \in Increments : i < j /\ state[j] = "Running" => state[i] = "Running"
  /\ main = "end" => ~injecting

(* At the console or at the end; or a call of a thread has failed, or one  *)
(* of the first increments is not known.                                   *)
Settled ==
  main \in {"console", "end"} \/ failed
    \/ \E i \in 1..numThreads : i <= Len(trace) /\ trace[i].kind \notin Kinds

(* With a trace in which everything is created before it is used, replay   *)
(* comes again and again to the console or to its end, unless something    *)
(* fails: the threads and the main thread never wait for each other.       *)
ReplayGoesOn == []<>Settled

----------------------------------------------------------------------------
(* What the proofs rest on.                                                *)

TracesAssumption ==
  /\ \A t \in Traces : t = [i \in 1..Len(t) |-> t[i]] /\ Len(t) \in Nat
  /\ Threads \subseteq Nat /\ MaxSlips \in Nat

TypeOK ==
  /\ main \in {"load", "init", "loop", "console", "complete", "notify", "completing", "advance", "end"}
  /\ trace \in Traces /\ numThreads \in Nat /\ index \in Nat \ {0} /\ dispatched \in 0..Len(trace)
  /\ state \in [Increments -> {"SettingUp", "Waiting", "Signaled", "Running"}]
  /\ worker \in [Increments -> {"none", "setup", "announce", "notify", "await", "running",
                                 "execute", "over"}]

(* The state of an event follows its thread.                               *)
ThreadAndEvent ==
  \A i \in Increments :
    /\ worker[i] \in {"none", "setup", "announce"} => state[i] = "SettingUp"
    /\ worker[i] \in {"notify", "await"} => state[i] \in {"Waiting", "Signaled"}
    /\ worker[i] \in {"running", "execute"} => state[i] = "Running"
    /\ i > dispatched => worker[i] = "none"

(* The increments before the one at the front are running; only the one at *)
(* the front is signalled.                                                 *)
InTurn ==
  /\ \A i, j \in Increments : i < j /\ state[j] \in {"Signaled", "Running"} => state[i] = "Running"
  /\ main # "end" =>
       /\ dispatched < index + numThreads
       /\ \A i \in Increments : i < index => state[i] = "Running"
       /\ main \in {"complete", "notify", "completing", "advance", "console"} => index <= dispatched
       /\ main = "advance" => state[index] = "Running"

NotInjecting == main \in {"load", "end"} => ~injecting

Inv == TypeOK /\ ThreadAndEvent /\ InTurn /\ NotInjecting
=============================================================================
