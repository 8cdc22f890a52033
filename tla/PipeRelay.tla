----------------------------- MODULE PipeRelay -----------------------------
(***************************************************************************)
(* `lshal debug' (src/lshal/DebugCommand.cpp, Lshal.cpp, PipeRelay.cpp): a *)
(* HAL writes what debug() prints into a pipe, and a thread of lshal       *)
(* relays it.  When debug() has returned, lshal closes its own end, tells  *)
(* the thread and joins it; the HAL may keep its end open.                 *)
(***************************************************************************)
EXTENDS Naturals, FiniteSets

CONSTANTS
  Capacity,   \* of the pipe
  MaxSlips

VARIABLES
  main,       \* where the command is
  status,
  writers,    \* who has the end open that is written to
  pipe,       \* chunks in the pipe
  owed,       \* history: those of them that were written before debug() returned
  relay,      \* the relay thread
  finished,   \* mFinished
  slips

vars == <<main, status, writers, pipe, owed, relay, finished, slips>>

Init ==
  /\ main = "get" /\ status = "ok" /\ writers = {}
  /\ pipe = 0 /\ owed = 0
  /\ relay = "none" /\ finished = FALSE /\ slips = 0

Slip == slips < MaxSlips /\ slips' = slips + 1

----------------------------------------------------------------------------
(* emitDebugInfo: the service may not be found, or be an instance of a     *)
(* parent interface, which -E leaves out.                                  *)
Get ==
  /\ main = "get"
  /\ \/ /\ main' = "debug" /\ writers' = {"lshal", "hal"} /\ relay' = "select"
        /\ UNCHANGED status
     \/ /\ main' = "end" /\ status' \in {"transaction", "no interface", "ok", "io"}
        /\ UNCHANGED <<writers, relay>>
  /\ UNCHANGED <<pipe, owed, finished, slips>>

(* The HAL writes in debug(), or in a thread of its own after that, as     *)
(* long as it likes.                                                       *)
HalWrites ==
  /\ "hal" \in writers /\ pipe < Capacity /\ pipe' = pipe + 1
  /\ UNCHANGED <<main, status, writers, owed, relay, finished, slips>>

DebugReturns ==
  /\ main = "debug" /\ main' = "close" /\ owed' = pipe
  /\ \/ UNCHANGED <<status, writers, slips>>
     \/ "hal" \in writers /\ writers' = writers \ {"hal"} /\ UNCHANGED <<status, slips>>
     \/ "hal" \in writers /\ Slip /\ status' = "transaction" /\ writers' = writers \ {"hal"}
  /\ UNCHANGED <<pipe, relay, finished>>

HalCloses ==
  /\ main # "debug" /\ "hal" \in writers /\ writers' = writers \ {"hal"}
  /\ UNCHANGED <<main, status, pipe, owed, relay, finished, slips>>

(* ~PipeRelay.                                                             *)
CloseFd ==
  /\ main = "close" /\ writers' = writers \ {"lshal"} /\ main' = "tell"
  /\ UNCHANGED <<status, pipe, owed, relay, finished, slips>>

SetFinished ==
  /\ main = "tell" /\ finished' = TRUE /\ main' = "join"
  /\ UNCHANGED <<status, writers, pipe, owed, relay, slips>>

Join ==
  /\ main = "join" /\ relay = "over" /\ main' = "end"
  /\ UNCHANGED <<status, writers, pipe, owed, relay, finished, slips>>

----------------------------------------------------------------------------
(* RelayThread::threadLoop.                                                *)

RelayUnchanged == UNCHANGED <<main, status, writers, finished>>

(* select: something to read, the end of the file, or a second has passed. *)
Select ==
  /\ relay = "select" /\ RelayUnchanged /\ UNCHANGED <<pipe, owed>>
  /\ \/ (pipe > 0 \/ writers = {}) /\ relay' = "ready" /\ UNCHANGED slips
     \/ pipe = 0 /\ writers # {} /\ relay' = "silent" /\ UNCHANGED slips
     \/ Slip /\ relay' = "over"

OverWhenSilent == finished

Silent ==
  /\ relay = "silent" /\ RelayUnchanged /\ UNCHANGED <<pipe, owed, slips>>
  /\ relay' = IF OverWhenSilent THEN "over" ELSE "select"

Read ==
  /\ relay = "ready" /\ RelayUnchanged
  /\ \/ pipe > 0 /\ pipe' = pipe - 1 /\ owed' = (IF owed > 0 THEN owed - 1 ELSE 0)
        /\ relay' = "select" /\ UNCHANGED slips
     \/ pipe = 0 /\ relay' = "over" /\ UNCHANGED <<pipe, owed, slips>>
     \/ Slip /\ relay' = "over" /\ UNCHANGED <<pipe, owed>>

Main == Get \/ CloseFd \/ SetFinished \/ Join
Relay == Select \/ Silent \/ Read
Next == Main \/ Relay \/ HalWrites \/ DebugReturns \/ HalCloses

Spec == Init /\ [][Next]_vars

(* The two threads of lshal run on.  The HAL need not return, close its end *)
(* or stop writing.                                                        *)
FairSpec == Spec /\ WF_vars(Main) /\ WF_vars(Relay)

----------------------------------------------------------------------------
Relaying == main \in {"close", "tell", "join"}

(* Once debug() has returned, lshal ends, also when the HAL keeps the pipe *)
(* open or the relay thread has failed; but not while the HAL goes on      *)
(* writing, since mFinished is looked at only when select times out.       *)
RelayEnds == []<><<HalWrites>>_vars \/ []<>~Relaying

(* When debug() has returned, select() and read() are executed until what  *)
(* the HAL has written is drained.                                         *)
Drained == main = "end" /\ slips = 0 => owed = 0
=============================================================================
