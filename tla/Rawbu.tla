------------------------------- MODULE Rawbu -------------------------------
(***************************************************************************)
(* rawbu (src/rawbu/backup.cpp): backup and restore of /data.  Either stops *)
(* the system; a backup writes the tree to a file, node by node, a restore *)
(* wipes /data and makes the nodes again.  Some directories are left out.  *)
(* Any call may fail, some of them unnoticed: readdir, whose error is taken *)
(* for the end of the directory, and the fclose of a file that is restored. *)
(* The process may be killed between any two calls, and the device may be  *)
(* restarted, after which apps change their files again.                   *)
(*                                                                         *)
(* The tree has a fixed set of places, in /data and in directories of it.  *)
(* What is at a place is Nothing, a version, or Partial for a file that    *)
(* was not copied to its end when it was restored.                         *)
(***************************************************************************)
EXTENDS Integers, Sequences, FiniteSets

CONSTANTS
  Places,       \* the places in /data
  DirOf,        \* place -> the directory it is in, or "/data"
  Dirs, Links,  \* the places of directories, and of what is no regular file
  NoTouch, NoBackup,    \* SKIP_PATHS
  BackupDirs,   \* where the backup file may be: a directory, or "sdcard"
  MaxWrites, MaxCalls, MaxSlips   \* bounds

VARIABLES
  pc,        \* where the process is
  data,      \* /data
  archive,   \* the backup file
  where,     \* the directory the backup file is in
  all,       \* opt_backupAll
  running,   \* whether the system is running
  todo,      \* the places a walk has still to come to; a restore: the nodes left
  writes, calls, slips,
  source,    \* history: what was there when the backup was made
  before,    \* history: what was there when the restore began
  stuck,     \* history: what the restore failed to remove or to write, and went on
  missed     \* history: what the backup did not come to, and went on

vars == <<pc, data, archive, where, all, running, todo, writes, calls, slips, source, before, stuck, missed>>
history == <<source, before, stuck, missed>>

Nothing == 0
Partial == -1
There(p) == IF p = "/data" THEN TRUE ELSE data[p] # Nothing
Above(p) == DirOf[p]

(* The file: how much of the head is there (version, then the option), the *)
(* nodes, the last of which may be cut short, and whether the end is       *)
(* marked.                                                                 *)
NoArchive == [head |-> 0, all |-> FALSE, nodes |-> <<>>, ended |-> FALSE]
Written(a) == {a.nodes[i].place : i \in DOMAIN a.nodes}

Init ==
  /\ pc = "idle" /\ data = [p \in Places |-> 1] /\ archive = NoArchive
  /\ where \in BackupDirs /\ all = FALSE /\ running = TRUE /\ todo = {}
  /\ writes = 0 /\ calls = 0 /\ slips = 0
  /\ source = data /\ before = data /\ stuck = {} /\ missed = {}

Slip == slips < MaxSlips /\ slips' = slips + 1

(* The process ends, and forgets what it held.                             *)
Exits == pc' = "idle" /\ all' = FALSE /\ todo' = {} /\ stuck' = {}

----------------------------------------------------------------------------
(* Apps change, make and delete what is not a directory.                   *)
AppWrites(p) ==
  /\ running /\ pc = "idle" /\ writes < MaxWrites /\ writes' = writes + 1
  /\ p \in Places \ Dirs /\ There(Above(p))
  /\ \E v \in {writes + 2, Nothing} : v # data[p] /\ data' = [data EXCEPT ![p] = v]
  /\ UNCHANGED <<pc, archive, where, all, running, todo, calls, slips, history>>

(* What is in the buffer of the file is lost when the process is killed or *)
(* cannot be flushed.                                                      *)
Torn(a) ==
  {[NoArchive EXCEPT !.head = h, !.all = h = 2 /\ a.all] : h \in 0..a.head}
    \cup {[a EXCEPT !.nodes = SubSeq(@, 1, i), !.ended = FALSE] : i \in DOMAIN a.nodes}
    \cup {[a EXCEPT !.nodes = [SubSeq(@, 1, i) EXCEPT ![i].whole = FALSE], !.ended = FALSE] :
            i \in {j \in DOMAIN a.nodes : a.nodes[j].place \notin Dirs}}

Killed ==
  /\ pc # "idle" /\ Slip /\ Exits
  /\ archive' \in IF pc \in {"save", "end"} THEN Torn(archive) ELSE {archive}
  /\ UNCHANGED <<data, where, running, writes, calls, source, before, missed>>

Restarted ==
  /\ pc = "idle" /\ ~running /\ running' = TRUE
  /\ UNCHANGED <<pc, data, archive, where, all, todo, writes, calls, slips, history>>

----------------------------------------------------------------------------
(* backup_data.  The system is started again whatever comes of it.         *)

Skipped(p) == ~all /\ p \in NoTouch \cup NoBackup

BeginBackup(a) ==
  /\ pc = "idle" /\ calls < MaxCalls /\ calls' = calls + 1
  /\ \/ /\ pc' = "save" /\ running' = FALSE /\ all' = a /\ UNCHANGED slips
        /\ archive' = [NoArchive EXCEPT !.head = 2, !.all = a]
        /\ source' = data /\ missed' = {}
     \/ Slip /\ running' = TRUE /\ UNCHANGED <<pc, all, archive, source, missed>>
  /\ UNCHANGED <<data, where, todo, writes, before, stuck>>

(* backup_dir: a directory, then what is in it, then what is next to it.   *)
(* Only directories and regular files are saved.                           *)
Unsaved ==
  {p \in Places : /\ There(p) /\ p \notin Links /\ ~Skipped(p)
                  /\ p \notin Written(archive) \cup missed
                  /\ Above(p) = "/data" \/ Above(p) \in Written(archive)}
ToSave ==
  {p \in Unsaved : Above(p) = "/data" => \A q \in Unsaved : Above(q) = "/data"}

SaveNode(p) ==
  /\ pc = "save" /\ p \in ToSave
  /\ archive' = [archive EXCEPT !.nodes = Append(@, [place |-> p, value |-> data[p], whole |-> TRUE])]
  /\ UNCHANGED <<pc, data, where, all, running, todo, writes, calls, slips, history>>

(* readdir fails in the directory that is being listed, which is taken for *)
(* its end: the walk goes on above it.                                     *)
ListingBreaks(d) ==
  /\ pc = "save" /\ d \in {Above(p) : p \in ToSave} /\ Slip
  /\ missed' = missed \cup {p \in ToSave : Above(p) = d}
  /\ UNCHANGED <<pc, data, archive, where, all, running, todo, writes, calls, source, before, stuck>>

SaveFails ==
  /\ pc = "save" /\ Slip /\ Exits /\ running' = TRUE
  /\ archive' \in Torn(archive)
  /\ UNCHANGED <<data, where, writes, calls, source, before, missed>>

SaveEnds ==
  /\ pc = "save" /\ ToSave = {} /\ pc' = "end"
  /\ archive' = [archive EXCEPT !.ended = TRUE]
  /\ UNCHANGED <<data, where, all, running, todo, writes, calls, slips, history>>

(* fflush and fsync.                                                       *)
Flush ==
  /\ pc = "end" /\ Exits /\ running' = TRUE
  /\ \/ UNCHANGED <<archive, slips>>
     \/ Slip /\ archive' \in Torn(archive)
  /\ UNCHANGED <<data, where, writes, calls, source, before, missed>>

----------------------------------------------------------------------------
(* restore_data.  The option is that of the backup.                        *)
(* Mutant: the option of the command line, where it is ignored.            *)
OptionGiven(a) == FALSE
OptionOf(a) == a.head = 2 /\ a.all

(* wipe leaves out what is not to be touched; a directory that may not be  *)
(* in the file is emptied and stays.                                       *)
Kept(p, opt) == p \in NoTouch /\ ~opt
Emptied(p, opt) == p \in Dirs /\ (p \in NoBackup \/ (opt /\ p \in NoTouch))
Reached(p, opt) == ~Kept(p, opt) /\ ~Kept(Above(p), opt)

BeginRestore ==
  /\ pc = "idle" /\ calls < MaxCalls /\ calls' = calls + 1
  /\ running' = FALSE /\ before' = data /\ stuck' = {}
  /\ \/ /\ archive.head > 0 /\ pc' = "wipe" /\ all' = OptionOf(archive) /\ UNCHANGED slips
        /\ todo' = {p \in Places : There(p) /\ Reached(p, all')}
     \/ archive.head = 0 /\ UNCHANGED <<pc, todo, all, slips>>
     \/ Slip /\ UNCHANGED <<pc, todo, all>>
  /\ UNCHANGED <<data, archive, where, writes, source, missed>>

(* Nodes go one by one, what is in a directory before it; one that cannot  *)
(* be removed gets a warning, as does one that cannot be looked at, with   *)
(* all that is in it.  The backup file stays, and its directory.           *)
Holds(p) == p = where \/ \E q \in Places : Above(q) = p /\ There(q)
With(p) == {q \in Places : There(q) /\ (q = p \/ Above(q) = p)}

WipeNode(p) ==
  /\ pc = "wipe" /\ p \in todo /\ todo' = todo \ {p}
  /\ \A q \in todo : Above(q) # p
  /\ \/ ~Emptied(p, all) /\ ~Holds(p) /\ data' = [data EXCEPT ![p] = Nothing]
        /\ UNCHANGED <<slips, stuck>>
     \/ (Emptied(p, all) \/ Holds(p)) /\ UNCHANGED <<data, slips, stuck>>
     \/ ~Emptied(p, all) /\ Slip /\ stuck' = stuck \cup {p} /\ UNCHANGED data
  /\ UNCHANGED <<pc, archive, where, all, running, writes, calls, source, before, missed>>

WipeUnseen(p) ==
  /\ pc = "wipe" /\ p \in todo /\ With(p) \subseteq todo /\ Slip
  /\ todo' = todo \ With(p) /\ stuck' = stuck \cup With(p)
  /\ UNCHANGED <<pc, data, archive, where, all, running, writes, calls, source, before, missed>>

(* readdir fails in a directory, and what is left of its listing stays.    *)
LeftIn(d) == IF d = "/data" THEN todo ELSE {p \in todo : Above(p) = d}

WipeBreaks(d) ==
  /\ pc = "wipe" /\ LeftIn(d) # {} /\ Slip
  /\ \A p \in LeftIn(d) : With(p) \subseteq todo
  /\ todo' = todo \ LeftIn(d) /\ stuck' = stuck \cup LeftIn(d)
  /\ UNCHANGED <<pc, data, archive, where, all, running, writes, calls, source, before, missed>>

(* A directory that cannot be opened ends it.                              *)
WipeFails ==
  /\ pc = "wipe" /\ Slip /\ Exits
  /\ UNCHANGED <<data, archive, where, running, writes, calls, source, before, missed>>

WipeEnds ==
  /\ pc = "wipe" /\ todo = {} /\ pc' = "make" /\ todo' = DOMAIN archive.nodes
  /\ UNCHANGED <<data, archive, where, all, running, writes, calls, slips, history>>

(* The next node of the file.  A directory may be there already; one that  *)
(* has gone ends it, as does every failure but that of fclose, with the    *)
(* system left stopped and the node made or not, or in part.               *)
Current == CHOOSE i \in todo : \A j \in todo : i <= j
Possible(p) == There(Above(p))
Unfinished(node) ==
  (IF node.whole THEN {node.value} ELSE {}) \cup (IF node.place \in Dirs THEN {} ELSE {Partial})

MakeNode ==
  /\ pc = "make" /\ todo # {}
  /\ LET node == archive.nodes[Current] IN
     \/ /\ Possible(node.place) /\ node.whole
        /\ data' = [data EXCEPT ![node.place] = node.value]
        /\ todo' = todo \ {Current} /\ UNCHANGED <<pc, all, slips, stuck>>
     \/ /\ Possible(node.place) /\ node.whole /\ node.place \notin Dirs /\ Slip
        /\ data' = [data EXCEPT ![node.place] = Partial] /\ stuck' = stuck \cup {node.place}
        /\ todo' = todo \ {Current} /\ UNCHANGED <<pc, all>>
     \/ ~Possible(node.place) /\ Exits /\ UNCHANGED <<data, slips>>
     \/ /\ Possible(node.place) /\ ~node.whole /\ Exits
        /\ data' = [data EXCEPT ![node.place] = Partial] /\ UNCHANGED slips
     \/ Slip /\ Exits /\ UNCHANGED data
     \/ /\ Possible(node.place) /\ Slip /\ Exits
        /\ \E v \in Unfinished(node) : data' = [data EXCEPT ![node.place] = v]
  /\ UNCHANGED <<archive, where, running, writes, calls, source, before, missed>>

MakeEnds ==
  /\ pc = "make" /\ todo = {}
  /\ \/ archive.ended /\ pc' = "restored" /\ UNCHANGED <<all, todo, stuck>>
     \/ ~archive.ended /\ Exits
  /\ UNCHANGED <<data, archive, where, running, writes, calls, slips, source, before, missed>>

StartSystem ==
  /\ pc = "restored" /\ Exits /\ running' = TRUE
  /\ UNCHANGED <<data, archive, where, writes, calls, slips, source, before, missed>>

Next ==
  \/ (\E p \in Places : AppWrites(p) \/ SaveNode(p) \/ WipeNode(p) \/ WipeUnseen(p))
  \/ (\E d \in Dirs \cup {"/data"} : ListingBreaks(d) \/ WipeBreaks(d))
  \/ Killed \/ Restarted
  \/ (\E a \in BOOLEAN : BeginBackup(a)) \/ SaveFails \/ SaveEnds \/ Flush
  \/ BeginRestore \/ WipeFails \/ WipeEnds \/ MakeNode \/ MakeEnds \/ StartSystem

Spec == Init /\ [][Next]_vars

----------------------------------------------------------------------------
(* A restore that succeeds has brought back what was there when the backup *)
(* was made, whatever was done since, and whatever backups and restores    *)
(* failed in between: regular files and directories are as they were, what *)
(* was not to be touched has not been touched, what was not backed up is   *)
(* empty, and nothing else is left but what could not be removed.  Three   *)
(* failures go unnoticed, and no other: a backup misses what readdir did   *)
(* not list, a wipe likewise leaves it, and a file is cut short when its   *)
(* fclose fails.                                                           *)
Missed(p) == {p, Above(p)} \cap missed # {}

RestoredExactly ==
  pc = "restored" =>
    \A p \in Places :
      IF ~Reached(p, archive.all) \/ (Emptied(p, archive.all) /\ ~archive.all)
      THEN data[p] = before[p]
      ELSE IF Skipped(Above(p)) \/ p \in Links
      THEN data[p] = Nothing \/ p \in stuck
      ELSE \/ data[p] = source[p]
           \/ p \in stuck /\ (source[p] = Nothing \/ Missed(p) \/ data[p] = Partial)
           \/ Missed(p) /\ data[p] = Nothing

----------------------------------------------------------------------------
(* What the proofs rest on.                                                *)

(* The backup file is in a directory of /data, or elsewhere; what is not   *)
(* backed up are directories.                                              *)
PlacesAssumption ==
  /\ "/data" \notin Places \cup NoTouch \cup NoBackup
  /\ Dirs \subseteq Places /\ Links \subseteq Places \ Dirs /\ NoBackup \subseteq Dirs
  /\ \A p \in Places : DirOf[p] = "/data" \/ (DirOf[p] \in Dirs /\ DirOf[DirOf[p]] = "/data")
  /\ \A w \in BackupDirs \cap Places : w \in Dirs /\ DirOf[w] = "/data"

TypeOK ==
  /\ data \in [Places -> Int] /\ source \in [Places -> Int] /\ before \in [Places -> Int]
  /\ where \in BackupDirs /\ writes \in Nat

(* What may be in a file that was made with the option opt.                *)
Saved(p, opt) == opt \/ {p, Above(p)} \cap (NoTouch \cup NoBackup) = {}

(* A backup file holds what was there, each node once, and one with an end *)
(* all of it.                                                              *)
Sound(a) ==
  /\ DOMAIN a = {"head", "all", "nodes", "ended"}
  /\ a.head \in 0..2 /\ (a.all => a.head = 2)
  /\ a.nodes \in Seq([place : Places, value : Int, whole : BOOLEAN])
  /\ \A i \in DOMAIN a.nodes :
       LET node == a.nodes[i] IN
       /\ node.place \notin Links /\ (node.whole \/ node.place \notin Dirs)
       /\ node.value = source[node.place] /\ node.value # Nothing /\ Saved(node.place, a.all)
  /\ \A i, j \in DOMAIN a.nodes : a.nodes[i].place = a.nodes[j].place => i = j
  /\ a.ended => \A p \in Places \ Links :
                  source[p] # Nothing /\ Saved(p, a.all) => p \in Written(a) \/ Missed(p)

(* What is somewhere is in a directory that is there.                      *)
TreeOK == \A p \in Places : data[p] # Nothing => There(Above(p))

(* No directory is made that was not there when the backup was.            *)
DirsKept ==
  \A d \in Dirs :
    /\ source[d] = Nothing => data[d] = Nothing
    /\ data[d] \in {Nothing, 1} /\ source[d] \in {Nothing, 1}

SameOption == all <=> archive.all

Saving == pc \in {"save", "end"} => SameOption /\ data = source

(* What a restore leaves alone, and what it has wiped, but for directories *)
(* that hold something.                                                    *)
LeftAlone ==
  \A p \in Places : ~Reached(p, all) \/ (Emptied(p, all) /\ ~all) => data[p] = before[p]
WipedAt(p) ==
  Reached(p, all) =>
    \/ data[p] = Nothing \/ p \in stuck
    \/ p \in Dirs /\ (Above(p) = "/data" \/ Emptied(p, all))

Wiping ==
  pc = "wipe" =>
    /\ SameOption /\ LeftAlone
    /\ todo \subseteq {p \in Places : Reached(p, all)}
    /\ \A p \in Places \ todo : WipedAt(p)

Making ==
  pc \in {"make", "restored"} =>
    /\ SameOption /\ LeftAlone
    /\ \A p \in Places \ Written(archive) : WipedAt(p)
    /\ todo \subseteq DOMAIN archive.nodes
    /\ \A i \in DOMAIN archive.nodes \ todo :
         LET node == archive.nodes[i] IN
         \/ data[node.place] = node.value
         \/ data[node.place] = Partial /\ node.place \in stuck
    /\ pc = "restored" => todo = {} /\ archive.ended

Inv == TypeOK /\ Sound(archive) /\ TreeOK /\ DirsKept /\ Saving /\ Wiping /\ Making
=============================================================================
