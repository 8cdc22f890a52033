---------------------------- MODULE PartsProofs ----------------------------
(***************************************************************************)
(* The invariants of the components of Parts, for every value of their     *)
(* constants.  Of each component, what its module calls Inv is shown to    *)
(* hold at first and to be kept by every step; the behaviours of Parts are *)
(* those of one component, whose Inv therefore holds throughout.           *)
(***************************************************************************)
EXTENDS Parts, WellFoundedInduction, TLAPS

(* A behaviour stays with its part, and a step of it is one of the         *)
(* component's Next or leaves the component's variables alone.             *)
LEMMA PartStays == [PartsNext]_state => part' = part
BY DEF PartsNext, BinderStep, DumpsysStep, ServiceStep, CacheStep, OtaStep, CommandStep,
       AtraceStep, LshalStep, RelayStep, ReplayerStep, BackupStep, state

(* A step that changes no part leaves every variable alone.                *)
LEMMA SlotsStutter ==
  ASSUME UNCHANGED state
  PROVE  /\ x1' = x1 /\ x2' = x2 /\ x3' = x3 /\ x4' = x4 /\ x5' = x5 /\ x6' = x6 /\ x7' = x7
         /\ x8' = x8 /\ x9' = x9 /\ x10' = x10 /\ x11' = x11 /\ x12' = x12 /\ x13' = x13
         /\ x14' = x14 /\ x15' = x15 /\ x16' = x16 /\ x17' = x17 /\ x18' = x18 /\ x19' = x19
         /\ x20' = x20
BY DEF state, slots, from9, from10, from12, from15, from16, from18, from19

----------------------------------------------------------------------------
(* dumpsys: x1 is pc, x2 turn, x4 active, x5 open, x6 thread, x7 held,     *)
(* x8 copy, x9 pipe, x10 uncopied, x11 outcome.                            *)

(* A list has a length, and its indices go up to it.                       *)
LEMMA DumpsysList ==
  /\ Len(OfDumpsys.list) \in Nat /\ DOMAIN OfDumpsys.list = 1 .. Len(OfDumpsys.list)
  /\ \A i \in 1 .. Len(OfDumpsys.list) : OfDumpsys.list[i] \in DY!Services
  /\ \A i, j \in 1 .. Len(OfDumpsys.list) : OfDumpsys.list[i] = OfDumpsys.list[j] => i = j
  /\ OfDumpsys.timeout \in Nat
<1> DEFINE S == {OfDumpsys.list[i] : i \in DOMAIN OfDumpsys.list}
<1>1. OfDumpsys.list \in Seq(S) /\ OfDumpsys.timeout \in Nat
  BY PartsAssumption DEF DY!ListAssumption, DY!SizesAssumption
<1>2. \A i, j \in DOMAIN OfDumpsys.list : OfDumpsys.list[i] = OfDumpsys.list[j] => i = j
  BY PartsAssumption DEF DY!ListAssumption
<1>3. S = DY!Services
  BY DEF DY!Services
<1> HIDE DEF S
<1>4. Len(OfDumpsys.list) \in Nat /\ DOMAIN OfDumpsys.list = 1 .. Len(OfDumpsys.list)
  BY <1>1
<1> QED
  BY <1>1, <1>2, <1>3, <1>4 DEF S

(* No service has had its turn yet.                                        *)
LEMMA DumpsysInit == DY!Init => DY!Inv
<1> SUFFICES ASSUME DY!Init PROVE DY!Inv
  OBVIOUS
<1>1. DY!TypeOK
  BY DumpsysList DEF DY!Init, DY!TypeOK
<1> QED
  BY <1>1, DumpsysList
     DEF DY!Init, DY!Inv, DY!NoThreadLost, DY!InTurn, DY!Accounted, DY!Closed, DY!Untouched

(* Every step of the main thread, of time, of a dump thread and of a       *)
(* service keeps Inv.                                                      *)
LEMMA DumpsysNext == DY!Inv /\ DY!Next => DY!Inv'
<1> SUFFICES ASSUME DY!TypeOK, DY!NoThreadLost, DY!InTurn, DY!Accounted, DY!Closed, DY!Next
             PROVE  DY!Inv'
  BY DEF DY!Inv
<1> USE DEF DY!Current, DY!main, DY!remote
<1>1. CASE DY!PassOver
  <2>1. DY!TypeOK'
    <3>1. PICK o \in {"skipped", "NAME_NOT_FOUND", "error"} : DY!Record(o)
      BY <1>1 DEF DY!PassOver
    <3>2. x11' \in [DY!Services -> {"none", "skipped", "NAME_NOT_FOUND", "error", "OK", "TIMED_OUT"}]
      BY <3>1 DEF DY!Record, DY!TypeOK
    <3>3. x2 \in Nat \ {0} /\ x2' = x2 + 1
      BY <1>1 DEF DY!PassOver, DY!TypeOK
    <3>4. x2' \in Nat \ {0}
      BY <3>3
    <3> QED
      BY <1>1, <3>2, <3>4 DEF DY!PassOver, DY!TypeOK
  <2>2. DY!NoThreadLost'
    BY <1>1, DumpsysList DEF DY!PassOver, DY!Record, DY!NoThreadLost, DY!TypeOK
  <2>3. DY!InTurn'
    BY <1>1, DumpsysList, SMTT(20) DEF DY!PassOver, DY!Record, DY!InTurn, DY!Untouched, DY!TypeOK
  <2>4. DY!Accounted'
    BY <1>1, DumpsysList
       DEF DY!PassOver, DY!Record, DY!Accounted, DY!InTurn, DY!Untouched, DY!TypeOK
  <2>5. DY!Closed'
    BY <1>1, DumpsysList
       DEF DY!PassOver, DY!Record, DY!Closed, DY!Accounted, DY!InTurn, DY!Untouched, DY!TypeOK
  <2> QED
    BY <2>1, <2>2, <2>3, <2>4, <2>5 DEF DY!Inv
<1>2. CASE DY!startDumpThread
  <2>1. DY!TypeOK'
    BY <1>2, DumpsysList DEF DY!startDumpThread, DY!TypeOK
  <2>2. DY!NoThreadLost'
    BY <1>2, DumpsysList DEF DY!startDumpThread, DY!NoThreadLost, DY!TypeOK
  <2>3. DY!InTurn'
    BY <1>2, DumpsysList DEF DY!startDumpThread, DY!InTurn, DY!Untouched, DY!TypeOK
  <2>4. DY!Accounted'
    BY <1>2, DumpsysList
       DEF DY!startDumpThread, DY!Accounted, DY!InTurn, DY!Untouched, DY!TypeOK
  <2>5. DY!Closed'
    <3>1. x1 = "next" /\ x2 \in DOMAIN OfDumpsys.list
      BY <1>2, DumpsysList DEF DY!startDumpThread, DY!TypeOK
    <3>2. DY!Untouched(OfDumpsys.list[x2])
      BY <3>1 DEF DY!InTurn
    <3> QED
      BY <1>2, <3>2 DEF DY!startDumpThread, DY!Closed, DY!Untouched, DY!TypeOK
  <2> QED
    BY <2>1, <2>2, <2>3, <2>4, <2>5 DEF DY!Inv
<1>3. CASE DY!CopyChunk
  <2>1. DY!TypeOK'
    <3>1. PICK n \in 1 .. x9[OfDumpsys.list[x2]] :
            /\ x9' = [x9 EXCEPT ![OfDumpsys.list[x2]] = @ - n]
            /\ x10' = [x10 EXCEPT ![OfDumpsys.list[x2]] = @ - n]
      BY <1>3 DEF DY!CopyChunk
    <3>2. OfDumpsys.list[x2] \in DY!Services
      BY <1>3, DumpsysList DEF DY!CopyChunk, DY!InTurn, DY!TypeOK
    <3>3. x10[OfDumpsys.list[x2]] = x9[OfDumpsys.list[x2]]
      BY <1>3 DEF DY!CopyChunk, DY!Accounted
    <3>4. x9' \in [DY!Services -> Nat] /\ x10' \in [DY!Services -> Nat]
      BY <3>1, <3>2, <3>3 DEF DY!TypeOK
    <3> QED
      BY <1>3, <3>4 DEF DY!CopyChunk, DY!TypeOK
  <2>2. DY!NoThreadLost'
    BY <1>3, DumpsysList DEF DY!CopyChunk, DY!NoThreadLost, DY!TypeOK
  <2>3. DY!InTurn'
    BY <1>3, DumpsysList DEF DY!CopyChunk, DY!InTurn, DY!Untouched, DY!TypeOK
  <2>4. DY!Accounted'
    BY <1>3, DumpsysList DEF DY!CopyChunk, DY!Accounted, DY!InTurn, DY!Untouched, DY!TypeOK
  <2>5. DY!Closed'
    BY <1>3, DumpsysList
       DEF DY!CopyChunk, DY!Closed, DY!Accounted, DY!InTurn, DY!Untouched, DY!TypeOK
  <2> QED
    BY <2>1, <2>2, <2>3, <2>4, <2>5 DEF DY!Inv
<1>4. CASE DY!ReadEof
  <2>1. DY!TypeOK'
    BY <1>4, DumpsysList DEF DY!ReadEof, DY!AtEof, DY!Record, DY!TypeOK
  <2>2. DY!NoThreadLost'
    BY <1>4, DumpsysList DEF DY!ReadEof, DY!AtEof, DY!Record, DY!NoThreadLost, DY!TypeOK
  <2>3. DY!InTurn'
    BY <1>4, DumpsysList DEF DY!ReadEof, DY!AtEof, DY!Record, DY!InTurn, DY!Untouched, DY!TypeOK
  <2>4. DY!Accounted'
    BY <1>4, DumpsysList
       DEF DY!ReadEof, DY!AtEof, DY!Record, DY!Accounted, DY!InTurn, DY!Untouched, DY!TypeOK
  <2>5. DY!Closed'
    BY <1>4, DumpsysList DEF DY!ReadEof, DY!AtEof, DY!Record, DY!Closed, DY!Accounted,
       DY!InTurn, DY!Untouched, DY!TypeOK
  <2> QED
    BY <2>1, <2>2, <2>3, <2>4, <2>5 DEF DY!Inv
<1>5. CASE DY!PollTimesOut
  <2>1. DY!TypeOK'
    <3>1. x2' \in Nat \ {0}
      BY <1>5 DEF DY!PollTimesOut, DY!Detach, DY!TypeOK
    <3> QED
      BY <1>5, <3>1 DEF DY!PollTimesOut, DY!Record, DY!Detach, DY!TypeOK
  <2>2. DY!NoThreadLost'
    BY <1>5, DumpsysList DEF DY!PollTimesOut, DY!Record, DY!Detach, DY!NoThreadLost, DY!TypeOK
  <2>3. DY!InTurn'
    BY <1>5, DumpsysList
       DEF DY!PollTimesOut, DY!Record, DY!Detach, DY!InTurn, DY!Untouched, DY!TypeOK
  <2>4. DY!Accounted'
    BY <1>5, DumpsysList DEF DY!PollTimesOut, DY!Record, DY!Detach, DY!Accounted, DY!InTurn,
       DY!Untouched, DY!TypeOK
  <2>5. DY!Closed'
    BY <1>5, DumpsysList DEF DY!PollTimesOut, DY!Record, DY!Detach, DY!Closed, DY!Accounted,
       DY!InTurn, DY!Untouched, DY!TypeOK
  <2> QED
    BY <2>1, <2>2, <2>3, <2>4, <2>5 DEF DY!Inv
<1>6. CASE DY!WriteDumpFails
  <2>1. DY!TypeOK'
    <3>1. OfDumpsys.list[x2] \in DY!Services
      BY <1>6, DumpsysList DEF DY!WriteDumpFails, DY!InTurn, DY!TypeOK
    <3>2. x9' \in [DY!Services -> Nat]
      BY <1>6, <3>1 DEF DY!WriteDumpFails, DY!TypeOK
    <3>3. x2' \in Nat \ {0}
      BY <1>6 DEF DY!WriteDumpFails, DY!Detach, DY!TypeOK
    <3> QED
      BY <1>6, <3>2, <3>3 DEF DY!WriteDumpFails, DY!Record, DY!Detach, DY!TypeOK
  <2>2. DY!NoThreadLost'
    BY <1>6, DumpsysList DEF DY!WriteDumpFails, DY!Record, DY!Detach, DY!NoThreadLost, DY!TypeOK
  <2>3. DY!InTurn'
    BY <1>6, DumpsysList, SMTT(20)
       DEF DY!WriteDumpFails, DY!Record, DY!Detach, DY!InTurn, DY!Untouched, DY!TypeOK
  <2>4. DY!Accounted'
    BY <1>6, DumpsysList DEF DY!WriteDumpFails, DY!Record, DY!Detach, DY!Accounted, DY!InTurn,
       DY!Untouched, DY!TypeOK
  <2>5. DY!Closed'
    BY <1>6, DumpsysList DEF DY!WriteDumpFails, DY!Record, DY!Detach, DY!Closed, DY!Accounted,
       DY!InTurn, DY!Untouched, DY!TypeOK
  <2> QED
    BY <2>1, <2>2, <2>3, <2>4, <2>5 DEF DY!Inv
<1>7. CASE DY!Join
  <2>1. DY!TypeOK'
    BY <1>7, DumpsysList DEF DY!Join, DY!Detach, DY!TypeOK
  <2>2. DY!NoThreadLost'
    BY <1>7, DumpsysList DEF DY!Join, DY!Detach, DY!NoThreadLost, DY!TypeOK
  <2>3. DY!InTurn'
    BY <1>7, DumpsysList DEF DY!Join, DY!Detach, DY!InTurn, DY!Untouched, DY!TypeOK
  <2>4. DY!Accounted'
    BY <1>7, DumpsysList
       DEF DY!Join, DY!Detach, DY!Accounted, DY!InTurn, DY!Untouched, DY!TypeOK
  <2>5. DY!Closed'
    BY <1>7, DumpsysList
       DEF DY!Join, DY!Detach, DY!Closed, DY!Accounted, DY!InTurn, DY!Untouched, DY!TypeOK
  <2> QED
    BY <2>1, <2>2, <2>3, <2>4, <2>5 DEF DY!Inv
<1>8. CASE DY!Finish \/ DY!BreakOff \/ DY!Tick
  <2>1. DY!TypeOK'
    BY <1>8, DumpsysList DEF DY!Finish, DY!BreakOff, DY!Tick, DY!TypeOK
  <2>2. DY!NoThreadLost'
    BY <1>8, DumpsysList DEF DY!Finish, DY!BreakOff, DY!Tick, DY!NoThreadLost, DY!TypeOK
  <2>3. DY!InTurn'
    BY <1>8, DumpsysList DEF DY!Finish, DY!BreakOff, DY!Tick, DY!InTurn, DY!Untouched, DY!TypeOK
  <2>4. DY!Accounted'
    BY <1>8, DumpsysList
       DEF DY!Finish, DY!BreakOff, DY!Tick, DY!Accounted, DY!InTurn, DY!Untouched, DY!TypeOK
  <2>5. DY!Closed'
    BY <1>8, DumpsysList DEF DY!Finish, DY!BreakOff, DY!Tick, DY!Closed, DY!Accounted,
       DY!InTurn, DY!Untouched, DY!TypeOK
  <2> QED
    BY <2>1, <2>2, <2>3, <2>4, <2>5 DEF DY!Inv
<1>9. ASSUME NEW s \in DY!Services, DY!ServiceWrites(s) PROVE DY!Inv'
  <2>1. DY!TypeOK'
    BY <1>9 DEF DY!ServiceWrites, DY!ReadEndOpen, DY!TypeOK
  <2>2. DY!NoThreadLost'
    BY <1>9, DumpsysList DEF DY!ServiceWrites, DY!ReadEndOpen, DY!NoThreadLost, DY!TypeOK
  <2>3. DY!InTurn'
    BY <1>9, DumpsysList
       DEF DY!ServiceWrites, DY!ReadEndOpen, DY!InTurn, DY!Untouched, DY!TypeOK
  <2>4. DY!Accounted'
    BY <1>9, DumpsysList
       DEF DY!ServiceWrites, DY!ReadEndOpen, DY!Accounted, DY!InTurn, DY!Untouched, DY!TypeOK
  <2>5. DY!Closed'
    BY <1>9, DumpsysList DEF DY!ServiceWrites, DY!ReadEndOpen, DY!Closed, DY!Accounted,
       DY!InTurn, DY!Untouched, DY!TypeOK
  <2> QED
    BY <2>1, <2>2, <2>3, <2>4, <2>5 DEF DY!Inv
<1>10. ASSUME NEW s \in DY!Services, DY!ServiceCloses(s) PROVE DY!Inv'
  <2>1. DY!TypeOK'
    BY <1>10, DumpsysList DEF DY!ServiceCloses, DY!TypeOK
  <2>2. DY!NoThreadLost'
    BY <1>10, DumpsysList DEF DY!ServiceCloses, DY!NoThreadLost, DY!TypeOK
  <2>3. DY!InTurn'
    BY <1>10, DumpsysList DEF DY!ServiceCloses, DY!InTurn, DY!Untouched, DY!TypeOK
  <2>4. DY!Accounted'
    BY <1>10, DumpsysList DEF DY!ServiceCloses, DY!Accounted, DY!InTurn, DY!Untouched, DY!TypeOK
  <2>5. DY!Closed'
    BY <1>10, DumpsysList
       DEF DY!ServiceCloses, DY!Closed, DY!Accounted, DY!InTurn, DY!Untouched, DY!TypeOK
  <2> QED
    BY <2>1, <2>2, <2>3, <2>4, <2>5 DEF DY!Inv
<1>11. ASSUME NEW s \in DY!Services, DY!DumpReturns(s) PROVE DY!Inv'
  <2>1. DY!TypeOK'
    BY <1>11, DumpsysList DEF DY!DumpReturns, DY!TypeOK
  <2>2. DY!NoThreadLost'
    BY <1>11, DumpsysList DEF DY!DumpReturns, DY!NoThreadLost, DY!TypeOK
  <2>3. DY!InTurn'
    BY <1>11, DumpsysList DEF DY!DumpReturns, DY!InTurn, DY!Untouched, DY!TypeOK
  <2>4. DY!Accounted'
    BY <1>11, DumpsysList DEF DY!DumpReturns, DY!Accounted, DY!InTurn, DY!Untouched, DY!TypeOK
  <2>5. DY!Closed'
    BY <1>11, DumpsysList
       DEF DY!DumpReturns, DY!Closed, DY!Accounted, DY!InTurn, DY!Untouched, DY!TypeOK
  <2> QED
    BY <2>1, <2>2, <2>3, <2>4, <2>5 DEF DY!Inv
<1>12. ASSUME NEW s \in DY!Services, DY!ThreadCloses(s) PROVE DY!Inv'
  <2>1. DY!TypeOK'
    BY <1>12, DumpsysList DEF DY!ThreadCloses, DY!TypeOK
  <2>2. DY!NoThreadLost'
    BY <1>12, DumpsysList DEF DY!ThreadCloses, DY!NoThreadLost, DY!TypeOK
  <2>3. DY!InTurn'
    BY <1>12, DumpsysList DEF DY!ThreadCloses, DY!InTurn, DY!Untouched, DY!TypeOK
  <2>4. DY!Accounted'
    BY <1>12, DumpsysList DEF DY!ThreadCloses, DY!Accounted, DY!InTurn, DY!Untouched, DY!TypeOK
  <2>5. DY!Closed'
    BY <1>12, DumpsysList
       DEF DY!ThreadCloses, DY!Closed, DY!Accounted, DY!InTurn, DY!Untouched, DY!TypeOK
  <2> QED
    BY <2>1, <2>2, <2>3, <2>4, <2>5 DEF DY!Inv
<1>13. ASSUME NEW s \in DY!Services, DY!ThreadEnds(s) PROVE DY!Inv'
  <2>1. DY!TypeOK'
    BY <1>13, DumpsysList DEF DY!ThreadEnds, DY!TypeOK
  <2>2. DY!NoThreadLost'
    BY <1>13, DumpsysList DEF DY!ThreadEnds, DY!NoThreadLost, DY!TypeOK
  <2>3. DY!InTurn'
    BY <1>13, DumpsysList DEF DY!ThreadEnds, DY!InTurn, DY!Untouched, DY!TypeOK
  <2>4. DY!Accounted'
    BY <1>13, DumpsysList DEF DY!ThreadEnds, DY!Accounted, DY!InTurn, DY!Untouched, DY!TypeOK
  <2>5. DY!Closed'
    BY <1>13, DumpsysList
       DEF DY!ThreadEnds, DY!Closed, DY!Accounted, DY!InTurn, DY!Untouched, DY!TypeOK
  <2> QED
    BY <2>1, <2>2, <2>3, <2>4, <2>5 DEF DY!Inv
<1> QED
  BY <1>1, <1>2, <1>3, <1>4, <1>5, <1>6, <1>7, <1>8, <1>9, <1>10, <1>11, <1>12, <1>13
     DEF DY!Next, DY!Main, DY!Advance

(* dumpsys reports a dump complete only when all of it was copied, and     *)
(* never drops a thread, for every list of services, pipe capacity and     *)
(* timeout.                                                                *)
THEOREM DumpsAreComplete == PartsSpec => []DumpComplete
<1> DEFINE I == part = "dumpsys" => DY!Inv
<1>1. PartsInit => I
  BY DumpsysInit DEF PartsInit, OtherInit
<1>2. I /\ [PartsNext]_state => I'
  <2> SUFFICES ASSUME I, [PartsNext]_state, part = "dumpsys" PROVE DY!Inv'
    BY PartStays
  <2>1. DY!Inv
    OBVIOUS
  <2>2. CASE PartsNext
    <3>1. DY!Next
      BY <2>2 DEF PartsNext, BinderStep, DumpsysStep, ServiceStep, CacheStep, OtaStep,
                  CommandStep, AtraceStep, LshalStep, RelayStep, ReplayerStep, BackupStep
    <3> QED
      BY <2>1, <3>1, DumpsysNext
  <2>3. CASE UNCHANGED state
    BY <2>1, <2>3, SlotsStutter
       DEF DY!Inv, DY!TypeOK, DY!NoThreadLost, DY!InTurn, DY!Untouched, DY!Accounted, DY!Closed,
           DY!Current
  <2> QED
    BY <2>2, <2>3
<1>3. I => DumpComplete
  BY DEF DumpComplete, DY!Inv, DY!CompleteMeansAll, DY!Closed
<1> QED
  BY <1>1, <1>2, <1>3, PTL DEF PartsSpec

----------------------------------------------------------------------------
(* dumpstate's service: x1 is alive, x2 services, x3 binder, x4 request,   *)
(* x5 thread, x6 options, x7 listener, x9 heard.                           *)

(* Writing to a sequence of one.                                           *)
LEMMA Booked == ASSUME NEW a, NEW b PROVE [<<a>> EXCEPT ![1] = b] = <<b>>
OBVIOUS

(* Nobody has asked yet.                                                   *)
LEMMA ServiceInit == DS!Init => DS!Inv
BY DEF DS!Init, DS!Inv, DS!TypeOK, DS!FirstKept, DS!HeardOnce

(* Without a mode that publishes a second service, every operation keeps   *)
(* Inv.                                                                    *)
LEMMA ServiceNext ==
  ASSUME DS!OneService
  PROVE  DS!Inv /\ DS!NextUndumped => DS!Inv'
<1> SUFFICES ASSUME DS!TypeOK, DS!FirstKept, DS!HeardOnce, DS!NextUndumped
             PROVE  DS!Inv'
  BY DEF DS!Inv
<1>a. ASSUME NEW c \in OfService.callers, NEW e, DS!Tell(c, e), x9[c] = <<>>
      PROVE  /\ DOMAIN x9' = OfService.callers /\ x9'[c] = <<e>>
             /\ \A d \in OfService.callers : d # c => x9'[d] = x9[d]
  <2>1. Append(<<>>, e) = <<e>>
    OBVIOUS
  <2> QED
    BY <1>a, <2>1 DEF DS!Tell, DS!TypeOK
<1>b. \A c \in OfService.callers : x3[c] # 0 => x3[c] = 1
  BY DEF DS!TypeOK
<1>c. [x2 EXCEPT ![1] = TRUE] = <<TRUE>> /\ (~x2[1] => x2 = <<FALSE>>) /\ <<FALSE>> # <<TRUE>>
  <2>1. x2 = <<FALSE>> \/ x2 = <<TRUE>>
    BY DEF DS!TypeOK
  <2>2. <<TRUE>>[1] = TRUE /\ <<FALSE>>[1] = FALSE
    OBVIOUS
  <2>3. [x2 EXCEPT ![1] = TRUE] = <<TRUE>>
    BY <2>1, Booked, Zenon
  <2> QED
    BY <2>1, <2>2, <2>3, Zenon
<1>d. ASSUME NEW c \in OfService.callers, x4[c] = DS!NoRequest PROVE x9[c] = <<>> /\ x5[c] = "none"
  BY <1>d DEF DS!HeardOnce, DS!FirstKept, DS!TypeOK
<1>1. ASSUME NEW c \in OfService.callers, DS!Lookup(c)
      PROVE  DS!Inv'
  <2>1. DS!TypeOK'
    BY <1>1 DEF DS!Lookup, DS!TypeOK
  <2>2. DS!FirstKept'
    BY <1>1 DEF DS!Lookup, DS!TypeOK, DS!FirstKept
  <2>3. DS!HeardOnce'
    BY <1>1 DEF DS!Lookup, DS!TypeOK, DS!FirstKept, DS!HeardOnce
  <2> QED
    BY <2>1, <2>2, <2>3 DEF DS!Inv
<1>2. ASSUME NEW c \in OfService.callers, NEW r \in DS!Requests, DS!startBugreportRefused(c, r)
      PROVE  DS!Inv'
  <2>1. DS!Calls(c, r) /\ x9[c] = <<>> /\ x5[c] = "none" /\ x2' = x2 /\ x3' = x3 /\ x5' = x5
        /\ x6' = x6 /\ x7' = x7
    BY <1>2, <1>d DEF DS!startBugreportRefused, DS!Calls
  <2>2. /\ DOMAIN x9' = OfService.callers /\ \A d \in OfService.callers : d # c => x9'[d] = x9[d]
        /\ x9'[c] = <<>> \/ (x9'[c] = <<"ANOTHER_REPORT_IN_PROGRESS">> /\ r.listener)
    BY <1>2, <2>1, <1>a DEF DS!startBugreportRefused, DS!TypeOK
  <2>3. r.listener => r # DS!NoRequest
    BY DEF DS!NoRequest
  <2>4. DS!TypeOK'
    BY <2>1, <2>2 DEF DS!Calls, DS!TypeOK
  <2>5. DS!FirstKept'
    BY <2>1 DEF DS!Calls, DS!TypeOK, DS!FirstKept
  <2>6. DS!HeardOnce'
    BY <2>1, <2>2, <2>3 DEF DS!Calls, DS!TypeOK, DS!HeardOnce
  <2> QED
    BY <2>4, <2>5, <2>6 DEF DS!Inv
<1>3. ASSUME NEW c \in OfService.callers, NEW r \in DS!Requests, DS!startBugreportInvalid(c, r)
      PROVE  DS!Inv'
  <2>1. DS!Calls(c, r) /\ x9[c] = <<>> /\ x5[c] = "none" /\ x2' = x2 /\ x3' = x3 /\ x5' = x5
        /\ x6' = x6 /\ x7' = x7
    BY <1>3, <1>d DEF DS!startBugreportInvalid, DS!Calls
  <2>2. /\ DOMAIN x9' = OfService.callers /\ \A d \in OfService.callers : d # c => x9'[d] = x9[d]
        /\ x9'[c] = <<>> \/ (x9'[c] = <<"INVALID_INPUT">> /\ r.listener)
    BY <1>3, <2>1, <1>a DEF DS!startBugreportInvalid, DS!TypeOK
  <2>3. r.listener => r # DS!NoRequest
    BY DEF DS!NoRequest
  <2>4. DS!TypeOK'
    BY <2>1, <2>2 DEF DS!Calls, DS!TypeOK
  <2>5. DS!FirstKept'
    BY <2>1 DEF DS!Calls, DS!TypeOK, DS!FirstKept
  <2>6. DS!HeardOnce'
    BY <2>1, <2>2, <2>3 DEF DS!Calls, DS!TypeOK, DS!HeardOnce
  <2> QED
    BY <2>4, <2>5, <2>6 DEF DS!Inv
<1>4. ASSUME NEW c \in OfService.callers, NEW r \in DS!Requests, DS!startBugreport(c, r)
      PROVE  DS!Inv'
  <2>1. /\ DS!Calls(c, r) /\ x9[c] = <<>> /\ x5[c] = "none" /\ x3' = x3 /\ x6' = c /\ x7' = c
        /\ x2 = <<FALSE>> /\ x2' = <<TRUE>>
    BY <1>4, <1>b, <1>c, <1>d DEF DS!startBugreport, DS!Calls, DS!Busy
  <2>2. r # DS!NoRequest
    BY <1>4 DEF DS!startBugreport, DS!NoRequest
  <2>3. \A d \in OfService.callers : x5[d] = "none"
    BY <2>1, <1>c DEF DS!FirstKept
  <2>4. /\ DOMAIN x9' = OfService.callers /\ \A d \in OfService.callers : d # c => x9'[d] = x9[d]
        /\ \/ x9'[c] = <<>> /\ x5' = [x5 EXCEPT ![c] = "started"]
           \/ x9'[c] = <<"RUNTIME_ERROR">> /\ x5' = x5
    BY <1>4, <2>1, <1>a DEF DS!startBugreport, DS!TypeOK
  <2>5. DS!TypeOK'
    BY <2>1, <2>4 DEF DS!Calls, DS!TypeOK
  <2>6. DS!FirstKept'
    BY <2>1, <2>2, <2>3, <2>4 DEF DS!Calls, DS!TypeOK, DS!FirstKept
  <2>7. DS!HeardOnce'
    BY <2>1, <2>2, <2>3, <2>4 DEF DS!Calls, DS!TypeOK, DS!HeardOnce
  <2> QED
    BY <2>5, <2>6, <2>7 DEF DS!Inv
<1>5. ASSUME NEW c \in OfService.callers, DS!setListener(c) PROVE DS!Inv'
  <2>1. x2' = <<TRUE>>
    BY <1>5, <1>b, <1>c DEF DS!setListener
  <2>2. x7 \in OfService.callers => x7' = x7
    BY <1>5, PartsAssumption DEF DS!setListener, DS!CallersAssumption
  <2>3. DS!TypeOK' /\ DS!HeardOnce'
    BY <1>5, <2>1 DEF DS!setListener, DS!TypeOK, DS!HeardOnce
  <2>4. DS!FirstKept'
    BY <1>5, <2>1, <2>2 DEF DS!setListener, DS!FirstKept
  <2> QED
    BY <2>3, <2>4 DEF DS!Inv
<1>6. ASSUME NEW c \in OfService.callers, DS!RunInternal(c) PROVE DS!Inv'
  <2>1. x6 = c /\ x4[c] \in DS!Requests
    BY <1>6 DEF DS!RunInternal, DS!FirstKept, DS!TypeOK
  <2>2. x4[c].mode \notin DS!StartsService
    BY <2>1 DEF DS!Requests, DS!OneService, DS!StartsService
  <2>3. x2' = x2
    BY <1>6, <2>1, <2>2 DEF DS!RunInternal
  <2>4. DS!TypeOK' /\ DS!FirstKept' /\ DS!HeardOnce'
    BY <1>6, <2>3 DEF DS!RunInternal, DS!TypeOK, DS!FirstKept, DS!HeardOnce
  <2> QED
    BY <2>4 DEF DS!Inv
<1>7. ASSUME NEW c \in OfService.callers, DS!RunTells(c) PROVE DS!Inv'
  <2>1. x7 = c /\ x9[c] = <<>>
    BY <1>7 DEF DS!RunTells, DS!FirstKept, DS!HeardOnce
  <2>2. /\ DOMAIN x9' = OfService.callers /\ x9'[c] = <<"verdict">>
        /\ \A d \in OfService.callers : d # c => x9'[d] = x9[d]
    BY <1>7, <2>1, <1>a DEF DS!RunTells
  <2>3. DS!TypeOK' /\ DS!FirstKept'
    BY <1>7, <2>2 DEF DS!RunTells, DS!TypeOK, DS!FirstKept
  <2>4. DS!HeardOnce'
    BY <1>7, <2>2 DEF DS!RunTells, DS!TypeOK, DS!FirstKept, DS!HeardOnce
  <2> QED
    BY <2>3, <2>4 DEF DS!Inv
<1>8. ASSUME NEW c \in OfService.callers, DS!Exit(c)
      PROVE  DS!Inv'
  <2>1. DS!TypeOK'
    BY <1>8 DEF DS!Exit, DS!TypeOK
  <2>2. DS!FirstKept'
    BY <1>8 DEF DS!Exit, DS!TypeOK, DS!FirstKept
  <2>3. DS!HeardOnce'
    BY <1>8 DEF DS!Exit, DS!TypeOK, DS!FirstKept, DS!HeardOnce
  <2> QED
    BY <2>1, <2>2, <2>3 DEF DS!Inv
<1> QED
  BY <1>1, <1>2, <1>3, <1>4, <1>5, <1>6, <1>7, <1>8
     DEF DS!NextUndumped, DS!StartsReport, DS!Report

(* One report at a time, and its verdict goes to the listener of the       *)
(* request, however many callers there are, as long as none asks for a     *)
(* mode that publishes a second service.                                   *)
THEOREM ReportsOneByOne == DS!OneService => (PartsSpec => []OneReportForItsCaller)
<1> SUFFICES ASSUME DS!OneService PROVE PartsSpec => []OneReportForItsCaller
  OBVIOUS
<1> DEFINE I == part = "service" => DS!Inv
<1>1. PartsInit => I
  BY ServiceInit DEF PartsInit, OtherInit
<1>2. I /\ [PartsNext]_state => I'
  <2> SUFFICES ASSUME I, [PartsNext]_state, part = "service" PROVE DS!Inv'
    BY PartStays
  <2>1. CASE PartsNext
    <3>1. DS!NextUndumped
      BY <2>1 DEF PartsNext, BinderStep, DumpsysStep, ServiceStep, CacheStep, OtaStep,
                  CommandStep, AtraceStep, LshalStep, RelayStep, ReplayerStep, BackupStep
    <3> QED
      BY <3>1, ServiceNext
  <2>2. CASE UNCHANGED state
    BY <2>2, SlotsStutter DEF DS!Inv, DS!TypeOK, DS!FirstKept, DS!HeardOnce
  <2> QED
    BY <2>1, <2>2
<1>3. I => OneReportForItsCaller
  <2> SUFFICES ASSUME DS!Inv PROVE DS!OneReportAtATime /\ DS!VerdictToItsCaller
    BY DEF OneReportForItsCaller
  <2>1. DS!OneReportAtATime
    BY DEF DS!Inv, DS!OneReportAtATime, DS!InProgress, DS!FirstKept
  <2>2. ASSUME NEW c \in OfService.callers, x5[c] # "told"
        PROVE  "verdict" \notin {x9[c][i] : i \in DOMAIN x9[c]}
    BY <2>2 DEF DS!Inv, DS!HeardOnce
  <2>3. DS!VerdictToItsCaller
    BY <2>2 DEF DS!Inv, DS!HeardOnce, DS!VerdictToItsCaller
  <2> QED
    BY <2>1, <2>3
<1> QED
  BY <1>1, <1>2, <1>3, PTL DEF PartsSpec

----------------------------------------------------------------------------
(* otapreopt: x1 is step, x2 left, x4 pkg, x5 request, x6 read, x7 guided, *)
(* x9 image, x10 preloaded, x11 cache, x12 profile, x13 apex, x14 slips,   *)
(* x15 wiping.                                                             *)

(* Before the script starts nothing has been handed out.                   *)
LEMMA OtaInit == OT!Init => OT!Inv
BY DEF OT!Init, OT!Inv, OT!TypeOK, OT!Steps, OT!CacheFits, OT!InUse, OT!RequestUnderstood,
       OT!ApexOfThePackage, OT!InOrderSoFar, OT!InOrder

(* The bits in which the running system sends the flags of a request.      *)
SentBits(r) == {IF r.version = 1 THEN OT!OldBits[f] ELSE OT!NewBit(f) : f \in r.flags}

(* The flags are read as they were meant: the bits of version 1 have one   *)
(* name each, and those of the later versions are today's.                 *)
LEMMA FlagsRead ==
  ASSUME NEW r \in OfOta.requests
  PROVE  /\ OT!ReadFlags(r.version, SentBits(r)) \ {OT!CompactDex} =
              {OT!NewBit(f) : f \in r.flags \cap DOMAIN OT!NewBits} \ {OT!CompactDex}
         /\ r.version < 8 => OT!CompactDex \in OT!ReadFlags(r.version, SentBits(r))
<1> DEFINE Known == {"public", "debuggable", "bootcomplete", "guided"}
<1>1. r.version \in 1..10 /\ r.flags \subseteq IF r.version = 1 THEN DOMAIN OT!OldBits ELSE DOMAIN OT!NewBits
  BY PartsAssumption DEF OT!RequestsAssumption
<1>2. DOMAIN OT!OldBits = {"public", "safemode", "debuggable", "bootcomplete", "guided", "ota"}
  BY DEF OT!OldBits
<1>3. \A f, g \in DOMAIN OT!OldBits : OT!OldBits[f] = OT!OldBits[g] => f = g
  BY DEF OT!OldBits
<1>4. DOMAIN OT!NewBits = {"public", "debuggable", "bootcomplete", "guided", "secondary", "force",
                           "ce", "de", "idle", "hidden", "compact", "image"}
  BY DEF OT!NewBits
<1>5. CASE r.version = 1
  <2>1. Known \cap {g \in DOMAIN OT!OldBits : OT!OldBits[g] \in SentBits(r)} = r.flags \cap Known
    BY <1>1, <1>2, <1>3, <1>5 DEF SentBits
  <2>2. r.flags \cap DOMAIN OT!NewBits = r.flags \cap Known
    BY <1>1, <1>2, <1>4, <1>5
  <2>3. OT!ReadFlags(r.version, SentBits(r)) =
          {OT!NewBit(f) : f \in r.flags \cap DOMAIN OT!NewBits} \cup {OT!CompactDex}
    BY <1>5, <2>1, <2>2 DEF OT!ReadFlags
  <2> QED
    BY <2>3
<1>6. CASE r.version # 1
  <2>1. SentBits(r) = {OT!NewBit(f) : f \in r.flags \cap DOMAIN OT!NewBits}
    BY <1>1, <1>6 DEF SentBits
  <2> QED
    BY <1>1, <1>6, <2>1 DEF OT!ReadFlags
<1> QED
  BY <1>5, <1>6

(* Every version sends the first ten parameters, and the rest have         *)
(* defaults.                                                               *)
LEMMA ParametersRead ==
  ASSUME NEW r \in OfOta.requests
  PROVE  OT!Defaults \cup 0 .. (OT!Expected(r.version) - 1) = OT!Parameters
<1>1. r.version \in 1..10
  BY PartsAssumption DEF OT!RequestsAssumption
<1>2. OT!Expected(r.version) \in 10..16
  BY <1>1 DEF OT!Expected
<1> QED
  BY <1>2 DEF OT!Defaults, OT!Parameters

(* Every step of the script, of otapreopt_chroot and of otapreopt keeps    *)
(* Inv.                                                                    *)
LEMMA OtaNext == OT!Inv /\ OT!Next => OT!Inv'
<1> SUFFICES ASSUME OT!TypeOK, OT!CacheFits, OT!RequestUnderstood, OT!ApexOfThePackage,
                    OT!InOrderSoFar, OT!Next
             PROVE  OT!Inv'
  BY DEF OT!Inv
<1> USE PartsAssumption DEF OT!RequestsAssumption, OT!Steps, OT!Slip, OT!NoSlip, OT!Work
<1>1. ASSUME NEW p \in OfOta.packages, NEW r \in OfOta.requests, OT!NextPackage(p, r)
      PROVE  OT!Inv'
  <2>1. OT!TypeOK'
    BY <1>1 DEF OT!NextPackage, OT!TypeOK
  <2>2. OT!CacheFits'
    BY <1>1 DEF OT!NextPackage, OT!TypeOK, OT!CacheFits, OT!InUse
  <2>3. OT!RequestUnderstood' /\ OT!ApexOfThePackage'
    BY <1>1 DEF OT!NextPackage, OT!RequestUnderstood, OT!ApexOfThePackage
  <2>4. OT!InOrderSoFar'
    BY <1>1 DEF OT!NextPackage, OT!TypeOK, OT!InOrderSoFar, OT!InOrder, OT!Compiled, OT!InUse,
       OT!CacheFits
  <2> QED
    BY <2>1, <2>2, <2>3, <2>4 DEF OT!Inv
<1>2. CASE OT!ScriptEnds
  <2>1. OT!TypeOK'
    BY <1>2 DEF OT!ScriptEnds, OT!TypeOK
  <2>2. OT!CacheFits'
    BY <1>2 DEF OT!ScriptEnds, OT!TypeOK, OT!CacheFits, OT!InUse
  <2>3. OT!RequestUnderstood' /\ OT!ApexOfThePackage'
    BY <1>2 DEF OT!ScriptEnds, OT!RequestUnderstood, OT!ApexOfThePackage
  <2>4. OT!InOrderSoFar'
    BY <1>2 DEF OT!ScriptEnds, OT!TypeOK, OT!InOrderSoFar, OT!InOrder, OT!Compiled, OT!InUse,
       OT!CacheFits
  <2> QED
    BY <2>1, <2>2, <2>3, <2>4 DEF OT!Inv
<1>3. CASE OT!Chroot
  <2>1. OT!TypeOK'
    BY <1>3 DEF OT!Chroot, OT!TypeOK
  <2>2. OT!CacheFits'
    BY <1>3 DEF OT!Chroot, OT!TypeOK, OT!CacheFits, OT!InUse
  <2>3. OT!RequestUnderstood' /\ OT!ApexOfThePackage'
    BY <1>3 DEF OT!Chroot, OT!RequestUnderstood, OT!ApexOfThePackage
  <2>4. OT!InOrderSoFar'
    BY <1>3 DEF OT!Chroot, OT!TypeOK, OT!InOrderSoFar, OT!InOrder, OT!Compiled, OT!InUse,
       OT!CacheFits
  <2> QED
    BY <2>1, <2>2, <2>3, <2>4 DEF OT!Inv
<1>4. CASE OT!ReadArguments
  <2>1. OT!TypeOK'
    BY <1>4 DEF OT!ReadArguments, OT!TypeOK
  <2>2. OT!CacheFits'
    BY <1>4 DEF OT!ReadArguments, OT!TypeOK, OT!CacheFits, OT!InUse
  <2>3. OT!RequestUnderstood' /\ OT!ApexOfThePackage'
    <3>1. x5 \in OfOta.requests /\ x5' = x5
      BY <1>4 DEF OT!ReadArguments, OT!TypeOK
    <3>2. x6'.flags = OT!ReadFlags(x5.version, SentBits(x5))
          /\ x6'.set = OT!Defaults \cup 0 .. (OT!Expected(x5.version) - 1)
      BY <1>4 DEF OT!ReadArguments, SentBits
    <3>3. OT!RequestUnderstood'
      BY <3>1, <3>2, FlagsRead, ParametersRead DEF OT!RequestUnderstood
    <3> QED
      BY <1>4, <3>3 DEF OT!ReadArguments, OT!ApexOfThePackage
  <2>4. OT!InOrderSoFar'
    BY <1>4 DEF OT!ReadArguments, OT!TypeOK, OT!InOrderSoFar, OT!InOrder, OT!Compiled,
       OT!InUse, OT!CacheFits
  <2> QED
    BY <2>1, <2>2, <2>3, <2>4 DEF OT!Inv
<1>5. CASE OT!ReadEnvironment
  <2>1. OT!TypeOK'
    BY <1>5 DEF OT!ReadEnvironment, OT!TypeOK
  <2>2. OT!CacheFits'
    BY <1>5 DEF OT!ReadEnvironment, OT!TypeOK, OT!CacheFits, OT!InUse
  <2>3. OT!RequestUnderstood' /\ OT!ApexOfThePackage'
    BY <1>5 DEF OT!ReadEnvironment, OT!RequestUnderstood, OT!ApexOfThePackage
  <2>4. OT!InOrderSoFar'
    BY <1>5 DEF OT!ReadEnvironment, OT!TypeOK, OT!InOrderSoFar, OT!InOrder, OT!Compiled,
       OT!InUse, OT!CacheFits
  <2> QED
    BY <2>1, <2>2, <2>3, <2>4 DEF OT!Inv
<1>6. CASE OT!BootImage
  <2>1. OT!TypeOK'
    BY <1>6 DEF OT!BootImage, OT!PrepareBootImage, OT!GoodAsItIs, OT!Cleared, OT!TypeOK
  <2>2. OT!CacheFits'
    BY <1>6 DEF OT!BootImage, OT!PrepareBootImage, OT!GoodAsItIs, OT!Cleared, OT!TypeOK,
       OT!CacheFits, OT!InUse
  <2>3. OT!RequestUnderstood' /\ OT!ApexOfThePackage'
    BY <1>6 DEF OT!BootImage, OT!PrepareBootImage, OT!GoodAsItIs, OT!Cleared,
       OT!RequestUnderstood, OT!ApexOfThePackage
  <2>4. OT!InOrderSoFar'
    BY <1>6 DEF OT!BootImage, OT!PrepareBootImage, OT!GoodAsItIs, OT!Cleared, OT!TypeOK,
       OT!InOrderSoFar, OT!InOrder, OT!Compiled, OT!InUse, OT!CacheFits
  <2> QED
    BY <2>1, <2>2, <2>3, <2>4 DEF OT!Inv
<1>7. CASE OT!KilledWiping
  <2>1. OT!TypeOK'
    BY <1>7 DEF OT!KilledWiping, OT!TypeOK
  <2>2. OT!CacheFits'
    BY <1>7 DEF OT!KilledWiping, OT!TypeOK, OT!CacheFits, OT!InUse
  <2>3. OT!RequestUnderstood' /\ OT!ApexOfThePackage'
    BY <1>7 DEF OT!KilledWiping, OT!RequestUnderstood, OT!ApexOfThePackage
  <2>4. OT!InOrderSoFar'
    BY <1>7 DEF OT!KilledWiping, OT!TypeOK, OT!InOrderSoFar, OT!InOrder, OT!Compiled, OT!InUse,
       OT!CacheFits
  <2> QED
    BY <2>1, <2>2, <2>3, <2>4 DEF OT!Inv
<1>8. CASE OT!Skip
  <2>1. OT!TypeOK'
    BY <1>8 DEF OT!Skip, OT!TypeOK
  <2>2. OT!CacheFits'
    BY <1>8 DEF OT!Skip, OT!TypeOK, OT!CacheFits, OT!InUse
  <2>3. OT!RequestUnderstood' /\ OT!ApexOfThePackage'
    BY <1>8 DEF OT!Skip, OT!RequestUnderstood, OT!ApexOfThePackage
  <2>4. OT!InOrderSoFar'
    BY <1>8
       DEF OT!Skip, OT!TypeOK, OT!InOrderSoFar, OT!InOrder, OT!Compiled, OT!InUse, OT!CacheFits
  <2> QED
    BY <2>1, <2>2, <2>3, <2>4 DEF OT!Inv
<1>9. CASE OT!Preopt
  <2>1. OT!TypeOK'
    BY <1>9 DEF OT!Preopt, OT!Dexopt, OT!TypeOK
  <2>2. OT!CacheFits'
    BY <1>9 DEF OT!Preopt, OT!Dexopt, OT!TypeOK, OT!CacheFits, OT!InUse
  <2>3. OT!RequestUnderstood' /\ OT!ApexOfThePackage'
    BY <1>9 DEF OT!Preopt, OT!Dexopt, OT!RequestUnderstood, OT!ApexOfThePackage
  <2>4. OT!InOrderSoFar'
    BY <1>9 DEF OT!Preopt, OT!Dexopt, OT!TypeOK, OT!InOrderSoFar, OT!InOrder, OT!Compiled,
       OT!InUse, OT!CacheFits
  <2> QED
    BY <2>1, <2>2, <2>3, <2>4 DEF OT!Inv
<1>10. CASE OT!Regenerate
  <2>1. OT!TypeOK'
    BY <1>10 DEF OT!Regenerate, OT!PrepareBootImage, OT!GoodAsItIs, OT!Cleared, OT!TypeOK
  <2>2. OT!CacheFits'
    BY <1>10 DEF OT!Regenerate, OT!PrepareBootImage, OT!GoodAsItIs, OT!Cleared, OT!TypeOK,
       OT!CacheFits, OT!InUse
  <2>3. OT!RequestUnderstood' /\ OT!ApexOfThePackage'
    BY <1>10 DEF OT!Regenerate, OT!PrepareBootImage, OT!GoodAsItIs, OT!Cleared,
       OT!RequestUnderstood, OT!ApexOfThePackage
  <2>4. OT!InOrderSoFar'
    BY <1>10 DEF OT!Regenerate, OT!PrepareBootImage, OT!GoodAsItIs, OT!Cleared, OT!TypeOK,
       OT!InOrderSoFar, OT!InOrder, OT!Compiled, OT!InUse, OT!CacheFits
  <2> QED
    BY <2>1, <2>2, <2>3, <2>4 DEF OT!Inv
<1>11. CASE OT!Retry
  <2>1. OT!TypeOK'
    <3>1. x11' \in [OfOta.packages -> {"none", "stale", "fresh"}]
      BY <1>11 DEF OT!Retry, OT!Dexopt, OT!TypeOK
    <3>2. x12' \in [OfOta.packages -> {"good", "bad", "empty"}]
      BY <1>11 DEF OT!Retry, OT!Dexopt, OT!TypeOK
    <3>3. x14' \in Nat /\ x1' \in {"teardown", "downgrade"}
      BY <1>11 DEF OT!Retry, OT!Dexopt, OT!TypeOK
    <3> QED
      BY <1>11, <3>1, <3>2, <3>3 DEF OT!Retry, OT!TypeOK
  <2>2. OT!CacheFits'
    BY <1>11 DEF OT!Retry, OT!Dexopt, OT!TypeOK, OT!CacheFits, OT!InUse
  <2>3. OT!RequestUnderstood' /\ OT!ApexOfThePackage'
    BY <1>11 DEF OT!Retry, OT!Dexopt, OT!RequestUnderstood, OT!ApexOfThePackage
  <2>4. OT!InOrderSoFar'
    BY <1>11 DEF OT!Retry, OT!Dexopt, OT!TypeOK, OT!InOrderSoFar, OT!InOrder, OT!Compiled,
       OT!InUse, OT!CacheFits
  <2> QED
    BY <2>1, <2>2, <2>3, <2>4 DEF OT!Inv
<1>12. CASE OT!Downgrade
  <2>1. OT!TypeOK'
    BY <1>12 DEF OT!Downgrade, OT!TypeOK
  <2>2. OT!CacheFits'
    BY <1>12 DEF OT!Downgrade, OT!TypeOK, OT!CacheFits, OT!InUse
  <2>3. OT!RequestUnderstood' /\ OT!ApexOfThePackage'
    BY <1>12 DEF OT!Downgrade, OT!RequestUnderstood, OT!ApexOfThePackage
  <2>4. OT!InOrderSoFar'
    BY <1>12 DEF OT!Downgrade, OT!TypeOK, OT!InOrderSoFar, OT!InOrder, OT!Compiled, OT!InUse,
       OT!CacheFits
  <2> QED
    BY <2>1, <2>2, <2>3, <2>4 DEF OT!Inv
<1>13. CASE OT!Last
  <2>1. OT!TypeOK'
    <3>1. x11' \in [OfOta.packages -> {"none", "stale", "fresh"}]
      BY <1>13 DEF OT!Last, OT!Dexopt, OT!TypeOK
    <3>2. x12' \in [OfOta.packages -> {"good", "bad", "empty"}]
      BY <1>13 DEF OT!Last, OT!Dexopt, OT!TypeOK
    <3>3. x14' \in Nat /\ x1' = "teardown"
      BY <1>13 DEF OT!Last, OT!Dexopt, OT!TypeOK
    <3> QED
      BY <1>13, <3>1, <3>2, <3>3 DEF OT!Last, OT!TypeOK
  <2>2. OT!CacheFits'
    BY <1>13 DEF OT!Last, OT!Dexopt, OT!TypeOK, OT!CacheFits, OT!InUse
  <2>3. OT!RequestUnderstood' /\ OT!ApexOfThePackage'
    BY <1>13 DEF OT!Last, OT!Dexopt, OT!RequestUnderstood, OT!ApexOfThePackage
  <2>4. OT!InOrderSoFar'
    BY <1>13 DEF OT!Last, OT!Dexopt, OT!TypeOK, OT!InOrderSoFar, OT!InOrder, OT!Compiled,
       OT!InUse, OT!CacheFits
  <2> QED
    BY <2>1, <2>2, <2>3, <2>4 DEF OT!Inv
<1>14. CASE OT!DeactivateApexPackages
  <2>1. OT!TypeOK'
    BY <1>14 DEF OT!DeactivateApexPackages, OT!TypeOK
  <2>2. OT!CacheFits'
    BY <1>14 DEF OT!DeactivateApexPackages, OT!TypeOK, OT!CacheFits, OT!InUse
  <2>3. OT!RequestUnderstood' /\ OT!ApexOfThePackage'
    BY <1>14 DEF OT!DeactivateApexPackages, OT!RequestUnderstood, OT!ApexOfThePackage
  <2>4. OT!InOrderSoFar'
    BY <1>14 DEF OT!DeactivateApexPackages, OT!TypeOK, OT!InOrderSoFar, OT!InOrder,
       OT!Compiled, OT!InUse, OT!CacheFits
  <2> QED
    BY <2>1, <2>2, <2>3, <2>4 DEF OT!Inv
<1> QED
  BY <1>1, <1>2, <1>3, <1>4, <1>5, <1>6, <1>7, <1>8, <1>9, <1>10, <1>11, <1>12, <1>13, <1>14
     DEF OT!Next

(* What otapreopt leaves fits the boot image and is complete when nothing  *)
(* failed, and requests of every version are read as they were meant, for  *)
(* every set of packages and requests.                                     *)
THEOREM UpdatesPrepared == PartsSpec => [](UpdatePrepared /\ RequestUnderstood)
<1> DEFINE I == part = "ota" => OT!Inv
<1>1. PartsInit => I
  BY OtaInit DEF PartsInit, OtherInit
<1>2. I /\ [PartsNext]_state => I'
  <2> SUFFICES ASSUME I, [PartsNext]_state, part = "ota" PROVE OT!Inv'
    BY PartStays
  <2>1. CASE PartsNext
    <3>1. OT!Next
      BY <2>1 DEF PartsNext, BinderStep, DumpsysStep, ServiceStep, CacheStep, OtaStep,
                  CommandStep, AtraceStep, LshalStep, RelayStep, ReplayerStep, BackupStep
    <3> QED
      BY <3>1, OtaNext
  <2>2. CASE UNCHANGED state
    BY <2>2, SlotsStutter
       DEF OT!Inv, OT!TypeOK, OT!CacheFits, OT!InUse, OT!RequestUnderstood, OT!ApexOfThePackage,
           OT!InOrderSoFar, OT!InOrder, OT!Compiled
  <2> QED
    BY <2>1, <2>2
<1>3. I => UpdatePrepared /\ RequestUnderstood
  BY DEF UpdatePrepared, RequestUnderstood, OT!Inv, OT!TypeOK, OT!EveryPackageCompiled,
         OT!ApexReleased, OT!ApexOfThePackage, OT!InOrderSoFar, OT!InOrder, OT!Compiled
<1> QED
  BY <1>1, <1>2, <1>3, PTL DEF PartsSpec

----------------------------------------------------------------------------
(* surfacereplayer: x1 is main, x2 trace, x3 numThreads, x4 index, x5      *)
(* dispatched, x6 state, x8 worker, x17 injecting.                         *)

(* Before the trace is loaded no increment has a thread.                   *)
LEMMA ReplayerInit == RE!Init => RE!Inv
BY PartsAssumption
   DEF RE!Init, RE!Inv, RE!TypeOK, RE!TracesAssumption, RE!ThreadAndEvent, RE!InTurn,
       RE!NotInjecting, RE!Increments

(* Every step of the main thread, of a signal, of the console and of the   *)
(* thread of an increment keeps Inv.                                       *)
LEMMA ReplayerNext == RE!Inv /\ RE!Next => RE!Inv'
<1> SUFFICES ASSUME RE!TypeOK, RE!ThreadAndEvent, RE!InTurn, RE!NotInjecting, RE!Next
             PROVE  RE!Inv'
  BY DEF RE!Inv
<1>a. Len(x2) \in Nat
  BY PartsAssumption DEF RE!TypeOK, RE!TracesAssumption
<1> USE <1>a DEF RE!Increments, RE!given, RE!console, RE!surfaces, RE!MainOnly, RE!WorkerOnly, RE!Step
<1>1. CASE RE!Load
  <2>1. RE!TypeOK'
    BY <1>1 DEF RE!Load, RE!TypeOK
  <2>2. RE!ThreadAndEvent'
    BY <1>1 DEF RE!Load, RE!TypeOK, RE!ThreadAndEvent, RE!InTurn
  <2>3. RE!InTurn'
    BY <1>1 DEF RE!Load, RE!TypeOK, RE!ThreadAndEvent, RE!InTurn
  <2>4. RE!NotInjecting'
    BY <1>1 DEF RE!Load, RE!NotInjecting
  <2> QED
    BY <2>1, <2>2, <2>3, <2>4 DEF RE!Inv
<1>2. CASE RE!InitReplay
  <2>1. RE!TypeOK'
    BY <1>2 DEF RE!InitReplay, RE!Dispatch, RE!TypeOK
  <2>2. RE!ThreadAndEvent'
    BY <1>2 DEF RE!InitReplay, RE!Dispatch, RE!TypeOK, RE!ThreadAndEvent, RE!InTurn
  <2>3. RE!InTurn'
    BY <1>2 DEF RE!InitReplay, RE!Dispatch, RE!TypeOK, RE!ThreadAndEvent, RE!InTurn
  <2>4. RE!NotInjecting'
    BY <1>2 DEF RE!InitReplay, RE!Dispatch, RE!NotInjecting
  <2> QED
    BY <2>1, <2>2, <2>3, <2>4 DEF RE!Inv
<1>3. CASE RE!Loop
  <2>1. RE!TypeOK'
    BY <1>3 DEF RE!Loop, RE!TypeOK
  <2>2. RE!ThreadAndEvent'
    BY <1>3 DEF RE!Loop, RE!TypeOK, RE!ThreadAndEvent, RE!InTurn
  <2>3. RE!InTurn'
    BY <1>3 DEF RE!Loop, RE!TypeOK, RE!ThreadAndEvent, RE!InTurn
  <2>4. RE!NotInjecting'
    BY <1>3 DEF RE!Loop, RE!NotInjecting
  <2> QED
    BY <2>1, <2>2, <2>3, <2>4 DEF RE!Inv
<1>4. CASE RE!Complete
  <2>1. RE!TypeOK'
    BY <1>4 DEF RE!Complete, RE!Announced, RE!TypeOK
  <2>2. RE!ThreadAndEvent'
    BY <1>4 DEF RE!Complete, RE!Announced, RE!TypeOK, RE!ThreadAndEvent, RE!InTurn
  <2>3. RE!InTurn'
    BY <1>4 DEF RE!Complete, RE!Announced, RE!TypeOK, RE!ThreadAndEvent, RE!InTurn
  <2>4. RE!NotInjecting'
    BY <1>4 DEF RE!Complete, RE!Announced, RE!NotInjecting
  <2> QED
    BY <2>1, <2>2, <2>3, <2>4 DEF RE!Inv
<1>5. CASE RE!NotifySignaled
  <2>1. RE!TypeOK'
    BY <1>5 DEF RE!NotifySignaled, RE!TypeOK
  <2>2. RE!ThreadAndEvent'
    BY <1>5 DEF RE!NotifySignaled, RE!TypeOK, RE!ThreadAndEvent, RE!InTurn
  <2>3. RE!InTurn'
    BY <1>5 DEF RE!NotifySignaled, RE!TypeOK, RE!ThreadAndEvent, RE!InTurn
  <2>4. RE!NotInjecting'
    BY <1>5 DEF RE!NotifySignaled, RE!NotInjecting
  <2> QED
    BY <2>1, <2>2, <2>3, <2>4 DEF RE!Inv
<1>6. CASE RE!Completing
  <2>1. RE!TypeOK'
    BY <1>6 DEF RE!Completing, RE!TypeOK
  <2>2. RE!ThreadAndEvent'
    BY <1>6 DEF RE!Completing, RE!TypeOK, RE!ThreadAndEvent, RE!InTurn
  <2>3. RE!InTurn'
    BY <1>6 DEF RE!Completing, RE!TypeOK, RE!ThreadAndEvent, RE!InTurn
  <2>4. RE!NotInjecting'
    BY <1>6 DEF RE!Completing, RE!NotInjecting
  <2> QED
    BY <2>1, <2>2, <2>3, <2>4 DEF RE!Inv
<1>7. CASE RE!Advance
  <2>1. RE!TypeOK'
    BY <1>7 DEF RE!Advance, RE!Dispatch, RE!TypeOK
  <2>2. RE!ThreadAndEvent'
    BY <1>7 DEF RE!Advance, RE!Dispatch, RE!TypeOK, RE!ThreadAndEvent, RE!InTurn
  <2>3. RE!InTurn'
    BY <1>7 DEF RE!Advance, RE!Dispatch, RE!TypeOK, RE!ThreadAndEvent, RE!InTurn
  <2>4. RE!NotInjecting'
    BY <1>7 DEF RE!Advance, RE!Dispatch, RE!NotInjecting
  <2> QED
    BY <2>1, <2>2, <2>3, <2>4 DEF RE!Inv
<1>8. ASSUME NEW c, RE!Command(c) PROVE RE!Inv'
  <2>1. RE!TypeOK'
    BY <1>8 DEF RE!Command, RE!TypeOK
  <2>2. RE!ThreadAndEvent'
    BY <1>8 DEF RE!Command, RE!TypeOK, RE!ThreadAndEvent, RE!InTurn
  <2>3. RE!InTurn'
    BY <1>8 DEF RE!Command, RE!TypeOK, RE!ThreadAndEvent, RE!InTurn
  <2>4. RE!NotInjecting'
    BY <1>8 DEF RE!Command, RE!NotInjecting
  <2> QED
    BY <2>1, <2>2, <2>3, <2>4 DEF RE!Inv
<1>9. CASE RE!Interrupt
  <2>1. RE!TypeOK'
    BY <1>9 DEF RE!Interrupt, RE!TypeOK
  <2>2. RE!ThreadAndEvent'
    BY <1>9 DEF RE!Interrupt, RE!TypeOK, RE!ThreadAndEvent, RE!InTurn
  <2>3. RE!InTurn'
    BY <1>9 DEF RE!Interrupt, RE!TypeOK, RE!ThreadAndEvent, RE!InTurn
  <2>4. RE!NotInjecting'
    BY <1>9 DEF RE!Interrupt, RE!NotInjecting
  <2> QED
    BY <2>1, <2>2, <2>3, <2>4 DEF RE!Inv
<1>10. ASSUME NEW i \in RE!Increments, RE!SetUp(i) PROVE RE!Inv'
  <2>1. RE!TypeOK'
    BY <1>10 DEF RE!SetUp, RE!TypeOK
  <2>2. RE!ThreadAndEvent'
    BY <1>10 DEF RE!SetUp, RE!TypeOK, RE!ThreadAndEvent, RE!InTurn
  <2>3. RE!InTurn'
    BY <1>10 DEF RE!SetUp, RE!TypeOK, RE!ThreadAndEvent, RE!InTurn
  <2>4. RE!NotInjecting'
    BY <1>10 DEF RE!SetUp, RE!NotInjecting
  <2> QED
    BY <2>1, <2>2, <2>3, <2>4 DEF RE!Inv
<1>11. ASSUME NEW i \in RE!Increments, RE!Announce(i) PROVE RE!Inv'
  <2>1. RE!TypeOK'
    BY <1>11 DEF RE!Announce, RE!TypeOK
  <2>2. RE!ThreadAndEvent'
    BY <1>11 DEF RE!Announce, RE!TypeOK, RE!ThreadAndEvent, RE!InTurn
  <2>3. RE!InTurn'
    BY <1>11 DEF RE!Announce, RE!TypeOK, RE!ThreadAndEvent, RE!InTurn
  <2>4. RE!NotInjecting'
    BY <1>11 DEF RE!Announce, RE!NotInjecting
  <2> QED
    BY <2>1, <2>2, <2>3, <2>4 DEF RE!Inv
<1>12. ASSUME NEW i \in RE!Increments, RE!NotifyWaiting(i) PROVE RE!Inv'
  <2>1. RE!TypeOK'
    BY <1>12 DEF RE!NotifyWaiting, RE!TypeOK
  <2>2. RE!ThreadAndEvent'
    BY <1>12 DEF RE!NotifyWaiting, RE!TypeOK, RE!ThreadAndEvent, RE!InTurn
  <2>3. RE!InTurn'
    BY <1>12 DEF RE!NotifyWaiting, RE!TypeOK, RE!ThreadAndEvent, RE!InTurn
  <2>4. RE!NotInjecting'
    BY <1>12 DEF RE!NotifyWaiting, RE!NotInjecting
  <2> QED
    BY <2>1, <2>2, <2>3, <2>4 DEF RE!Inv
<1>13. ASSUME NEW i \in RE!Increments, RE!Await(i) PROVE RE!Inv'
  <2>1. RE!TypeOK'
    BY <1>13 DEF RE!Await, RE!Released, RE!TypeOK
  <2>2. RE!ThreadAndEvent'
    BY <1>13, SMTT(20) DEF RE!Await, RE!Released, RE!TypeOK, RE!ThreadAndEvent, RE!InTurn
  <2>3. RE!InTurn'
    BY <1>13 DEF RE!Await, RE!Released, RE!TypeOK, RE!ThreadAndEvent, RE!InTurn
  <2>4. RE!NotInjecting'
    BY <1>13 DEF RE!Await, RE!Released, RE!NotInjecting
  <2> QED
    BY <2>1, <2>2, <2>3, <2>4 DEF RE!Inv
<1>14. ASSUME NEW i \in RE!Increments, RE!NotifyRunning(i) PROVE RE!Inv'
  <2>1. RE!TypeOK'
    BY <1>14 DEF RE!NotifyRunning, RE!TypeOK
  <2>2. RE!ThreadAndEvent'
    BY <1>14 DEF RE!NotifyRunning, RE!TypeOK, RE!ThreadAndEvent, RE!InTurn
  <2>3. RE!InTurn'
    BY <1>14 DEF RE!NotifyRunning, RE!TypeOK, RE!ThreadAndEvent, RE!InTurn
  <2>4. RE!NotInjecting'
    BY <1>14 DEF RE!NotifyRunning, RE!NotInjecting
  <2> QED
    BY <2>1, <2>2, <2>3, <2>4 DEF RE!Inv
<1>15. ASSUME NEW i \in RE!Increments, RE!Execute(i) PROVE RE!Inv'
  <2>1. RE!TypeOK'
    BY <1>15 DEF RE!Execute, RE!TypeOK
  <2>2. RE!ThreadAndEvent'
    BY <1>15 DEF RE!Execute, RE!TypeOK, RE!ThreadAndEvent, RE!InTurn
  <2>3. RE!InTurn'
    BY <1>15 DEF RE!Execute, RE!TypeOK, RE!ThreadAndEvent, RE!InTurn
  <2>4. RE!NotInjecting'
    BY <1>15 DEF RE!Execute, RE!NotInjecting
  <2> QED
    BY <2>1, <2>2, <2>3, <2>4 DEF RE!Inv
<1> QED
  BY <1>1, <1>2, <1>3, <1>4, <1>5, <1>6, <1>7, <1>8, <1>9, <1>10, <1>11, <1>12, <1>13, <1>14,
     <1>15
     DEF RE!Next, RE!MainThread, RE!Worker

(* The increments of every trace are started in its order, with any number *)
(* of threads, and VSync injection is off at the end.                      *)
THEOREM ReplayInOrder == PartsSpec => []StartedInOrder
<1> DEFINE I == part = "replayer" => RE!Inv
<1>1. PartsInit => I
  BY ReplayerInit DEF PartsInit, OtherInit
<1>2. I /\ [PartsNext]_state => I'
  <2> SUFFICES ASSUME I, [PartsNext]_state, part = "replayer" PROVE RE!Inv'
    BY PartStays
  <2>1. CASE PartsNext
    <3>1. RE!Next
      BY <2>1 DEF PartsNext, BinderStep, DumpsysStep, ServiceStep, CacheStep, OtaStep,
                  CommandStep, AtraceStep, LshalStep, RelayStep, ReplayerStep, BackupStep
    <3> QED
      BY <3>1, ReplayerNext
  <2>2. CASE UNCHANGED state
    BY <2>2, SlotsStutter
       DEF RE!Inv, RE!TypeOK, RE!ThreadAndEvent, RE!InTurn, RE!NotInjecting, RE!Increments
  <2> QED
    BY <2>1, <2>2
<1>3. I => StartedInOrder
  BY DEF StartedInOrder, RE!StartedInOrder, RE!Inv, RE!InTurn, RE!NotInjecting
<1> QED
  BY <1>1, <1>2, <1>3, PTL DEF PartsSpec

----------------------------------------------------------------------------
(* The sections of a bug report: x1 is step, x2 section, x3 attempt, x4    *)
(* child, x5 ended, x8 result, x9 build, x12 progress, x13 max, x14 nRuns, *)
(* x15 average, x17 updated, x18 percent.                                  *)

(* A part of something is a percentage of it.                              *)
LEMMA PercentOf ==
  ASSUME NEW p \in Nat, NEW m \in Nat \ {0}, p <= m
  PROVE  (100 * p) \div m \in 0..100
<1> DEFINE q == (100 * p) \div m
<1>1. q \in Int /\ m * q <= 100 * p /\ 100 * p < m * (q + 1)
  OBVIOUS
<1>2. 100 * p <= m * 100 /\ 0 <= 100 * p
  OBVIOUS
<1> HIDE DEF q
<1>3. q < 101
  BY <1>1, <1>2
<1>4. q + 1 > 0
  BY <1>1, <1>2
<1> QED
  BY <1>1, <1>3, <1>4 DEF q

(* No section has been begun.                                              *)
LEMMA CommandInit == RC!Init => RC!Inv
BY PartsAssumption
   DEF RC!Init, RC!Inv, RC!ChildKnown, RC!Over, RC!SectionKnown, RC!CommandOver, RC!Measured,
       RC!PercentInRange, RC!SectionsAssumption

(* Every step of dumpstate, of the command and of the kernel keeps Inv.    *)
LEMMA CommandNext == RC!Inv /\ RC!Next => RC!Inv'
<1> SUFFICES ASSUME RC!ChildKnown, RC!SectionKnown, RC!CommandOver, RC!Measured,
                    RC!PercentInRange, RC!Next
             PROVE  RC!Inv'
  BY DEF RC!Inv
<1> USE PartsAssumption DEF RC!SectionsAssumption, RC!measure
<1>1. ASSUME NEW s \in OfCommand.sections, RC!Begin(s) PROVE RC!Inv'
  <2>1. RC!ChildKnown'
    BY <1>1 DEF RC!Begin, RC!ChildKnown, RC!Over, RC!CommandOver
  <2>2. RC!SectionKnown'
    BY <1>1 DEF RC!Begin, RC!SectionKnown
  <2>3. RC!CommandOver'
    BY <1>1 DEF RC!Begin, RC!CommandOver, RC!Skipped, RC!ChildKnown, RC!SectionKnown, RC!Over
  <2>4. RC!Measured'
    BY <1>1 DEF RC!Begin, RC!Measured, RC!SectionKnown
  <2>5. RC!PercentInRange'
    BY <1>1 DEF RC!Begin, RC!PercentInRange
  <2> QED
    BY <2>1, <2>2, <2>3, <2>4, <2>5 DEF RC!Inv
<1>2. CASE RC!Fork
  <2>1. RC!ChildKnown'
    BY <1>2 DEF RC!Fork, RC!ChildKnown, RC!Over, RC!CommandOver
  <2>2. RC!SectionKnown'
    BY <1>2 DEF RC!Fork, RC!SectionKnown
  <2>3. RC!CommandOver'
    BY <1>2 DEF RC!Fork, RC!CommandOver, RC!Skipped, RC!ChildKnown, RC!SectionKnown, RC!Over
  <2>4. RC!Measured'
    BY <1>2 DEF RC!Fork, RC!Measured, RC!SectionKnown
  <2>5. RC!PercentInRange'
    BY <1>2 DEF RC!Fork, RC!PercentInRange
  <2> QED
    BY <2>1, <2>2, <2>3, <2>4, <2>5 DEF RC!Inv
<1>3. CASE RC!Block
  <2>1. RC!ChildKnown'
    BY <1>3 DEF RC!Block, RC!Own, RC!ChildKnown, RC!Over, RC!CommandOver
  <2>2. RC!SectionKnown'
    BY <1>3 DEF RC!Block, RC!Own, RC!SectionKnown
  <2>3. RC!CommandOver'
    BY <1>3 DEF RC!Block, RC!Own, RC!CommandOver, RC!Skipped, RC!ChildKnown, RC!SectionKnown,
       RC!Over
  <2>4. RC!Measured'
    BY <1>3 DEF RC!Block, RC!Own, RC!Measured, RC!SectionKnown
  <2>5. RC!PercentInRange'
    BY <1>3 DEF RC!Block, RC!Own, RC!PercentInRange
  <2> QED
    BY <2>1, <2>2, <2>3, <2>4, <2>5 DEF RC!Inv
<1>4. CASE RC!Woken
  <2>1. RC!ChildKnown'
    BY <1>4 DEF RC!Woken, RC!Own, RC!ChildKnown, RC!Over, RC!CommandOver
  <2>2. RC!SectionKnown'
    BY <1>4 DEF RC!Woken, RC!Own, RC!SectionKnown
  <2>3. RC!CommandOver'
    BY <1>4 DEF RC!Woken, RC!Own, RC!CommandOver, RC!Skipped, RC!ChildKnown, RC!SectionKnown,
       RC!Over
  <2>4. RC!Measured'
    BY <1>4 DEF RC!Woken, RC!Own, RC!Measured, RC!SectionKnown
  <2>5. RC!PercentInRange'
    BY <1>4 DEF RC!Woken, RC!Own, RC!PercentInRange
  <2> QED
    BY <2>1, <2>2, <2>3, <2>4, <2>5 DEF RC!Inv
<1>5. CASE RC!TimesOut
  <2>1. RC!ChildKnown'
    BY <1>5 DEF RC!TimesOut, RC!Own, RC!ChildKnown, RC!Over, RC!CommandOver
  <2>2. RC!SectionKnown'
    BY <1>5 DEF RC!TimesOut, RC!Own, RC!SectionKnown
  <2>3. RC!CommandOver'
    BY <1>5 DEF RC!TimesOut, RC!Own, RC!CommandOver, RC!Skipped, RC!ChildKnown,
       RC!SectionKnown, RC!Over
  <2>4. RC!Measured'
    BY <1>5 DEF RC!TimesOut, RC!Own, RC!Measured, RC!SectionKnown
  <2>5. RC!PercentInRange'
    BY <1>5 DEF RC!TimesOut, RC!Own, RC!PercentInRange
  <2> QED
    BY <2>1, <2>2, <2>3, <2>4, <2>5 DEF RC!Inv
<1>6. CASE RC!Reap
  <2>1. RC!ChildKnown'
    BY <1>6 DEF RC!Reap, RC!Own, RC!Status, RC!ChildKnown, RC!Over, RC!CommandOver
  <2>2. RC!SectionKnown'
    BY <1>6 DEF RC!Reap, RC!Own, RC!Status, RC!SectionKnown
  <2>3. RC!CommandOver'
    <3>1. \A how \in {"ok", "exit", "signal"} : RC!Status(how) = 0 => how = "ok"
      BY DEF RC!Status
    <3>2. x1' = "update" => x4' = "reaped" /\ (x8' = 0 => x5'.how = "ok")
      <4>1. CASE x4 = "zombie"
        <5>1. x5' = x5 /\ x5.how \in {"ok", "exit", "signal"} /\ x4' = "reaped"
              /\ x8' = IF x3 = "first" THEN RC!Status(x5.how) ELSE -1
          BY <1>6, <4>1 DEF RC!Reap, RC!ChildKnown
        <5> QED
          BY <3>1, <5>1
      <4>2. CASE x4 # "zombie"
        BY <1>6, <4>2 DEF RC!Reap
      <4> QED
        BY <4>1, <4>2
    <3> QED
      BY <3>2 DEF RC!CommandOver
  <2>4. RC!Measured'
    BY <1>6 DEF RC!Reap, RC!Own, RC!Status, RC!Measured, RC!SectionKnown
  <2>5. RC!PercentInRange'
    BY <1>6 DEF RC!Reap, RC!Own, RC!Status, RC!PercentInRange
  <2> QED
    BY <2>1, <2>2, <2>3, <2>4, <2>5 DEF RC!Inv
<1>7. CASE RC!Escalate
  <2>1. RC!ChildKnown'
    BY <1>7 DEF RC!Escalate, RC!Own, RC!NextAttempt, RC!ChildKnown, RC!Over, RC!CommandOver
  <2>2. RC!SectionKnown'
    BY <1>7 DEF RC!Escalate, RC!Own, RC!NextAttempt, RC!SectionKnown
  <2>3. RC!CommandOver'
    <3>0. x1' = "update" => x8' = -1
      BY <1>7 DEF RC!Escalate
    <3>1. x1' = "update" => x8' # 0
      BY <3>0
    <3>2. x1' = "update" => x4' \in {"none", "zombie", "reaped", "stuck", "dying"}
      BY <2>1 DEF RC!ChildKnown, RC!Over
    <3> QED
      BY <3>1, <3>2 DEF RC!CommandOver
  <2>4. RC!Measured'
    BY <1>7 DEF RC!Escalate, RC!Own, RC!NextAttempt, RC!Measured, RC!SectionKnown
  <2>5. RC!PercentInRange'
    BY <1>7 DEF RC!Escalate, RC!Own, RC!NextAttempt, RC!PercentInRange
  <2> QED
    BY <2>1, <2>2, <2>3, <2>4, <2>5 DEF RC!Inv
<1>8. CASE RC!ReadFile
  <2>1. RC!ChildKnown'
    BY <1>8 DEF RC!ReadFile, RC!ChildKnown, RC!Over, RC!CommandOver
  <2>2. RC!SectionKnown'
    BY <1>8 DEF RC!ReadFile, RC!SectionKnown
  <2>3. RC!CommandOver'
    BY <1>8 DEF RC!ReadFile, RC!CommandOver, RC!Skipped, RC!ChildKnown, RC!SectionKnown, RC!Over
  <2>4. RC!Measured'
    BY <1>8 DEF RC!ReadFile, RC!Measured, RC!SectionKnown
  <2>5. RC!PercentInRange'
    BY <1>8 DEF RC!ReadFile, RC!PercentInRange
  <2> QED
    BY <2>1, <2>2, <2>3, <2>4, <2>5 DEF RC!Inv
<1>9. CASE RC!UpdateProgress
  <2>1. RC!ChildKnown'
    BY <1>9 DEF RC!UpdateProgress, RC!Grown, RC!ChildKnown, RC!Over, RC!CommandOver
  <2>2. RC!SectionKnown'
    BY <1>9 DEF RC!UpdateProgress, RC!Grown, RC!SectionKnown
  <2>3. RC!CommandOver'
    BY <1>9 DEF RC!UpdateProgress, RC!Grown, RC!CommandOver, RC!Skipped, RC!ChildKnown,
       RC!SectionKnown, RC!Over
  <2>4. RC!Measured'
    BY <1>9 DEF RC!UpdateProgress, RC!Grown, RC!Measured, RC!SectionKnown
  <2>5. RC!PercentInRange'
    <3>1. x12' \in Nat /\ x13' \in Nat \ {0} /\ x12' <= x13'
      BY <1>9 DEF RC!UpdateProgress, RC!Grown, RC!Measured, RC!SectionKnown
    <3>2. (100 * x12') \div x13' \in 0..100
      BY <3>1, PercentOf
    <3> QED
      BY <1>9, <3>2 DEF RC!UpdateProgress, RC!PercentInRange
  <2> QED
    BY <2>1, <2>2, <2>3, <2>4, <2>5 DEF RC!Inv
<1>10. CASE RC!Killed
  <2>1. RC!ChildKnown'
    BY <1>10 DEF RC!Killed, RC!Ends, RC!World, RC!ChildKnown, RC!Over, RC!CommandOver
  <2>2. RC!SectionKnown'
    BY <1>10 DEF RC!Killed, RC!Ends, RC!World, RC!SectionKnown
  <2>3. RC!CommandOver'
    BY <1>10 DEF RC!Killed, RC!Ends, RC!World, RC!CommandOver, RC!Skipped, RC!ChildKnown,
       RC!SectionKnown, RC!Over
  <2>4. RC!Measured'
    BY <1>10 DEF RC!Killed, RC!Ends, RC!World, RC!Measured, RC!SectionKnown
  <2>5. RC!PercentInRange'
    BY <1>10 DEF RC!Killed, RC!Ends, RC!World, RC!PercentInRange
  <2> QED
    BY <2>1, <2>2, <2>3, <2>4, <2>5 DEF RC!Inv
<1>11. CASE RC!ChildStarts
  <2>1. RC!ChildKnown'
    <3>1. x4' \in {"running", "copy"} \/ (x4' = "zombie" /\ x5'.how = "exit")
      BY <1>11 DEF RC!ChildStarts, RC!Ends
    <3>2. x4 = "forked" /\ x1' = x1 /\ x3' = x3
      BY <1>11 DEF RC!ChildStarts, RC!World
    <3> QED
      BY <3>1, <3>2 DEF RC!ChildKnown, RC!Over
  <2>2. RC!SectionKnown'
    BY <1>11 DEF RC!ChildStarts, RC!Ends, RC!World, RC!SectionKnown
  <2>3. RC!CommandOver'
    BY <1>11 DEF RC!ChildStarts, RC!Ends, RC!World, RC!CommandOver, RC!Skipped, RC!ChildKnown,
       RC!SectionKnown, RC!Over
  <2>4. RC!Measured'
    BY <1>11 DEF RC!ChildStarts, RC!Ends, RC!World, RC!Measured, RC!SectionKnown
  <2>5. RC!PercentInRange'
    BY <1>11 DEF RC!ChildStarts, RC!Ends, RC!World, RC!PercentInRange
  <2> QED
    BY <2>1, <2>2, <2>3, <2>4, <2>5 DEF RC!Inv
<1>12. ASSUME NEW how \in {"ok", "exit", "signal"}, RC!ChildEnds(how) PROVE RC!Inv'
  <2>1. RC!ChildKnown'
    BY <1>12 DEF RC!ChildEnds, RC!Ends, RC!World, RC!ChildKnown, RC!Over, RC!CommandOver
  <2>2. RC!SectionKnown'
    BY <1>12 DEF RC!ChildEnds, RC!Ends, RC!World, RC!SectionKnown
  <2>3. RC!CommandOver'
    BY <1>12 DEF RC!ChildEnds, RC!Ends, RC!World, RC!CommandOver, RC!Skipped, RC!ChildKnown,
       RC!SectionKnown, RC!Over
  <2>4. RC!Measured'
    BY <1>12 DEF RC!ChildEnds, RC!Ends, RC!World, RC!Measured, RC!SectionKnown
  <2>5. RC!PercentInRange'
    BY <1>12 DEF RC!ChildEnds, RC!Ends, RC!World, RC!PercentInRange
  <2> QED
    BY <2>1, <2>2, <2>3, <2>4, <2>5 DEF RC!Inv
<1>13. CASE RC!ChildStuck \/ RC!StrayDies
  <2>1. RC!ChildKnown'
    BY <1>13 DEF RC!ChildStuck, RC!StrayDies, RC!World, RC!ChildKnown, RC!Over, RC!CommandOver
  <2>2. RC!SectionKnown'
    BY <1>13 DEF RC!ChildStuck, RC!StrayDies, RC!World, RC!SectionKnown
  <2>3. RC!CommandOver'
    BY <1>13 DEF RC!ChildStuck, RC!StrayDies, RC!World, RC!CommandOver, RC!Skipped,
       RC!ChildKnown, RC!SectionKnown, RC!Over
  <2>4. RC!Measured'
    BY <1>13 DEF RC!ChildStuck, RC!StrayDies, RC!World, RC!Measured, RC!SectionKnown
  <2>5. RC!PercentInRange'
    BY <1>13 DEF RC!ChildStuck, RC!StrayDies, RC!World, RC!PercentInRange
  <2> QED
    BY <2>1, <2>2, <2>3, <2>4, <2>5 DEF RC!Inv
<1>14. ASSUME NEW s, RC!NextSession(s) PROVE RC!Inv'
  <2>1. RC!ChildKnown'
    BY <1>14 DEF RC!NextSession, RC!ChildKnown, RC!Over, RC!CommandOver
  <2>2. RC!SectionKnown'
    BY <1>14 DEF RC!NextSession, RC!SectionKnown
  <2>3. RC!CommandOver'
    BY <1>14
       DEF RC!NextSession, RC!CommandOver, RC!Skipped, RC!ChildKnown, RC!SectionKnown, RC!Over
  <2>4. RC!Measured'
    <3>1. x14 + 1 \in Nat \ {0} /\ x14 * x15 + x12 \in Int
      BY DEF RC!Measured
    <3>2. s.runs \in Nat /\ s.average \in Int
      BY <1>14, <3>1 DEF RC!NextSession, RC!Saved, RC!NoStats
    <3>3. x13' \in Nat \ {0}
      BY <1>14, <3>2 DEF RC!NextSession, RC!Valid
    <3> QED
      BY <1>14, <3>2, <3>3 DEF RC!NextSession, RC!Measured
  <2>5. RC!PercentInRange'
    BY <1>14 DEF RC!NextSession, RC!PercentInRange
  <2> QED
    BY <2>1, <2>2, <2>3, <2>4, <2>5 DEF RC!Inv
<1> QED
  BY <1>1, <1>2, <1>3, <1>4, <1>5, <1>6, <1>7, <1>8, <1>9, <1>10, <1>11, <1>12, <1>13, <1>14
     DEF RC!Next, RC!Parent

(* A command is over when its section is and is reported as successful     *)
(* only if it was, and progress stays a percentage, for all sections,      *)
(* weights and statistics.                                                 *)
THEOREM SectionsAreSound == PartsSpec => []SectionSound
<1> DEFINE I == part = "command" => RC!Inv
<1>1. PartsInit => I
  BY CommandInit DEF PartsInit, OtherInit
<1>2. I /\ [PartsNext]_state => I'
  <2> SUFFICES ASSUME I, [PartsNext]_state, part = "command" PROVE RC!Inv'
    BY PartStays
  <2>1. CASE PartsNext
    <3>1. RC!Next
      BY <2>1 DEF PartsNext, BinderStep, DumpsysStep, ServiceStep, CacheStep, OtaStep,
                  CommandStep, AtraceStep, LshalStep, RelayStep, ReplayerStep, BackupStep
    <3> QED
      BY <3>1, CommandNext
  <2>2. CASE UNCHANGED state
    <3>1. RC!ChildKnown' /\ RC!SectionKnown'
      BY <2>2, SlotsStutter DEF RC!Inv, RC!ChildKnown, RC!SectionKnown
    <3>2. RC!CommandOver'
      BY <2>2, SlotsStutter DEF RC!Inv, RC!CommandOver, RC!Skipped
    <3>3. RC!Measured' /\ RC!PercentInRange'
      BY <2>2, SlotsStutter DEF RC!Inv, RC!Measured, RC!PercentInRange
    <3> QED
      BY <3>1, <3>2, <3>3 DEF RC!Inv
  <2> QED
    BY <2>1, <2>2
<1>3. I => SectionSound
  BY DEF SectionSound, RC!Inv
<1> QED
  BY <1>1, <1>2, <1>3, PTL DEF PartsSpec

----------------------------------------------------------------------------
(* `lshal list': x1 is step, x2 registered, x3 readable, x4 types, x5      *)
(* wait, x6 thread, x7 reply, x8 names, x9 current, x10 bad, x11 services, *)
(* x12 libraries, x13 manifest, x14 lazy, x15 cached, x16 status.          *)

(* Nothing has been asked yet.                                             *)
LEMMA LshalInit == LS!Init => LS!Inv
BY DEF LS!Init, LS!Inv, LS!ThreadsOver, LS!Listed, LS!EntriesGood, LS!CachedKnown, LS!Fetched,
       LS!InEntry, LS!Pids

(* Every step of the main thread, of the thread of a call and of a service *)
(* keeps Inv.                                                              *)
LEMMA LshalNext == LS!Inv /\ LS!Next => LS!Inv'
<1> SUFFICES ASSUME LS!ThreadsOver, LS!Listed, LS!EntriesGood, LS!CachedKnown, LS!Fetched, LS!Next
             PROVE  LS!Inv'
  BY DEF LS!Inv
<1> USE DEF LS!Others, LS!Next1, LS!call, LS!tables, LS!InEntry
<1>1. CASE LS!CreateThread
  <2>1. LS!ThreadsOver'
    BY <1>1 DEF LS!CreateThread, LS!ThreadsOver
  <2>2. LS!Listed'
    BY <1>1 DEF LS!CreateThread, LS!Listed
  <2>3. LS!EntriesGood'
    BY <1>1 DEF LS!CreateThread, LS!EntriesGood, LS!Listed
  <2>4. LS!CachedKnown'
    BY <1>1 DEF LS!CreateThread, LS!CachedKnown
  <2>5. LS!Fetched'
    BY <1>1 DEF LS!CreateThread, LS!Fetched, LS!Listed
  <2> QED
    BY <2>1, <2>2, <2>3, <2>4, <2>5 DEF LS!Inv
<1>2. CASE LS!Answer
  <2>1. LS!ThreadsOver'
    BY <1>2 DEF LS!Answer, LS!ThreadsOver
  <2>2. LS!Listed'
    BY <1>2 DEF LS!Answer, LS!Listed
  <2>3. LS!EntriesGood'
    BY <1>2 DEF LS!Answer, LS!EntriesGood, LS!Listed
  <2>4. LS!CachedKnown'
    BY <1>2 DEF LS!Answer, LS!CachedKnown
  <2>5. LS!Fetched'
    BY <1>2 DEF LS!Answer, LS!Fetched, LS!Listed
  <2> QED
    BY <2>1, <2>2, <2>3, <2>4, <2>5 DEF LS!Inv
<1>3. CASE LS!Notify
  <2>1. LS!ThreadsOver'
    BY <1>3 DEF LS!Notify, LS!ThreadsOver
  <2>2. LS!Listed'
    BY <1>3 DEF LS!Notify, LS!Listed
  <2>3. LS!EntriesGood'
    BY <1>3 DEF LS!Notify, LS!EntriesGood, LS!Listed
  <2>4. LS!CachedKnown'
    BY <1>3 DEF LS!Notify, LS!CachedKnown
  <2>5. LS!Fetched'
    BY <1>3 DEF LS!Notify, LS!Fetched, LS!Listed
  <2> QED
    BY <2>1, <2>2, <2>3, <2>4, <2>5 DEF LS!Inv
<1>4. CASE LS!TimesOut
  <2>1. LS!ThreadsOver'
    BY <1>4 DEF LS!TimesOut, LS!ThreadsOver
  <2>2. LS!Listed'
    BY <1>4 DEF LS!TimesOut, LS!Listed
  <2>3. LS!EntriesGood'
    BY <1>4 DEF LS!TimesOut, LS!EntriesGood, LS!Listed
  <2>4. LS!CachedKnown'
    BY <1>4 DEF LS!TimesOut, LS!CachedKnown
  <2>5. LS!Fetched'
    BY <1>4 DEF LS!TimesOut, LS!Fetched, LS!Listed
  <2> QED
    BY <2>1, <2>2, <2>3, <2>4, <2>5 DEF LS!Inv
<1>5. CASE LS!Interrupted
  <2>1. LS!ThreadsOver'
    BY <1>5 DEF LS!Interrupted, LS!ThreadsOver
  <2>2. LS!Listed'
    BY <1>5 DEF LS!Interrupted, LS!Listed
  <2>3. LS!EntriesGood'
    BY <1>5 DEF LS!Interrupted, LS!EntriesGood, LS!Listed
  <2>4. LS!CachedKnown'
    BY <1>5 DEF LS!Interrupted, LS!CachedKnown
  <2>5. LS!Fetched'
    BY <1>5 DEF LS!Interrupted, LS!Fetched, LS!Listed
  <2> QED
    BY <2>1, <2>2, <2>3, <2>4, <2>5 DEF LS!Inv
<1>6. CASE LS!Join
  <2>1. LS!ThreadsOver'
    BY <1>6 DEF LS!Join, LS!Joined, LS!ThreadsOver
  <2>2. LS!Listed'
    BY <1>6 DEF LS!Join, LS!Joined, LS!Listed
  <2>3. LS!EntriesGood'
    BY <1>6 DEF LS!Join, LS!Joined, LS!EntriesGood, LS!Listed
  <2>4. LS!CachedKnown'
    BY <1>6 DEF LS!Join, LS!Joined, LS!CachedKnown
  <2>5. LS!Fetched'
    BY <1>6 DEF LS!Join, LS!Joined, LS!Fetched, LS!Listed
  <2> QED
    BY <2>1, <2>2, <2>3, <2>4, <2>5 DEF LS!Inv
<1>7. CASE LS!List
  <2>1. LS!ThreadsOver'
    BY <1>7 DEF LS!List, LS!Has, LS!NextEntry, LS!ThreadsOver
  <2>2. LS!Listed'
    BY <1>7 DEF LS!List, LS!Has, LS!NextEntry, LS!Listed
  <2>3. LS!EntriesGood'
    BY <1>7 DEF LS!List, LS!Has, LS!NextEntry, LS!EntriesGood, LS!Listed
  <2>4. LS!CachedKnown'
    BY <1>7 DEF LS!List, LS!Has, LS!NextEntry, LS!CachedKnown
  <2>5. LS!Fetched'
    BY <1>7 DEF LS!List, LS!Has, LS!NextEntry, LS!Fetched, LS!Listed
  <2> QED
    BY <2>1, <2>2, <2>3, <2>4, <2>5 DEF LS!Inv
<1>8. ASSUME NEW s \in DOMAIN OfLshal.pid, LS!Choose(s) PROVE LS!Inv'
  <2>1. LS!ThreadsOver'
    BY <1>8 DEF LS!Choose, LS!ThreadsOver
  <2>2. LS!Listed'
    BY <1>8 DEF LS!Choose, LS!Listed, LS!NoEntry
  <2>3. LS!EntriesGood'
    BY <1>8 DEF LS!Choose, LS!EntriesGood, LS!Listed
  <2>4. LS!CachedKnown'
    BY <1>8 DEF LS!Choose, LS!CachedKnown
  <2>5. LS!Fetched'
    BY <1>8 DEF LS!Choose, LS!Fetched, LS!Listed
  <2> QED
    BY <2>1, <2>2, <2>3, <2>4, <2>5 DEF LS!Inv
<1>9. CASE LS!Get
  <2>1. LS!ThreadsOver'
    BY <1>9 DEF LS!Get, LS!Has, LS!EntryOver, LS!NextEntry, LS!ThreadsOver
  <2>2. LS!Listed'
    BY <1>9 DEF LS!Get, LS!Has, LS!EntryOver, LS!NextEntry, LS!Listed
  <2>3. LS!EntriesGood'
    BY <1>9 DEF LS!Get, LS!Has, LS!EntryOver, LS!NextEntry, LS!EntriesGood, LS!Listed
  <2>4. LS!CachedKnown'
    BY <1>9 DEF LS!Get, LS!Has, LS!EntryOver, LS!NextEntry, LS!CachedKnown
  <2>5. LS!Fetched'
    BY <1>9 DEF LS!Get, LS!Has, LS!EntryOver, LS!NextEntry, LS!Fetched, LS!Listed
  <2> QED
    BY <2>1, <2>2, <2>3, <2>4, <2>5 DEF LS!Inv
<1>10. CASE LS!DebugInfo
  <2>1. LS!ThreadsOver'
    BY <1>10 DEF LS!DebugInfo, LS!Has, LS!ThreadsOver
  <2>2. LS!Listed'
    <3>1. x9 \in DOMAIN x11 /\ DOMAIN x11[x9] = {"alive", "told", "threads", "clients"}
      BY <1>10 DEF LS!DebugInfo, LS!Has, LS!Listed
    <3>2. x11' = x11 \/ \E t, v : x11' = [x11 EXCEPT ![x9] = LS!Shown(x11[x9], t, v)]
      BY <1>10 DEF LS!DebugInfo
    <3>4. ASSUME NEW t, NEW v
          PROVE  DOMAIN LS!Shown(x11[x9], t, v) = {"alive", "told", "threads", "clients"}
      BY <3>1 DEF LS!Shown
    <3>3. /\ DOMAIN x11' = DOMAIN x11
          /\ \A s \in DOMAIN x11' : DOMAIN x11'[s] = {"alive", "told", "threads", "clients"}
      BY <3>1, <3>2, <3>4 DEF LS!Listed
    <3> QED
      BY <1>10, <3>3 DEF LS!DebugInfo, LS!Has, LS!Listed
  <2>3. LS!EntriesGood'
    <3> SUFFICES ASSUME x16 = {} PROVE LS!EntriesGood'
      BY <1>10 DEF LS!DebugInfo, LS!EntriesGood
    <3>1. x9 \in DOMAIN x11 /\ x9' = x9 /\ x16' = x16 /\ x1' = "chain" /\ OfLshal.pid[x9] \in LS!Pids
      BY <1>10 DEF LS!DebugInfo, LS!Has, LS!Listed, LS!Pids
    <3>2. DOMAIN x11[x9] = {"alive", "told", "threads", "clients"}
      BY <3>1 DEF LS!Listed
    <3>3. \A q \in LS!Pids : x15[q] # "empty"
      BY <1>10 DEF LS!DebugInfo, LS!Has, LS!EntriesGood
    <3>4. \A s \in DOMAIN x11 : s # x9 => LS!Good(x11[s])
      BY DEF LS!EntriesGood
    <3>5. CASE x7 # "ok"
      BY <1>10, <3>1, <3>4, <3>5 DEF LS!DebugInfo, LS!EntriesGood
    <3>6. ASSUME NEW told, x7 = "ok", "pid" \notin told, x15' = x15,
                 x11' = [x11 EXCEPT ![x9] = LS!Shown(x11[x9], told, "none")]
          PROVE  LS!EntriesGood'
      <4>1. DOMAIN x11' = DOMAIN x11 /\ \A s \in DOMAIN x11 : s # x9 => x11'[s] = x11[s]
        BY <3>6
      <4>2. LS!Good([x11'[x9] EXCEPT !.alive = TRUE])
        BY <3>1, <3>2, <3>6 DEF LS!Good, LS!Shown
      <4> QED
        BY <3>1, <3>3, <3>4, <3>6, <4>1, <4>2 DEF LS!EntriesGood
    <3>7. ASSUME NEW told, x7 = "ok", "pid" \in told,
                 x15' = [x15 EXCEPT ![OfLshal.pid[x9]] =
                           IF @ # "none" THEN @ ELSE IF OfLshal.pid[x9] \in x3 THEN "full" ELSE "empty"],
                 x10' = (x15[OfLshal.pid[x9]] = "none" /\ OfLshal.pid[x9] \notin x3),
                 x11' = [x11 EXCEPT ![x9] =
                           LS!Shown(x11[x9], told, IF x10' THEN "none" ELSE x15'[OfLshal.pid[x9]])]
          PROVE  LS!EntriesGood'
      <4>1. DOMAIN x11' = DOMAIN x11 /\ \A s \in DOMAIN x11 : s # x9 => x11'[s] = x11[s]
        BY <3>7
      <4>2. CASE x10'
        BY <3>1, <3>4, <4>1, <4>2 DEF LS!EntriesGood
      <4>3. CASE ~x10'
        <5>1. x15'[OfLshal.pid[x9]] = "full" /\ \A q \in LS!Pids : x15'[q] # "empty"
          BY <4>3, <3>1, <3>3, <3>7 DEF LS!CachedKnown
        <5>2. x11'[x9] = LS!Shown(x11[x9], told, "full")
          BY <3>1, <3>7, <4>3, <5>1
        <5>3. LS!Good([x11'[x9] EXCEPT !.alive = TRUE])
          BY <5>2, <3>2 DEF LS!Good, LS!Shown
        <5> QED
          BY <3>1, <3>4, <4>1, <5>1, <5>3 DEF LS!EntriesGood
      <4> QED
        BY <4>2, <4>3
    <3> QED
      BY <1>10, <3>5, <3>6, <3>7 DEF LS!DebugInfo
  <2>4. LS!CachedKnown'
    BY <1>10 DEF LS!DebugInfo, LS!Has, LS!CachedKnown
  <2>5. LS!Fetched'
    BY <1>10 DEF LS!DebugInfo, LS!Has, LS!Fetched, LS!Listed
  <2> QED
    BY <2>1, <2>2, <2>3, <2>4, <2>5 DEF LS!Inv
<1>11. CASE LS!Chain
  <2>1. LS!ThreadsOver'
    BY <1>11 DEF LS!Chain, LS!Has, LS!EntryOver, LS!NextEntry, LS!ThreadsOver
  <2>2. LS!Listed'
    BY <1>11 DEF LS!Chain, LS!Has, LS!EntryOver, LS!NextEntry, LS!Listed
  <2>3. LS!EntriesGood'
    <3>1. CASE x7 = "ok"
      BY <1>11, <3>1 DEF LS!Chain, LS!Has, LS!EntriesGood, LS!Good
    <3>2. CASE x7 # "ok"
      BY <1>11, <3>2 DEF LS!Chain, LS!EntryOver, LS!EntriesGood
    <3> QED
      BY <3>1, <3>2
  <2>4. LS!CachedKnown'
    BY <1>11 DEF LS!Chain, LS!Has, LS!EntryOver, LS!NextEntry, LS!CachedKnown
  <2>5. LS!Fetched'
    BY <1>11 DEF LS!Chain, LS!Has, LS!EntryOver, LS!NextEntry, LS!Fetched, LS!Listed
  <2> QED
    BY <2>1, <2>2, <2>3, <2>4, <2>5 DEF LS!Inv
<1>12. CASE LS!HashChain
  <2>1. LS!ThreadsOver'
    BY <1>12 DEF LS!HashChain, LS!Has, LS!EntryOver, LS!NextEntry, LS!ThreadsOver
  <2>2. LS!Listed'
    BY <1>12 DEF LS!HashChain, LS!Has, LS!EntryOver, LS!NextEntry, LS!Listed
  <2>3. LS!EntriesGood'
    <3> SUFFICES ASSUME x16' = {} PROVE LS!EntriesGood'
      BY DEF LS!EntriesGood
    <3>1. ~(x10 \/ x7 # "ok") /\ x16 = {} /\ x1 = "hash"
      BY <1>12 DEF LS!HashChain, LS!Has, LS!EntryOver
    <3>2. x11' = [x11 EXCEPT ![x9] = [x11[x9] EXCEPT !.alive = TRUE]]
      BY <1>12, <3>1 DEF LS!HashChain, LS!EntryOver
    <3>3. x9 \in DOMAIN x11 /\ LS!Good([x11[x9] EXCEPT !.alive = TRUE])
      BY <3>1 DEF LS!Listed, LS!EntriesGood
    <3>4. LS!Good(x11'[x9]) /\ DOMAIN x11' = DOMAIN x11 /\ \A s \in DOMAIN x11 : s # x9 => x11'[s] = x11[s]
      BY <3>2, <3>3
    <3>5. \A s \in DOMAIN x11 : s # x9 => LS!Good(x11[s])
      BY <3>1 DEF LS!EntriesGood
    <3>6. x1' \in {"clients", "choose"} /\ x15' = x15 /\ \A q \in LS!Pids : x15[q] # "empty"
      BY <1>12, <3>1 DEF LS!HashChain, LS!EntryOver, LS!NextEntry, LS!EntriesGood
    <3> QED
      BY <3>4, <3>5, <3>6 DEF LS!EntriesGood
  <2>4. LS!CachedKnown'
    BY <1>12 DEF LS!HashChain, LS!Has, LS!EntryOver, LS!NextEntry, LS!CachedKnown
  <2>5. LS!Fetched'
    BY <1>12 DEF LS!HashChain, LS!Has, LS!EntryOver, LS!NextEntry, LS!Fetched, LS!Listed
  <2> QED
    BY <2>1, <2>2, <2>3, <2>4, <2>5 DEF LS!Inv
<1>13. CASE LS!Clients
  <2>1. LS!ThreadsOver'
    BY <1>13 DEF LS!Clients, LS!Has, LS!ThreadsOver
  <2>2. LS!Listed'
    BY <1>13 DEF LS!Clients, LS!Has, LS!Listed
  <2>3. LS!EntriesGood'
    BY <1>13 DEF LS!Clients, LS!Has, LS!EntriesGood, LS!Listed
  <2>4. LS!CachedKnown'
    BY <1>13 DEF LS!Clients, LS!Has, LS!CachedKnown
  <2>5. LS!Fetched'
    BY <1>13 DEF LS!Clients, LS!Has, LS!Fetched, LS!Listed
  <2> QED
    BY <2>1, <2>2, <2>3, <2>4, <2>5 DEF LS!Inv
<1>14. CASE LS!AllLibraries
  <2>1. LS!ThreadsOver'
    BY <1>14 DEF LS!AllLibraries, LS!Has, LS!ThreadsOver
  <2>2. LS!Listed'
    BY <1>14 DEF LS!AllLibraries, LS!Has, LS!Listed
  <2>3. LS!EntriesGood'
    BY <1>14 DEF LS!AllLibraries, LS!Has, LS!EntriesGood, LS!Listed
  <2>4. LS!CachedKnown'
    BY <1>14 DEF LS!AllLibraries, LS!Has, LS!CachedKnown
  <2>5. LS!Fetched'
    BY <1>14 DEF LS!AllLibraries, LS!Has, LS!Fetched, LS!Listed
  <2> QED
    BY <2>1, <2>2, <2>3, <2>4, <2>5 DEF LS!Inv
<1>15. CASE LS!SkipCall
  <2>1. LS!ThreadsOver'
    BY <1>15 DEF LS!SkipCall, LS!Asked, LS!Calls, LS!ThreadsOver
  <2>2. LS!Listed'
    BY <1>15 DEF LS!SkipCall, LS!Asked, LS!Calls, LS!Listed
  <2>3. LS!EntriesGood'
    BY <1>15 DEF LS!SkipCall, LS!Asked, LS!Calls, LS!EntriesGood, LS!Listed
  <2>4. LS!CachedKnown'
    BY <1>15 DEF LS!SkipCall, LS!Asked, LS!Calls, LS!CachedKnown
  <2>5. LS!Fetched'
    BY <1>15 DEF LS!SkipCall, LS!Asked, LS!Calls, LS!Fetched, LS!Listed
  <2> QED
    BY <2>1, <2>2, <2>3, <2>4, <2>5 DEF LS!Inv
<1>16. CASE LS!ManifestHals
  <2>1. LS!ThreadsOver'
    BY <1>16 DEF LS!ManifestHals, LS!ThreadsOver
  <2>2. LS!Listed'
    BY <1>16 DEF LS!ManifestHals, LS!Listed
  <2>3. LS!EntriesGood'
    BY <1>16 DEF LS!ManifestHals, LS!EntriesGood, LS!Listed
  <2>4. LS!CachedKnown'
    BY <1>16 DEF LS!ManifestHals, LS!CachedKnown
  <2>5. LS!Fetched'
    BY <1>16 DEF LS!ManifestHals, LS!Fetched, LS!Listed
  <2> QED
    BY <2>1, <2>2, <2>3, <2>4, <2>5 DEF LS!Inv
<1>17. CASE LS!LazyHals
  <2>1. LS!ThreadsOver'
    BY <1>17 DEF LS!LazyHals, LS!HasHwbinderEntry, LS!HasPassthroughEntry, LS!ThreadsOver
  <2>2. LS!Listed'
    BY <1>17 DEF LS!LazyHals, LS!HasHwbinderEntry, LS!HasPassthroughEntry, LS!Listed
  <2>3. LS!EntriesGood'
    BY <1>17
       DEF LS!LazyHals, LS!HasHwbinderEntry, LS!HasPassthroughEntry, LS!EntriesGood, LS!Listed
  <2>4. LS!CachedKnown'
    BY <1>17 DEF LS!LazyHals, LS!HasHwbinderEntry, LS!HasPassthroughEntry, LS!CachedKnown
  <2>5. LS!Fetched'
    <3> SUFFICES ASSUME x16 = {}, "lazy" \in x4
                 PROVE  x14' = [hw |-> OfLshal.hw \ x8,
                                pass |-> {h \in OfLshal.pass :
                                  \A l \in OfLshal.libraries : l.package = h.package => l.minor > h.minor}]
      BY <1>17 DEF LS!LazyHals, LS!Fetched
    <3>1. {"binderized", "libraries", "manifest", "lazy"} \subseteq LS!FetchTypes(x4)
      BY DEF LS!FetchTypes
    <3>2. x13 = [hw |-> OfLshal.hw, pass |-> OfLshal.pass] /\ x12 = OfLshal.libraries /\ DOMAIN x11 = x8
      BY <1>17, <3>1 DEF LS!LazyHals, LS!Fetched, LS!Listed
    <3>3. x14' = [hw |-> {h \in x13.hw : h \notin DOMAIN x11},
                  pass |-> {h \in x13.pass : ~ \E l \in x12 : l.package = h.package /\ h.minor >= l.minor}]
      BY <1>17, <3>1 DEF LS!LazyHals, LS!HasHwbinderEntry, LS!HasPassthroughEntry
    <3>4. \A h \in OfLshal.pass :
            (~ \E l \in OfLshal.libraries : l.package = h.package /\ h.minor >= l.minor)
              <=> \A l \in OfLshal.libraries : l.package = h.package => l.minor > h.minor
      BY PartsAssumption DEF LS!LibrariesAssumption
    <3>5. {h \in OfLshal.pass : ~ \E l \in OfLshal.libraries : l.package = h.package /\ h.minor >= l.minor}
            = {h \in OfLshal.pass :
                 \A l \in OfLshal.libraries : l.package = h.package => l.minor > h.minor}
      BY <3>4
    <3>6. {h \in OfLshal.hw : h \notin x8} = OfLshal.hw \ x8
      OBVIOUS
    <3> QED
      BY <3>2, <3>3, <3>5, <3>6
  <2> QED
    BY <2>1, <2>2, <2>3, <2>4, <2>5 DEF LS!Inv
<1>18. CASE LS!Dump
  <2>1. LS!ThreadsOver'
    BY <1>18 DEF LS!Dump, LS!ThreadsOver
  <2>2. LS!Listed'
    BY <1>18 DEF LS!Dump, LS!Listed
  <2>3. LS!EntriesGood'
    BY <1>18 DEF LS!Dump, LS!EntriesGood, LS!Listed
  <2>4. LS!CachedKnown'
    BY <1>18 DEF LS!Dump, LS!CachedKnown
  <2>5. LS!Fetched'
    BY <1>18 DEF LS!Dump, LS!Fetched, LS!Listed
  <2> QED
    BY <2>1, <2>2, <2>3, <2>4, <2>5 DEF LS!Inv
<1>19. ASSUME NEW s \in DOMAIN OfLshal.pid, LS!Registers(s) \/ LS!Dies(s) PROVE LS!Inv'
  <2>1. LS!ThreadsOver'
    BY <1>19 DEF LS!Registers, LS!Dies, LS!ThreadsOver
  <2>2. LS!Listed'
    BY <1>19 DEF LS!Registers, LS!Dies, LS!Listed
  <2>3. LS!EntriesGood'
    BY <1>19 DEF LS!Registers, LS!Dies, LS!EntriesGood, LS!Listed
  <2>4. LS!CachedKnown'
    BY <1>19 DEF LS!Registers, LS!Dies, LS!CachedKnown
  <2>5. LS!Fetched'
    BY <1>19 DEF LS!Registers, LS!Dies, LS!Fetched, LS!Listed
  <2> QED
    BY <2>1, <2>2, <2>3, <2>4, <2>5 DEF LS!Inv
<1> QED
  BY <1>1, <1>2, <1>3, <1>4, <1>5, <1>6, <1>7, <1>8, <1>9, <1>10, <1>11, <1>12, <1>13, <1>14,
     <1>15, <1>16, <1>17, <1>18, <1>19
     DEF LS!Next, LS!Main

(* lshal lists truly what it lists without an error, for all services,     *)
(* whatever they tell of themselves, and all manifests and libraries.      *)
THEOREM ListingIsSound == PartsSpec => []ListingSound
<1> DEFINE I == part = "lshal" => LS!Inv
<1>1. PartsInit => I
  BY LshalInit DEF PartsInit, OtherInit
<1>2. I /\ [PartsNext]_state => I'
  <2> SUFFICES ASSUME I, [PartsNext]_state, part = "lshal" PROVE LS!Inv'
    BY PartStays
  <2>1. CASE PartsNext
    <3>1. LS!Next
      BY <2>1 DEF PartsNext, BinderStep, DumpsysStep, ServiceStep, CacheStep, OtaStep,
                  CommandStep, AtraceStep, LshalStep, RelayStep, ReplayerStep, BackupStep
    <3> QED
      BY <3>1, LshalNext
  <2>2. CASE UNCHANGED state
    <3>1. LS!ThreadsOver' /\ LS!CachedKnown'
      BY <2>2, SlotsStutter DEF LS!Inv, LS!ThreadsOver, LS!CachedKnown
    <3>2. LS!Listed'
      BY <2>2, SlotsStutter DEF LS!Inv, LS!Listed, LS!InEntry
    <3>3. LS!EntriesGood'
      BY <2>2, SlotsStutter DEF LS!Inv, LS!EntriesGood, LS!InEntry
    <3>4. LS!Fetched'
      BY <2>2, SlotsStutter DEF LS!Inv, LS!Fetched
    <3> QED
      BY <3>1, <3>2, <3>3, <3>4 DEF LS!Inv
  <2> QED
    BY <2>1, <2>2
<1>3. I => ListingSound
  BY DEF ListingSound, LS!ListedTruly, LS!FetchTypes, LS!Inv, LS!Listed, LS!EntriesGood,
         LS!Fetched, LS!InEntry, LS!Good
<1> QED
  BY <1>1, <1>2, <1>3, PTL DEF PartsSpec

----------------------------------------------------------------------------
(* atrace: x1 is step, x2 inv, x4 enabled, x5 ok, x7 on, x8 events, x9     *)
(* options, x10 buffer, x11 tags, x12 apps, x13 seen, x14 pdx, x15 vendor, *)
(* x17 spoilt, x18 clean.                                                  *)

(* Before the first invocation nothing is set.                             *)
LEMMA AtraceInit == AT!Init => AT!Inv
BY DEF AT!Init, AT!Inv, AT!UserSpaceSet, AT!KernelSet, AT!OnlyOwn, AT!PutBack, AT!CleanWhenIdle,
       AT!StopRestores, AT!Idle, AT!ForCapture, AT!ForStart, AT!ForVendor, AT!ForEvents,
       AT!ForOptions

(* Every step of an invocation, of a signal and of the kernel keeps Inv.   *)
LEMMA AtraceNext == AT!Inv /\ AT!Next => AT!Inv'
<1> SUFFICES ASSUME AT!UserSpaceSet, AT!KernelSet, AT!OnlyOwn, AT!PutBack, AT!CleanWhenIdle, AT!Next
             PROVE  AT!Inv'
  BY DEF AT!Inv
<1> USE DEF AT!kernel, AT!user, AT!self, AT!ForCapture, AT!ForStart, AT!ForVendor, AT!ForEvents,
            AT!ForOptions
<1>1. ASSUME NEW i \in OfAtrace.invocations, AT!Invoke(i) PROVE AT!Inv'
  <2>1. AT!UserSpaceSet'
    BY <1>1 DEF AT!Invoke, AT!Starts, AT!UserSpaceSet
  <2>2. AT!KernelSet'
    BY <1>1 DEF AT!Invoke, AT!Starts, AT!KernelSet, AT!UserSpaceSet
  <2>3. AT!OnlyOwn'
    BY <1>1 DEF AT!Invoke, AT!Starts, AT!OnlyOwn, AT!UserSpaceSet
  <2>4. AT!PutBack'
    BY <1>1 DEF AT!Invoke, AT!Starts, AT!PutBack, AT!Stops
  <2>5. AT!CleanWhenIdle'
    BY <1>1 DEF AT!Invoke, AT!Starts, AT!CleanWhenIdle, AT!StopRestores, AT!PutBack
  <2> QED
    BY <2>1, <2>2, <2>3, <2>4, <2>5 DEF AT!Inv
<1>2. CASE AT!Signal
  <2>1. AT!UserSpaceSet'
    BY <1>2 DEF AT!Signal, AT!UserSpaceSet
  <2>2. AT!KernelSet'
    BY <1>2 DEF AT!Signal, AT!KernelSet, AT!UserSpaceSet
  <2>3. AT!OnlyOwn'
    BY <1>2 DEF AT!Signal, AT!OnlyOwn, AT!UserSpaceSet
  <2>4. AT!PutBack'
    BY <1>2 DEF AT!Signal, AT!PutBack, AT!Stops
  <2>5. AT!CleanWhenIdle'
    BY <1>2 DEF AT!Signal, AT!CleanWhenIdle, AT!StopRestores, AT!PutBack
  <2> QED
    BY <2>1, <2>2, <2>3, <2>4, <2>5 DEF AT!Inv
<1>3. CASE AT!Kill
  <2>1. AT!UserSpaceSet'
    BY <1>3 DEF AT!Kill, AT!UserSpaceSet
  <2>2. AT!KernelSet'
    BY <1>3 DEF AT!Kill, AT!KernelSet, AT!UserSpaceSet
  <2>3. AT!OnlyOwn'
    BY <1>3 DEF AT!Kill, AT!OnlyOwn, AT!UserSpaceSet
  <2>4. AT!PutBack'
    BY <1>3 DEF AT!Kill, AT!PutBack, AT!Stops
  <2>5. AT!CleanWhenIdle'
    BY <1>3 DEF AT!Kill, AT!CleanWhenIdle, AT!StopRestores, AT!PutBack
  <2> QED
    BY <2>1, <2>2, <2>3, <2>4, <2>5 DEF AT!Inv
<1>4. CASE AT!Record
  <2>1. AT!UserSpaceSet'
    BY <1>4 DEF AT!Record, AT!UserSpaceSet
  <2>2. AT!KernelSet'
    BY <1>4 DEF AT!Record, AT!KernelSet, AT!UserSpaceSet
  <2>3. AT!OnlyOwn'
    BY <1>4 DEF AT!Record, AT!OnlyOwn, AT!UserSpaceSet
  <2>4. AT!PutBack'
    BY <1>4 DEF AT!Record, AT!PutBack, AT!Stops
  <2>5. AT!CleanWhenIdle'
    BY <1>4 DEF AT!Record, AT!CleanWhenIdle, AT!StopRestores, AT!PutBack
  <2> QED
    BY <2>1, <2>2, <2>3, <2>4, <2>5 DEF AT!Inv
<1>5. CASE AT!SetTags
  <2>1. AT!UserSpaceSet'
    BY <1>5 DEF AT!SetTags, AT!UserSpaceSet
  <2>2. AT!KernelSet'
    BY <1>5 DEF AT!SetTags, AT!KernelSet, AT!UserSpaceSet
  <2>3. AT!OnlyOwn'
    BY <1>5 DEF AT!SetTags, AT!OnlyOwn, AT!UserSpaceSet
  <2>4. AT!PutBack'
    BY <1>5 DEF AT!SetTags, AT!PutBack, AT!Stops
  <2>5. AT!CleanWhenIdle'
    BY <1>5 DEF AT!SetTags, AT!CleanWhenIdle, AT!StopRestores, AT!PutBack
  <2> QED
    BY <2>1, <2>2, <2>3, <2>4, <2>5 DEF AT!Inv
<1>6. CASE AT!Poke
  <2>1. AT!UserSpaceSet'
    BY <1>6 DEF AT!Poke, AT!UserSpaceSet
  <2>2. AT!KernelSet'
    BY <1>6 DEF AT!Poke, AT!KernelSet, AT!UserSpaceSet
  <2>3. AT!OnlyOwn'
    BY <1>6 DEF AT!Poke, AT!OnlyOwn, AT!UserSpaceSet
  <2>4. AT!PutBack'
    BY <1>6 DEF AT!Poke, AT!PutBack, AT!Stops
  <2>5. AT!CleanWhenIdle'
    BY <1>6 DEF AT!Poke, AT!CleanWhenIdle, AT!StopRestores, AT!PutBack
  <2> QED
    BY <2>1, <2>2, <2>3, <2>4, <2>5 DEF AT!Inv
<1>7. CASE AT!SetOptions
  <2>1. AT!UserSpaceSet'
    BY <1>7 DEF AT!SetOptions, AT!UserSpaceSet
  <2>2. AT!KernelSet'
    <3> SUFFICES ASSUME x5'
                 PROVE  /\ x9' \ AT!PassedOver(x2, AT!Wanted(x2)) = AT!Wanted(x2)
                        /\ x4' = x2.args \cup x2.file
      BY <1>7 DEF AT!SetOptions, AT!KernelSet, AT!Wanted, AT!PassedOver, AT!MayWrite
    <3> DEFINE known == {c \in x2.file : AT!SetCategoryEnable(c, AT!Writable(x2))}
    <3>1. PICK failed \in AT!Failures(AT!Options \cap AT!MayWrite(x2)) :
            /\ x4' = x4 \cup known
            /\ x9' = AT!Written(AT!Options, x9, AT!Wanted(x2), failed \cup (AT!Options \ AT!MayWrite(x2)))
            /\ x5' = (failed = {} /\ AT!Denied(x2, AT!Options, AT!Wanted(x2)) = {} /\ known = x2.file)
      BY <1>7 DEF AT!SetOptions
    <3>2. failed = {} /\ AT!Denied(x2, AT!Options, AT!Wanted(x2)) = {} /\ known = x2.file
      BY <3>1
    <3>3. x9' = {x \in AT!Options : IF x \in AT!Options \ AT!MayWrite(x2) THEN x \in x9
                                    ELSE x \in AT!Wanted(x2)}
      BY <3>1, <3>2 DEF AT!Written
    <3>4. AT!Wanted(x2) \subseteq AT!Options
      BY DEF AT!Wanted, AT!Options
    <3>5. x4 = x2.args
      BY <1>7 DEF AT!SetOptions, AT!UserSpaceSet
    <3>6. AT!Options \ AT!MayWrite(x2) \subseteq AT!PassedOver(x2, AT!Wanted(x2))
      BY <3>2 DEF AT!Denied
    <3>7. /\ AT!PassedOver(x2, AT!Wanted(x2)) \cap AT!Wanted(x2) = {}
          /\ AT!PassedOver(x2, AT!Wanted(x2)) \cap AT!MayWrite(x2) = {}
      BY DEF AT!PassedOver
    <3>8. x9' \ AT!PassedOver(x2, AT!Wanted(x2)) = AT!Wanted(x2)
      BY <3>3, <3>4, <3>6, <3>7
    <3> QED
      BY <3>1, <3>2, <3>5, <3>8
  <2>3. AT!OnlyOwn'
    BY <1>7 DEF AT!SetOptions, AT!OnlyOwn, AT!UserSpaceSet
  <2>4. AT!PutBack'
    BY <1>7 DEF AT!SetOptions, AT!PutBack, AT!Stops
  <2>5. AT!CleanWhenIdle'
    BY <1>7 DEF AT!SetOptions, AT!CleanWhenIdle, AT!StopRestores, AT!PutBack
  <2> QED
    BY <2>1, <2>2, <2>3, <2>4, <2>5 DEF AT!Inv
<1>8. CASE AT!SetEvents
  <2>1. AT!UserSpaceSet'
    BY <1>8 DEF AT!SetEvents, AT!UserSpaceSet
  <2>2. AT!KernelSet'
    <3> DEFINE U == AT!FilesOf(x2.args \cup x2.file)
    <3>1. PICK failed \in AT!Failures(AT!Writable(x2)) :
            /\ x8' = AT!Written(AT!Events, x8, AT!EventsFor(x2, x4), failed)
            /\ x5' = (x5 /\ failed = {})
      BY <1>8 DEF AT!SetEvents
    <3>2. /\ x1 = "events" /\ x1' = "vendor" /\ x2' = x2 /\ x4' = x4 /\ x9' = x9
          /\ AT!Wanted(x2)' = AT!Wanted(x2) /\ AT!Writable(x2)' = AT!Writable(x2)
          /\ AT!PassedOver(x2, AT!Wanted(x2))' = AT!PassedOver(x2, AT!Wanted(x2))
      BY <1>8 DEF AT!SetEvents, AT!Wanted, AT!Writable, AT!PassedOver, AT!MayWrite
    <3>3. ASSUME x5', ~x2.userspace
          PROVE  x8' \cap AT!Writable(x2) = U \cap AT!Writable(x2)
      <4>1. failed = {} /\ x4 = x2.args \cup x2.file
        BY <3>1, <3>2, <3>3 DEF AT!KernelSet
      <4>2. U \subseteq AT!Events
        BY DEF AT!Events, AT!FilesOf
      <4>3. AT!EventsFor(x2, x4) = (x8 \ AT!Writable(x2)) \cup (U \cap AT!Writable(x2))
        BY <4>1 DEF AT!EventsFor
      <4>4. x8' = {e \in AT!Events : e \in AT!EventsFor(x2, x4)}
        BY <3>1, <4>1 DEF AT!Written
      <4> HIDE DEF U
      <4> QED
        BY <4>2, <4>3, <4>4
    <3>4. x5' => x5
      BY <3>1
    <3>5. ASSUME x5', ~x2'.userspace
          PROVE  x8' \cap AT!Writable(x2)' = AT!FilesOf(x2'.args \cup x2'.file) \cap AT!Writable(x2)'
      BY <3>2, <3>3, <3>5
    <3>6. ASSUME x5', ~x2'.userspace
          PROVE  /\ x9' \ AT!PassedOver(x2, AT!Wanted(x2))' = AT!Wanted(x2)'
                 /\ x4' = x2'.args \cup x2'.file
      BY <3>2, <3>4, <3>6 DEF AT!KernelSet
    <3> QED
      BY <3>2, <3>5, <3>6 DEF AT!KernelSet
  <2>3. AT!OnlyOwn'
    BY <1>8 DEF AT!SetEvents, AT!OnlyOwn, AT!UserSpaceSet
  <2>4. AT!PutBack'
    BY <1>8 DEF AT!SetEvents, AT!PutBack, AT!Stops
  <2>5. AT!CleanWhenIdle'
    BY <1>8 DEF AT!SetEvents, AT!CleanWhenIdle, AT!StopRestores, AT!PutBack
  <2> QED
    BY <2>1, <2>2, <2>3, <2>4, <2>5 DEF AT!Inv
<1>9. CASE AT!SetVendor
  <2>1. AT!UserSpaceSet'
    BY <1>9 DEF AT!SetVendor, AT!UserSpaceSet
  <2>2. AT!KernelSet'
    BY <1>9 DEF AT!SetVendor, AT!KernelSet, AT!UserSpaceSet
  <2>3. AT!OnlyOwn'
    BY <1>9 DEF AT!SetVendor, AT!OnlyOwn, AT!UserSpaceSet
  <2>4. AT!PutBack'
    BY <1>9 DEF AT!SetVendor, AT!PutBack, AT!Stops
  <2>5. AT!CleanWhenIdle'
    BY <1>9 DEF AT!SetVendor, AT!CleanWhenIdle, AT!StopRestores, AT!PutBack
  <2> QED
    BY <2>1, <2>2, <2>3, <2>4, <2>5 DEF AT!Inv
<1>10. CASE AT!StartTrace
  <2>1. AT!UserSpaceSet'
    BY <1>10 DEF AT!StartTrace, AT!UserSpaceSet
  <2>2. AT!KernelSet'
    BY <1>10 DEF AT!StartTrace, AT!KernelSet, AT!UserSpaceSet
  <2>3. AT!OnlyOwn'
    BY <1>10 DEF AT!StartTrace, AT!OnlyOwn, AT!UserSpaceSet
  <2>4. AT!PutBack'
    BY <1>10 DEF AT!StartTrace, AT!PutBack, AT!Stops
  <2>5. AT!CleanWhenIdle'
    BY <1>10 DEF AT!StartTrace, AT!CleanWhenIdle, AT!StopRestores, AT!PutBack
  <2> QED
    BY <2>1, <2>2, <2>3, <2>4, <2>5 DEF AT!Inv
<1>11. CASE AT!ClearTrace
  <2>1. AT!UserSpaceSet'
    BY <1>11 DEF AT!ClearTrace, AT!UserSpaceSet
  <2>2. AT!KernelSet'
    BY <1>11 DEF AT!ClearTrace, AT!KernelSet, AT!UserSpaceSet
  <2>3. AT!OnlyOwn'
    BY <1>11 DEF AT!ClearTrace, AT!OnlyOwn, AT!UserSpaceSet
  <2>4. AT!PutBack'
    BY <1>11 DEF AT!ClearTrace, AT!PutBack, AT!Stops
  <2>5. AT!CleanWhenIdle'
    BY <1>11 DEF AT!ClearTrace, AT!CleanWhenIdle, AT!StopRestores, AT!PutBack
  <2> QED
    BY <2>1, <2>2, <2>3, <2>4, <2>5 DEF AT!Inv
<1>12. CASE AT!Capture
  <2>1. AT!UserSpaceSet'
    BY <1>12 DEF AT!Capture, AT!UserSpaceSet
  <2>2. AT!KernelSet'
    BY <1>12 DEF AT!Capture, AT!KernelSet, AT!UserSpaceSet
  <2>3. AT!OnlyOwn'
    BY <1>12 DEF AT!Capture, AT!OnlyOwn, AT!UserSpaceSet
  <2>4. AT!PutBack'
    BY <1>12 DEF AT!Capture, AT!PutBack, AT!Stops
  <2>5. AT!CleanWhenIdle'
    BY <1>12 DEF AT!Capture, AT!CleanWhenIdle, AT!StopRestores, AT!PutBack
  <2> QED
    BY <2>1, <2>2, <2>3, <2>4, <2>5 DEF AT!Inv
<1>13. CASE AT!StopTrace
  <2>1. AT!UserSpaceSet'
    BY <1>13 DEF AT!StopTrace, AT!UserSpaceSet
  <2>2. AT!KernelSet'
    BY <1>13 DEF AT!StopTrace, AT!KernelSet, AT!UserSpaceSet
  <2>3. AT!OnlyOwn'
    BY <1>13 DEF AT!StopTrace, AT!OnlyOwn, AT!UserSpaceSet
  <2>4. AT!PutBack'
    BY <1>13 DEF AT!StopTrace, AT!PutBack, AT!Stops
  <2>5. AT!CleanWhenIdle'
    BY <1>13 DEF AT!StopTrace, AT!CleanWhenIdle, AT!StopRestores, AT!PutBack
  <2> QED
    BY <2>1, <2>2, <2>3, <2>4, <2>5 DEF AT!Inv
<1>14. CASE AT!Dump
  <2>1. AT!UserSpaceSet'
    BY <1>14 DEF AT!Dump, AT!UserSpaceSet
  <2>2. AT!KernelSet'
    BY <1>14 DEF AT!Dump, AT!KernelSet, AT!UserSpaceSet
  <2>3. AT!OnlyOwn'
    BY <1>14 DEF AT!Dump, AT!OnlyOwn, AT!UserSpaceSet
  <2>4. AT!PutBack'
    BY <1>14 DEF AT!Dump, AT!PutBack, AT!Stops
  <2>5. AT!CleanWhenIdle'
    BY <1>14 DEF AT!Dump, AT!CleanWhenIdle, AT!StopRestores, AT!PutBack
  <2> QED
    BY <2>1, <2>2, <2>3, <2>4, <2>5 DEF AT!Inv
<1>15. CASE AT!VendorOff
  <2>1. AT!UserSpaceSet'
    BY <1>15 DEF AT!VendorOff, AT!UserSpaceSet
  <2>2. AT!KernelSet'
    BY <1>15 DEF AT!VendorOff, AT!KernelSet, AT!UserSpaceSet
  <2>3. AT!OnlyOwn'
    BY <1>15 DEF AT!VendorOff, AT!OnlyOwn, AT!UserSpaceSet
  <2>4. AT!PutBack'
    BY <1>15 DEF AT!VendorOff, AT!PutBack, AT!Stops
  <2>5. AT!CleanWhenIdle'
    BY <1>15 DEF AT!VendorOff, AT!CleanWhenIdle, AT!StopRestores, AT!PutBack
  <2> QED
    BY <2>1, <2>2, <2>3, <2>4, <2>5 DEF AT!Inv
<1>16. CASE AT!TagsOff
  <2>1. AT!UserSpaceSet'
    BY <1>16 DEF AT!TagsOff, AT!UserSpaceSet
  <2>2. AT!KernelSet'
    BY <1>16 DEF AT!TagsOff, AT!KernelSet, AT!UserSpaceSet
  <2>3. AT!OnlyOwn'
    BY <1>16 DEF AT!TagsOff, AT!OnlyOwn, AT!UserSpaceSet
  <2>4. AT!PutBack'
    BY <1>16 DEF AT!TagsOff, AT!PutBack, AT!Stops
  <2>5. AT!CleanWhenIdle'
    BY <1>16 DEF AT!TagsOff, AT!CleanWhenIdle, AT!StopRestores, AT!PutBack
  <2> QED
    BY <2>1, <2>2, <2>3, <2>4, <2>5 DEF AT!Inv
<1>17. CASE AT!PokeOff
  <2>1. AT!UserSpaceSet'
    BY <1>17 DEF AT!PokeOff, AT!UserSpaceSet
  <2>2. AT!KernelSet'
    BY <1>17 DEF AT!PokeOff, AT!KernelSet, AT!UserSpaceSet
  <2>3. AT!OnlyOwn'
    BY <1>17 DEF AT!PokeOff, AT!OnlyOwn, AT!UserSpaceSet
  <2>4. AT!PutBack'
    BY <1>17 DEF AT!PokeOff, AT!PutBack, AT!Stops
  <2>5. AT!CleanWhenIdle'
    BY <1>17 DEF AT!PokeOff, AT!CleanWhenIdle, AT!StopRestores, AT!PutBack
  <2> QED
    BY <2>1, <2>2, <2>3, <2>4, <2>5 DEF AT!Inv
<1>18. CASE AT!KernelOff
  <2>1. AT!UserSpaceSet'
    BY <1>18 DEF AT!KernelOff, AT!UserSpaceSet
  <2>2. AT!KernelSet'
    BY <1>18 DEF AT!KernelOff, AT!KernelSet, AT!UserSpaceSet
  <2>3. AT!OnlyOwn'
    BY <1>18 DEF AT!KernelOff, AT!OnlyOwn, AT!UserSpaceSet
  <2>4. AT!PutBack'
    BY <1>18 DEF AT!KernelOff, AT!PutBack, AT!Stops
  <2>5. AT!CleanWhenIdle'
    <3>1. PICK failed :
            /\ x8' = AT!Written(AT!Events, x8, x8 \ AT!Writable(x2), failed)
            /\ x9' = AT!Written(AT!Options, x9, x9 \cap AT!Defaults,
                                failed \cup (AT!Options \ AT!MayWrite(x2)))
            /\ x17' = (x17 \/ failed # {} \/ AT!Denied(x2, AT!Options \ AT!Defaults, {}) # {})
      BY <1>18 DEF AT!KernelOff
    <3>2. /\ x1 = "kernelOff" /\ x1' = "idle" /\ x2' = x2 /\ x7' = x7 /\ x15' = x15
          /\ x11' = x11 /\ x12' = x12 /\ x13' = x13
          /\ x18' = IF x17' THEN "nothing" ELSE "all"
      BY <1>18 DEF AT!KernelOff
    <3>3. ASSUME x18' # "nothing"
          PROVE  /\ x11' = {} /\ x12' = "unset" /\ x13' = {} /\ ~x7' /\ x15' = {}
                 /\ x8' \cap AT!Writable(x2)' = {}
                 /\ x9' \subseteq AT!Defaults \cup (AT!FunctionTracing \ AT!MayWrite(x2)')
      <4>1. failed = {} /\ ~x17 /\ AT!Denied(x2, AT!Options \ AT!Defaults, {}) = {}
        BY <3>1, <3>2, <3>3
      <4>2. AT!Writable(x2)' = AT!Writable(x2) /\ AT!MayWrite(x2)' = AT!MayWrite(x2)
        BY <3>2 DEF AT!Writable, AT!MayWrite
      <4>3. x8' \cap AT!Writable(x2)' = {}
        BY <3>1, <4>1, <4>2 DEF AT!Written
      <4>4. x9' = {x \in AT!Options : IF x \in AT!Options \ AT!MayWrite(x2) THEN x \in x9
                                      ELSE x \in x9 \cap AT!Defaults}
        BY <3>1, <4>1 DEF AT!Written
      <4>5. (AT!Options \ AT!Defaults) \ AT!MayWrite(x2) \subseteq AT!FunctionTracing
        BY <4>1 DEF AT!Denied, AT!PassedOver
      <4>6. x9' \subseteq AT!Defaults \cup (AT!FunctionTracing \ AT!MayWrite(x2)')
        BY <4>2, <4>4, <4>5
      <4> QED
        BY <3>2, <4>1, <4>3, <4>6 DEF AT!PutBack
    <3> QED
      BY <3>2, <3>3 DEF AT!CleanWhenIdle, AT!StopRestores
  <2> QED
    BY <2>1, <2>2, <2>3, <2>4, <2>5 DEF AT!Inv
<1> QED
  BY <1>1, <1>2, <1>3, <1>4, <1>5, <1>6, <1>7, <1>8, <1>9, <1>10, <1>11, <1>12, <1>13, <1>14,
     <1>15, <1>16, <1>17, <1>18
     DEF AT!Next

(* atrace captures what was asked for and puts everything back that it may *)
(* write, for all categories, invocations, permissions and settings that   *)
(* others left.                                                            *)
THEOREM TracesAreSound == PartsSpec => []TraceSound
<1> DEFINE I == part = "atrace" => AT!Inv
<1>1. PartsInit => I
  BY AtraceInit DEF PartsInit, OtherInit
<1>2. I /\ [PartsNext]_state => I'
  <2> SUFFICES ASSUME I, [PartsNext]_state, part = "atrace" PROVE AT!Inv'
    BY PartStays
  <2>1. CASE PartsNext
    <3>1. AT!Next
      BY <2>1 DEF PartsNext, BinderStep, DumpsysStep, ServiceStep, CacheStep, OtaStep,
                  CommandStep, AtraceStep, LshalStep, RelayStep, ReplayerStep, BackupStep
    <3> QED
      BY <3>1, AtraceNext
  <2>2. CASE UNCHANGED state
    <3>1. AT!UserSpaceSet'
      BY <2>2, SlotsStutter DEF AT!Inv, AT!UserSpaceSet
    <3>4. AT!OnlyOwn'
      BY <2>2, SlotsStutter DEF AT!Inv, AT!OnlyOwn
    <3>5. AT!PutBack'
      <4>1. /\ x1' = x1 /\ x2' = x2 /\ x7' = x7 /\ x11' = x11 /\ x12' = x12 /\ x13' = x13
            /\ x15' = x15 /\ x17' = x17 /\ AT!Stops(x2)' = AT!Stops(x2)
        BY <2>2, SlotsStutter DEF AT!Stops
      <4>2. AT!PutBack
        BY DEF AT!Inv
      <4> QED
        BY <4>1, <4>2 DEF AT!PutBack
    <3>2. AT!KernelSet'
      BY <2>2, SlotsStutter DEF AT!Inv, AT!KernelSet, AT!Wanted, AT!Writable, AT!PassedOver, AT!MayWrite
    <3>3. AT!CleanWhenIdle'
      BY <2>2, SlotsStutter DEF AT!Inv, AT!CleanWhenIdle, AT!StopRestores, AT!Writable, AT!MayWrite
    <3> QED
      BY <3>1, <3>2, <3>3, <3>4, <3>5 DEF AT!Inv
  <2> QED
    BY <2>1, <2>2
<1>3. I => TraceSound
  BY DEF TraceSound, AT!CaptureIsAsked, AT!Inv, AT!UserSpaceSet, AT!KernelSet, AT!OnlyOwn,
         AT!CleanWhenIdle,
         AT!ForCapture, AT!ForStart, AT!ForVendor, AT!ForEvents, AT!ForOptions
<1> QED
  BY <1>1, <1>2, <1>3, PTL DEF PartsSpec

----------------------------------------------------------------------------
(* rawbu: x1 is pc, x2 data, x3 archive, x4 where, x5 all, x7 todo, x8     *)
(* writes, x11 source, x12 before, x13 stuck, x14 missed.                  *)

(* A set of natural numbers has a least element.                           *)
LEMMA Least ==
  ASSUME NEW T, T \subseteq Nat, T # {}
  PROVE  \E x \in T : \A y \in T : x <= y
<1> DEFINE Less == OpToRel(<, Nat)
<1>1. \A x, y \in Nat : <<y, x>> \in Less <=> y < x
  BY DEF OpToRel
<1>2. IsWellFoundedOn(Less, Nat)
  BY NatLessThanWellFounded, Zenon
<1> HIDE DEF Less
<1>3. \E x \in T : \A y \in T : ~(<<y, x>> \in Less)
  BY <1>2, WFMin, Zenon
<1>4. \A x \in T, y \in T : ~(y < x) => x <= y
  OBVIOUS
<1>5. \A x \in T, y \in T : <<y, x>> \in Less <=> y < x
  BY <1>1
<1> QED
  BY <1>3, <1>4, <1>5

(* Before the first call nothing has been saved.                           *)
LEMMA BackupInit == RB!Init => RB!Inv
<1> SUFFICES ASSUME RB!Init PROVE RB!Inv
  OBVIOUS
<1>1. RB!TypeOK
  BY DEF RB!Init, RB!TypeOK
<1>2. RB!Sound(x3)
  BY DEF RB!Init, RB!Sound, RB!NoArchive
<1>3. RB!TreeOK /\ RB!DirsKept
  BY PartsAssumption DEF RB!Init, RB!TreeOK, RB!DirsKept, RB!There, RB!Above, RB!Nothing, RB!PlacesAssumption
<1>4. RB!Saving /\ RB!Wiping /\ RB!Making
  BY DEF RB!Init, RB!Saving, RB!Wiping, RB!Making
<1> QED
  BY <1>1, <1>2, <1>3, <1>4 DEF RB!Inv

(* A file that is cut anywhere is still true as far as it goes.            *)
LEMMA TornSound ==
  ASSUME NEW a, RB!Sound(a), NEW b \in RB!Torn(a)
  PROVE  RB!Sound(b)
<1> DEFINE Node == [place : DOMAIN OfBackup.in, value : Int, whole : BOOLEAN]
<1>0. a.nodes \in Seq(Node) /\ DOMAIN a.nodes = 1..Len(a.nodes) /\ Len(a.nodes) \in Nat
  BY DEF RB!Sound
<1> HIDE DEF Node
<1>1. CASE \E h \in 0..a.head : b = [RB!NoArchive EXCEPT !.head = h, !.all = h = 2 /\ a.all]
  <2>1. PICK h \in 0..a.head : b = [RB!NoArchive EXCEPT !.head = h, !.all = h = 2 /\ a.all]
    BY <1>1
  <2>2. /\ b.head = h /\ (b.all => h = 2) /\ b.nodes = <<>> /\ ~b.ended
        /\ DOMAIN b = {"head", "all", "nodes", "ended"}
    BY <2>1 DEF RB!NoArchive
  <2>3. h \in 0..2
    BY <2>1 DEF RB!Sound
  <2> QED
    BY <2>2, <2>3 DEF RB!Sound
<1>2. CASE \E i \in DOMAIN a.nodes : b = [a EXCEPT !.nodes = SubSeq(@, 1, i), !.ended = FALSE]
  <2>1. PICK i \in DOMAIN a.nodes : b = [a EXCEPT !.nodes = SubSeq(@, 1, i), !.ended = FALSE]
    BY <1>2
  <2>2. /\ b.nodes = SubSeq(a.nodes, 1, i) /\ ~b.ended /\ b.head = a.head /\ (b.all <=> a.all)
        /\ DOMAIN b = {"head", "all", "nodes", "ended"}
    BY <2>1 DEF RB!Sound
  <2>3. /\ b.nodes \in Seq(Node) /\ DOMAIN b.nodes = 1..i /\ 1..i \subseteq DOMAIN a.nodes
        /\ \A j \in 1..i : b.nodes[j] = a.nodes[j]
    BY <1>0, <2>2
  <2>4. \A j \in DOMAIN b.nodes :
          LET node == b.nodes[j] IN
          /\ node.place \notin OfBackup.links /\ (node.whole \/ node.place \notin OfBackup.dirs)
          /\ node.value = x11[node.place] /\ node.value # RB!Nothing /\ RB!Saved(node.place, b.all)
    BY <2>2, <2>3 DEF RB!Sound, RB!Saved
  <2> QED
    BY <2>2, <2>3, <2>4, SMTT(20) DEF RB!Sound, Node
<1>3. CASE \E i \in {j \in DOMAIN a.nodes : a.nodes[j].place \notin OfBackup.dirs} :
             b = [a EXCEPT !.nodes = [SubSeq(@, 1, i) EXCEPT ![i].whole = FALSE], !.ended = FALSE]
  <2>1. PICK i \in {j \in DOMAIN a.nodes : a.nodes[j].place \notin OfBackup.dirs} :
             b = [a EXCEPT !.nodes = [SubSeq(@, 1, i) EXCEPT ![i].whole = FALSE], !.ended = FALSE]
    BY <1>3
  <2> DEFINE cut == SubSeq(a.nodes, 1, i)
  <2>2. /\ b.nodes = [cut EXCEPT ![i].whole = FALSE] /\ ~b.ended /\ b.head = a.head
        /\ (b.all <=> a.all) /\ DOMAIN b = {"head", "all", "nodes", "ended"}
    BY <2>1 DEF RB!Sound
  <2>3. /\ cut \in Seq(Node) /\ DOMAIN cut = 1..i /\ 1..i \subseteq DOMAIN a.nodes /\ i \in 1..i
        /\ Len(cut) = i
        /\ \A j \in 1..i : cut[j] = a.nodes[j]
    BY <1>0
  <2> HIDE DEF cut
  <2>4. /\ b.nodes \in Seq(Node) /\ DOMAIN b.nodes = 1..i
        /\ b.nodes[i] = [cut[i] EXCEPT !.whole = FALSE]
        /\ \A j \in 1..i : j # i => b.nodes[j] = cut[j]
    <3>1. cut[i] \in Node
      BY <2>3
    <3>2. [cut[i] EXCEPT !.whole = FALSE] \in Node
      BY <3>1 DEF Node
    <3> QED
      BY <2>2, <2>3, <3>2
  <2>5. \A j \in 1..i : b.nodes[j].place = a.nodes[j].place /\ b.nodes[j].value = a.nodes[j].value
    <3>1. cut[i] \in Node
      BY <2>3
    <3>2. b.nodes[i].place = a.nodes[i].place /\ b.nodes[i].value = a.nodes[i].value
      BY <2>3, <2>4, <3>1 DEF Node
    <3> QED
      BY <2>3, <2>4, <3>2
  <2>6. \A j \in DOMAIN b.nodes :
          LET node == b.nodes[j] IN
          /\ node.place \notin OfBackup.links /\ (node.whole \/ node.place \notin OfBackup.dirs)
          /\ node.value = x11[node.place] /\ node.value # RB!Nothing /\ RB!Saved(node.place, b.all)
    <3> SUFFICES ASSUME NEW j \in 1..i
                 PROVE  LET node == b.nodes[j] IN
          /\ node.place \notin OfBackup.links /\ (node.whole \/ node.place \notin OfBackup.dirs)
          /\ node.value = x11[node.place] /\ node.value # RB!Nothing /\ RB!Saved(node.place, b.all)
      BY <2>4
    <3>1. j = i => b.nodes[j].place \notin OfBackup.dirs
      BY <2>5
    <3>2. j # i => (b.nodes[j].whole <=> a.nodes[j].whole)
      BY <2>3, <2>4
    <3> QED
      BY <2>2, <2>3, <2>5, <3>1, <3>2 DEF RB!Sound, RB!Saved
  <2> QED
    BY <2>2, <2>3, <2>4, <2>5, <2>6 DEF RB!Sound, Node
<1> QED
  BY <1>1, <1>2, <1>3 DEF RB!Torn

(* What is left of the file has a first node.                              *)
LEMMA FirstLeft ==
  ASSUME RB!Sound(x3), x7 \subseteq DOMAIN x3.nodes, x7 # {}
  PROVE  RB!Current \in x7
<1>1. x7 \subseteq Nat
  BY DEF RB!Sound
<1>2. \E i \in x7 : \A j \in x7 : i <= j
  BY <1>1, Least
<1> QED
  BY <1>2 DEF RB!Current

(* What a restore relies on while it makes the nodes.                      *)
LEMMA NodesAt ==
  ASSUME RB!Sound(x3), NEW i \in DOMAIN x3.nodes
  PROVE  /\ x3.nodes[i].place \in DOMAIN OfBackup.in /\ x3.nodes[i].value \in Int
         /\ x3.nodes[i].place \in RB!Written(x3)
         /\ RB!Saved(x3.nodes[i].place, x3.all)
         /\ x3.nodes[i].value = x11[x3.nodes[i].place] /\ x3.nodes[i].value # RB!Nothing
         /\ x3.nodes[i].whole \/ x3.nodes[i].place \notin OfBackup.dirs
<1> DEFINE Node == [place : DOMAIN OfBackup.in, value : Int, whole : BOOLEAN]
<1> HIDE DEF Node
<1>1. x3.nodes \in Seq(Node)
  BY DEF RB!Sound, Node
<1>2. x3.nodes[i] \in Node
  BY <1>1
<1>3. x3.nodes[i].place \in DOMAIN OfBackup.in /\ x3.nodes[i].value \in Int
  BY <1>2 DEF Node
<1> QED
  BY <1>3 DEF RB!Sound, RB!Written

(* Nothing that is written by a restore is left alone by it.               *)
LEMMA SavedReached ==
  ASSUME NEW p, RB!Saved(p, x3.all), RB!SameOption
  PROVE  RB!Reached(p, x5) /\ ~(RB!Emptied(p, x5) /\ ~x5)
BY DEF RB!Saved, RB!SameOption, RB!Reached, RB!Emptied, RB!Kept

(* A step that changes neither the files nor the archive.                  *)
LEMMA FilesKept ==
  ASSUME RB!TypeOK, RB!TreeOK, RB!DirsKept, x2' = x2, x11' = x11, x4' = x4, x8' = x8,
         x12' = x12 \/ x12' = x2
  PROVE  RB!TypeOK' /\ RB!TreeOK' /\ RB!DirsKept'
BY DEF RB!TypeOK, RB!TreeOK, RB!DirsKept, RB!There, RB!Above

(* A backup file that is sound for the data it was made from stays so as   *)
(* long as these are the same, whatever else the backup misses.            *)
LEMMA SoundAfter ==
  ASSUME RB!Sound(x3'), x11' = x11, x14 \subseteq x14'
  PROVE  RB!Sound(x3)'
BY DEF RB!Sound, RB!Written, RB!Saved, RB!Above, RB!Missed

(* In particular one that is left alone.                                   *)
LEMMA SoundKept ==
  ASSUME RB!Sound(x3), x3' = x3, x11' = x11, x14 \subseteq x14'
  PROVE  RB!Sound(x3)'
BY SoundAfter

(* Outside of a call.                                                      *)
LEMMA Outside ==
  ASSUME x1' = "idle"
  PROVE  RB!Saving' /\ RB!Wiping' /\ RB!Making'
BY DEF RB!Saving, RB!Wiping, RB!Making

(* Every call, step of a call, failure and restart keeps Inv.              *)
LEMMA BackupNext == RB!Inv /\ RB!Next => RB!Inv'
<1> SUFFICES ASSUME RB!TypeOK, RB!Sound(x3), RB!TreeOK, RB!DirsKept, RB!Saving, RB!Wiping, RB!Making,
                    RB!Next
             PROVE  RB!Inv'
  BY DEF RB!Inv
<1> DEFINE Places == DOMAIN OfBackup.in
<1>0. /\ "/data" \notin Places \cup OfBackup.notouch \cup OfBackup.nobackup
      /\ OfBackup.dirs \subseteq Places /\ OfBackup.links \subseteq Places \ OfBackup.dirs
      /\ OfBackup.nobackup \subseteq OfBackup.dirs
      /\ \A p \in Places : \/ OfBackup.in[p] = "/data"
                           \/ OfBackup.in[p] \in OfBackup.dirs /\ OfBackup.in[OfBackup.in[p]] = "/data"
      /\ \A w \in OfBackup.where \cap Places : w \in OfBackup.dirs /\ OfBackup.in[w] = "/data"
  BY PartsAssumption DEF RB!PlacesAssumption
<1>1. ASSUME NEW p \in Places, RB!AppWrites(p) PROVE RB!Inv'
  <2>1. PICK v \in {x8 + 2, RB!Nothing} : x2' = [x2 EXCEPT ![p] = v]
    BY <1>1 DEF RB!AppWrites
  <2>2. /\ x1 = "idle" /\ x1' = x1 /\ x3' = x3 /\ x4' = x4 /\ x8' = x8 + 1 /\ x11' = x11 /\ x12' = x12
        /\ x14' = x14 /\ p \notin OfBackup.dirs /\ RB!There(RB!Above(p))
    BY <1>1 DEF RB!AppWrites, RB!history
  <2>3. RB!TypeOK'
    BY <2>1, <2>2 DEF RB!TypeOK, RB!Nothing
  <2>4. RB!TreeOK'
    BY <1>0, <2>1, <2>2 DEF RB!TypeOK, RB!TreeOK, RB!There, RB!Above
  <2>5. RB!DirsKept'
    BY <1>0, <2>1, <2>2 DEF RB!TypeOK, RB!DirsKept
  <2> QED
    BY <2>2, <2>3, <2>4, <2>5, SoundKept, Outside DEF RB!Inv
<1>2. ASSUME NEW p \in Places, RB!SaveNode(p) PROVE RB!Inv'
  <2> DEFINE node == [place |-> p, value |-> x2[p], whole |-> TRUE]
  <2>1. /\ x1 = "save" /\ x1' = x1 /\ x2' = x2 /\ x4' = x4 /\ x5' = x5 /\ x8' = x8 /\ x11' = x11
        /\ x12' = x12 /\ x14' = x14 /\ x3' = [x3 EXCEPT !.nodes = Append(@, node)]
    BY <1>2 DEF RB!SaveNode, RB!history
  <2>2. /\ x2[p] # RB!Nothing /\ p \notin OfBackup.links /\ ~RB!Skipped(p) /\ p \notin RB!Written(x3)
        /\ RB!Above(p) = "/data" \/ RB!Above(p) \in RB!Written(x3)
    BY <1>0, <1>2 DEF RB!SaveNode, RB!ToSave, RB!Unsaved, RB!There
  <2>3. /\ x3'.nodes = Append(x3.nodes, node) /\ x3'.head = x3.head /\ (x3'.all <=> x3.all)
        /\ (x3'.ended <=> x3.ended) /\ DOMAIN x3' = {"head", "all", "nodes", "ended"}
    BY <2>1 DEF RB!Sound
  <2>4. RB!SameOption /\ x2 = x11
    BY <2>1 DEF RB!Saving
  <2>5. RB!Saved(p, x3.all)
    <3>1. RB!Above(p) \in RB!Written(x3) => RB!Saved(RB!Above(p), x3.all)
      BY DEF RB!Sound, RB!Written
    <3> QED
      BY <1>0, <2>2, <2>4, <3>1 DEF RB!Saved, RB!Skipped, RB!SameOption, RB!Above
  <2>6. RB!Sound(x3)'
    <3> DEFINE Node == [place : Places, value : Int, whole : BOOLEAN]
    <3> DEFINE n == Len(x3.nodes)
    <3>1. x3.nodes \in Seq(Node) /\ n \in Nat /\ DOMAIN x3.nodes = 1..n
      BY DEF RB!Sound
    <3>2. node \in Node
      BY DEF RB!TypeOK
    <3> HIDE DEF Node, node
    <3>3. /\ x3'.nodes \in Seq(Node) /\ DOMAIN x3'.nodes = 1..(n + 1) /\ x3'.nodes[n + 1] = node
          /\ \A i \in 1..n : x3'.nodes[i] = x3.nodes[i]
      BY <2>3, <3>1, <3>2
    <3>4. node.place = p /\ node.value = x11[p] /\ node.value # RB!Nothing /\ node.whole
      BY <2>2, <2>4 DEF node
    <3> HIDE DEF n
    <3>5. \A i \in DOMAIN x3'.nodes : i \in 1..n \/ i = n + 1
      BY <3>1, <3>3
    <3>6. \A i \in DOMAIN x3'.nodes :
            LET nd == x3'.nodes[i] IN
            /\ nd.place \notin OfBackup.links /\ (nd.whole \/ nd.place \notin OfBackup.dirs)
            /\ nd.value = x11[nd.place] /\ nd.value # RB!Nothing /\ RB!Saved(nd.place, x3.all)
      BY <2>2, <2>5, <3>1, <3>3, <3>4, <3>5 DEF RB!Sound
    <3>7. \A i, j \in DOMAIN x3'.nodes : x3'.nodes[i].place = x3'.nodes[j].place => i = j
      <4>1. \A i \in 1..n : x3'.nodes[i].place # p
        BY <2>2, <3>1, <3>3 DEF RB!Written
      <4> QED
        BY <3>1, <3>3, <3>4, <3>5, <4>1, SMTT(20) DEF RB!Sound
    <3>8. RB!Written(x3) \subseteq RB!Written(x3')
      BY <3>1, <3>3 DEF RB!Written
    <3>9. ASSUME x3'.ended
          PROVE  \A q \in Places \ OfBackup.links :
                   x11[q] # RB!Nothing /\ RB!Saved(q, x3.all) => q \in RB!Written(x3') \/ RB!Missed(q)
      BY <2>3, <3>8, <3>9 DEF RB!Sound
    <3>10. \A q : RB!Saved(q, x3'.all) <=> RB!Saved(q, x3.all)
      BY <2>3 DEF RB!Saved
    <3>11. x3'.head \in 0..2 /\ (x3'.all => x3'.head = 2)
      BY <2>3 DEF RB!Sound
    <3>12. x3'.nodes \in Seq([place : Places, value : Int, whole : BOOLEAN])
      BY <3>3 DEF Node
    <3>13. RB!Sound(x3')
      BY <2>3, <3>6, <3>7, <3>9, <3>10, <3>11, <3>12, Zenon DEF RB!Sound
    <3> QED
      BY <2>1, <3>13, SoundAfter
  <2>7. RB!Saving'
    BY <2>1, <2>3, <2>4 DEF RB!Saving, RB!SameOption
  <2>8. RB!Wiping' /\ RB!Making'
    BY <2>1 DEF RB!Wiping, RB!Making
  <2> QED
    BY <2>1, <2>6, <2>7, <2>8, FilesKept DEF RB!Inv
<1>3. ASSUME NEW p \in Places, RB!WipeNode(p) PROVE RB!Inv'
  <2>1. /\ x1 = "wipe" /\ x1' = x1 /\ x3' = x3 /\ x4' = x4 /\ x5' = x5 /\ x8' = x8 /\ x11' = x11
        /\ x12' = x12 /\ x14' = x14 /\ p \in x7 /\ x7' = x7 \ {p}
    BY <1>3 DEF RB!WipeNode
  <2>2. \/ ~RB!Emptied(p, x5) /\ ~RB!Holds(p) /\ x2' = [x2 EXCEPT ![p] = RB!Nothing] /\ x13' = x13
        \/ (RB!Emptied(p, x5) \/ RB!Holds(p)) /\ x2' = x2 /\ x13' = x13
        \/ ~RB!Emptied(p, x5) /\ x13' = x13 \cup {p} /\ x2' = x2
    BY <1>3 DEF RB!WipeNode
  <2>3. /\ RB!SameOption /\ RB!LeftAlone /\ x7 \subseteq {q \in Places : RB!Reached(q, x5)}
        /\ \A q \in Places \ x7 : RB!WipedAt(q)
    BY <2>1 DEF RB!Wiping
  <2>4. RB!TypeOK'
    BY <2>1, <2>2 DEF RB!TypeOK, RB!Nothing
  <2>5. RB!TreeOK'
    BY <1>0, <2>1, <2>2 DEF RB!TypeOK, RB!TreeOK, RB!There, RB!Above, RB!Holds
  <2>6. RB!DirsKept'
    BY <1>0, <2>1, <2>2 DEF RB!TypeOK, RB!DirsKept
  <2>7. RB!LeftAlone'
    BY <2>1, <2>2, <2>3 DEF RB!TypeOK, RB!LeftAlone, RB!Reached, RB!Emptied, RB!Kept, RB!Above
  <2>8. RB!Holds(p) => p \in OfBackup.dirs /\ OfBackup.in[p] = "/data"
    BY <1>0 DEF RB!Holds, RB!Above, RB!TypeOK
  <2>9. ASSUME NEW q \in Places \ x7' PROVE RB!WipedAt(q)'
    <3>1. CASE q = p
      BY <2>1, <2>2, <2>8, <3>1
         DEF RB!TypeOK, RB!WipedAt, RB!Reached, RB!Emptied, RB!Kept, RB!Above
    <3>2. CASE q # p
      <4>1. RB!WipedAt(q) /\ x2'[q] = x2[q] /\ x13 \subseteq x13'
        BY <2>1, <2>2, <2>3, <2>9, <3>2 DEF RB!TypeOK
      <4> QED
        BY <2>1, <4>1 DEF RB!WipedAt, RB!Reached, RB!Emptied, RB!Kept, RB!Above
    <3> QED
      BY <3>1, <3>2
  <2>10. RB!SameOption' /\ x7' \subseteq {q \in Places : RB!Reached(q, x5)'}
    BY <2>1, <2>3 DEF RB!SameOption, RB!Reached, RB!Kept, RB!Above
  <2>11. RB!Wiping'
    BY <2>7, <2>9, <2>10 DEF RB!Wiping
  <2>12. RB!Saving' /\ RB!Making'
    BY <2>1 DEF RB!Saving, RB!Making
  <2> QED
    BY <2>1, <2>4, <2>5, <2>6, <2>11, <2>12, SoundKept DEF RB!Inv
<1>4. ASSUME NEW p, NEW d, RB!WipeUnseen(p) \/ RB!WipeBreaks(d) PROVE RB!Inv'
  <2>1. /\ x1 = "wipe" /\ x1' = x1 /\ x2' = x2 /\ x3' = x3 /\ x4' = x4 /\ x5' = x5 /\ x8' = x8
        /\ x11' = x11 /\ x12' = x12 /\ x14' = x14
        /\ \E W : x7' = x7 \ W /\ x13' = x13 \cup W
    BY <1>4 DEF RB!WipeUnseen, RB!WipeBreaks
  <2>2. RB!Wiping'
    <3>1. /\ RB!SameOption /\ RB!LeftAlone /\ x7 \subseteq {q \in Places : RB!Reached(q, x5)}
          /\ \A q \in Places \ x7 : RB!WipedAt(q)
      BY <2>1 DEF RB!Wiping
    <3>2. RB!LeftAlone' /\ RB!SameOption'
      BY <2>1, <3>1 DEF RB!LeftAlone, RB!SameOption, RB!Reached, RB!Emptied, RB!Kept, RB!Above
    <3>3. \A q \in Places \ x7' : RB!WipedAt(q)'
      BY <2>1, <3>1 DEF RB!WipedAt, RB!Reached, RB!Emptied, RB!Kept, RB!Above
    <3>4. x7' \subseteq {q \in Places : RB!Reached(q, x5)'}
      BY <2>1, <3>1 DEF RB!Reached, RB!Kept, RB!Above
    <3> QED
      BY <3>2, <3>3, <3>4 DEF RB!Wiping
  <2>3. RB!Saving' /\ RB!Making'
    BY <2>1 DEF RB!Saving, RB!Making
  <2> QED
    BY <2>1, <2>2, <2>3, SoundKept, FilesKept DEF RB!Inv
<1>5. CASE RB!Killed \/ RB!SaveFails \/ RB!Flush
  <2>1. /\ x1' = "idle" /\ x2' = x2 /\ x4' = x4 /\ x8' = x8 /\ x11' = x11 /\ x12' = x12
        /\ x14' = x14 /\ (x3' = x3 \/ x3' \in RB!Torn(x3))
    BY <1>5 DEF RB!Killed, RB!SaveFails, RB!Flush, RB!Exits
  <2>2. RB!Sound(x3')
    BY <2>1, TornSound
  <2>3. RB!Sound(x3)'
    BY <2>1, <2>2, SoundAfter
  <2> QED
    BY <2>1, <2>3, FilesKept, Outside DEF RB!Inv
<1>6. CASE RB!Restarted
  BY <1>6, FilesKept, SoundKept, Outside DEF RB!Restarted, RB!history, RB!Inv
<1>7. ASSUME NEW a \in BOOLEAN, RB!BeginBackup(a) PROVE RB!Inv'
  <2>1. /\ x1 = "idle" /\ x2' = x2 /\ x4' = x4 /\ x8' = x8 /\ x12' = x12
    BY <1>7 DEF RB!BeginBackup
  <2>2. CASE x1' = x1 /\ x3' = x3 /\ x11' = x11 /\ x14' = x14
    BY <2>1, <2>2, FilesKept, SoundKept, Outside DEF RB!Inv
  <2>3. CASE /\ x1' = "save" /\ x5' = a /\ x11' = x2
             /\ x3' = [RB!NoArchive EXCEPT !.head = 2, !.all = a]
    <3>1. /\ x3'.head = 2 /\ (x3'.all <=> a) /\ x3'.nodes = <<>> /\ ~x3'.ended
          /\ DOMAIN x3' = {"head", "all", "nodes", "ended"}
      BY <2>3 DEF RB!NoArchive
    <3>2. RB!Sound(x3)'
      BY <3>1 DEF RB!Sound
    <3>3. RB!TypeOK' /\ RB!TreeOK' /\ RB!DirsKept'
      BY <2>1, <2>3 DEF RB!TypeOK, RB!TreeOK, RB!DirsKept, RB!There, RB!Above
    <3>4. RB!Saving' /\ RB!Wiping' /\ RB!Making'
      BY <2>1, <2>3, <3>1 DEF RB!Saving, RB!Wiping, RB!Making, RB!SameOption
    <3> QED
      BY <3>2, <3>3, <3>4 DEF RB!Inv
  <2> QED
    BY <1>7, <2>2, <2>3 DEF RB!BeginBackup
<1>8. CASE RB!SaveEnds
  <2>1. /\ x1 = "save" /\ x1' = "end" /\ x2' = x2 /\ x4' = x4 /\ x5' = x5 /\ x8' = x8 /\ x11' = x11
        /\ x12' = x12 /\ x14' = x14 /\ x3' = [x3 EXCEPT !.ended = TRUE] /\ RB!ToSave = {}
    BY <1>8 DEF RB!SaveEnds, RB!history
  <2>2. /\ x3'.nodes = x3.nodes /\ x3'.head = x3.head /\ (x3'.all <=> x3.all)
        /\ DOMAIN x3' = {"head", "all", "nodes", "ended"}
    BY <2>1 DEF RB!Sound
  <2>3. RB!SameOption /\ x2 = x11
    BY <2>1 DEF RB!Saving
  <2>4. RB!Unsaved = {}
    BY <2>1 DEF RB!ToSave
  <2>5. \A q \in Places \ OfBackup.links :
          x11[q] # RB!Nothing /\ RB!Saved(q, x3.all) => q \in RB!Written(x3) \/ RB!Missed(q)
    <3>1. \A q \in Places \ OfBackup.links :
            /\ x11[q] # RB!Nothing /\ RB!Saved(q, x3.all)
            /\ RB!Above(q) = "/data" \/ RB!Above(q) \in RB!Written(x3)
            => q \in RB!Written(x3) \cup x14
      BY <1>0, <2>3, <2>4 DEF RB!Unsaved, RB!Saved, RB!Skipped, RB!SameOption, RB!There
    <3>2. ASSUME NEW q \in Places \ OfBackup.links, x11[q] # RB!Nothing, RB!Saved(q, x3.all),
                 RB!Above(q) # "/data"
          PROVE  RB!Above(q) \in RB!Written(x3) \cup x14
      <4>1. /\ RB!Above(q) \in OfBackup.dirs /\ RB!Above(RB!Above(q)) = "/data"
            /\ RB!Above(q) \in Places \ OfBackup.links
        BY <1>0, <3>2 DEF RB!Above
      <4>2. x11[RB!Above(q)] # RB!Nothing
        BY <2>3, <3>2 DEF RB!TreeOK, RB!There
      <4>3. RB!Saved(RB!Above(q), x3.all)
        BY <1>0, <3>2, <4>1 DEF RB!Saved
      <4> QED
        BY <3>1, <4>1, <4>2, <4>3
    <3> QED
      BY <3>1, <3>2 DEF RB!Missed
  <2>6. RB!Sound(x3)'
    BY <2>1, <2>2, <2>5 DEF RB!Sound, RB!Written, RB!Saved, RB!Above, RB!Missed
  <2>7. RB!Saving' /\ RB!Wiping' /\ RB!Making'
    BY <2>1, <2>2, <2>3 DEF RB!Saving, RB!Wiping, RB!Making, RB!SameOption
  <2> QED
    BY <2>1, <2>6, <2>7, FilesKept DEF RB!Inv
<1>9. CASE RB!BeginRestore
  <2>1. /\ x1 = "idle" /\ x2' = x2 /\ x3' = x3 /\ x4' = x4 /\ x8' = x8 /\ x11' = x11 /\ x12' = x2
        /\ x13' = {} /\ x14' = x14
    BY <1>9 DEF RB!BeginRestore
  <2>2. CASE x1' = x1
    BY <2>1, <2>2, FilesKept, SoundKept, Outside DEF RB!Inv
  <2>3. CASE /\ x1' = "wipe" /\ x5' = RB!OptionOf(x3)
             /\ x7' = {p \in Places : RB!There(p) /\ RB!Reached(p, x5')}
    <3>1. RB!SameOption'
      BY <2>1, <2>3 DEF RB!SameOption, RB!OptionOf, RB!Sound
    <3>2. RB!LeftAlone'
      BY <2>1 DEF RB!LeftAlone
    <3>3. x7' \subseteq {p \in Places : RB!Reached(p, x5)'}
      BY <2>3 DEF RB!Reached, RB!Kept, RB!Above
    <3>4. \A p \in Places \ x7' : RB!WipedAt(p)'
      BY <1>0, <2>1, <2>3 DEF RB!WipedAt, RB!Reached, RB!Kept, RB!Above, RB!There
    <3>5. RB!Saving' /\ RB!Wiping' /\ RB!Making'
      BY <2>3, <3>1, <3>2, <3>3, <3>4 DEF RB!Saving, RB!Wiping, RB!Making
    <3> QED
      BY <2>1, <3>5, FilesKept, SoundKept DEF RB!Inv
  <2> QED
    BY <1>9, <2>1, <2>2, <2>3 DEF RB!BeginRestore
<1>10. CASE RB!WipeFails \/ RB!StartSystem
  BY <1>10, FilesKept, SoundKept, Outside DEF RB!WipeFails, RB!StartSystem, RB!Exits, RB!Inv
<1>11. CASE RB!WipeEnds
  <2>1. /\ x1 = "wipe" /\ x1' = "make" /\ x2' = x2 /\ x3' = x3 /\ x4' = x4 /\ x5' = x5 /\ x8' = x8
        /\ x11' = x11 /\ x12' = x12 /\ x13' = x13 /\ x14' = x14 /\ x7 = {} /\ x7' = DOMAIN x3.nodes
    BY <1>11 DEF RB!WipeEnds, RB!history
  <2>2. RB!SameOption' /\ RB!LeftAlone'
    BY <2>1 DEF RB!Wiping, RB!LeftAlone, RB!SameOption, RB!Reached, RB!Emptied, RB!Kept, RB!Above
  <2>3. \A p \in Places : RB!WipedAt(p)'
    BY <2>1 DEF RB!Wiping, RB!WipedAt, RB!Reached, RB!Emptied, RB!Kept, RB!Above
  <2>4. RB!Saving' /\ RB!Wiping' /\ RB!Making'
    BY <2>1, <2>2, <2>3 DEF RB!Saving, RB!Wiping, RB!Making
  <2> QED
    BY <2>1, <2>4, FilesKept, SoundKept DEF RB!Inv
<1>12. CASE RB!MakeNode
  <2> DEFINE node == x3.nodes[RB!Current]
  <2>1. /\ x1 = "make" /\ x7 # {} /\ x3' = x3 /\ x4' = x4 /\ x8' = x8 /\ x11' = x11 /\ x12' = x12
        /\ x14' = x14
    BY <1>12 DEF RB!MakeNode
  <2>2. RB!Current \in x7 /\ RB!Current \in DOMAIN x3.nodes
    BY <2>1, FirstLeft DEF RB!Making
  <2>3. /\ node.place \in Places /\ node.value \in Int /\ node.place \in RB!Written(x3)
        /\ RB!Saved(node.place, x3.all)
        /\ node.value = x11[node.place] /\ node.value # RB!Nothing
        /\ node.whole \/ node.place \notin OfBackup.dirs
    BY <2>2, NodesAt
  <2> HIDE DEF node
  <2>4. ASSUME RB!Possible(node.place), NEW v \in Int,
               x2' = [x2 EXCEPT ![node.place] = v],
               x7' = x7 \ {RB!Current}, x1' = x1, x5' = x5, x13 \subseteq x13',
               \/ v = node.value
               \/ v = RB!Partial /\ node.place \notin OfBackup.dirs /\ node.place \in x13'
        PROVE  RB!Inv'
    <3>1. RB!TypeOK'
      BY <2>1, <2>3, <2>4 DEF RB!TypeOK
    <3>2. RB!TreeOK'
      BY <1>0, <2>3, <2>4 DEF RB!TypeOK, RB!TreeOK, RB!There, RB!Above, RB!Possible
    <3>3. RB!DirsKept'
      BY <1>0, <2>1, <2>3, <2>4 DEF RB!TypeOK, RB!DirsKept
    <3>4. RB!SameOption /\ RB!LeftAlone /\ (\A q \in Places \ RB!Written(x3) : RB!WipedAt(q))
      BY <2>1 DEF RB!Making
    <3>5. RB!SameOption'
      BY <2>1, <2>4, <3>4 DEF RB!SameOption
    <3>6. RB!LeftAlone'
      <4>1. RB!Reached(node.place, x5) /\ ~(RB!Emptied(node.place, x5) /\ ~x5)
        BY <2>3, <3>4, SavedReached
      <4> QED
        BY <2>1, <2>3, <2>4, <3>4, <4>1
           DEF RB!TypeOK, RB!LeftAlone, RB!Reached, RB!Emptied, RB!Kept, RB!Above
    <3>7. \A q \in Places \ RB!Written(x3) : RB!WipedAt(q)'
      BY <2>1, <2>3, <2>4, <3>4
         DEF RB!TypeOK, RB!WipedAt, RB!Reached, RB!Emptied, RB!Kept, RB!Above
    <3>8. x7' \subseteq DOMAIN x3.nodes
      BY <2>1, <2>4 DEF RB!Making
    <3>9. ASSUME NEW i \in DOMAIN x3.nodes \ x7'
          PROVE  \/ x2'[x3.nodes[i].place] = x3.nodes[i].value
                 \/ x2'[x3.nodes[i].place] = RB!Partial /\ x3.nodes[i].place \in x13'
      <4>1. CASE i = RB!Current
        BY <2>3, <2>4, <4>1 DEF RB!TypeOK, node
      <4>2. CASE i # RB!Current
        <5>1. x3.nodes[i].place # node.place
          BY <2>2, <4>2 DEF RB!Sound, node
        <5>2. /\ x3.nodes[i].place \in Places
              /\ \/ x2[x3.nodes[i].place] = x3.nodes[i].value
                 \/ x2[x3.nodes[i].place] = RB!Partial /\ x3.nodes[i].place \in x13
          BY <2>1, <2>4, <3>9, <4>2, NodesAt DEF RB!Making
        <5> QED
          BY <2>4, <5>1, <5>2 DEF RB!TypeOK
      <4> QED
        BY <4>1, <4>2
    <3>10. RB!Written(x3)' = RB!Written(x3)
      BY <2>1 DEF RB!Written
    <3>11. RB!Making'
      BY <2>1, <2>4, <3>5, <3>6, <3>7, <3>8, <3>9, <3>10 DEF RB!Making
    <3>12. RB!Saving' /\ RB!Wiping'
      BY <2>1, <2>4 DEF RB!Saving, RB!Wiping
    <3> QED
      BY <2>1, <3>1, <3>2, <3>3, <3>11, <3>12, SoundKept DEF RB!Inv
  <2>5. CASE x1' = "idle" /\ x2' = x2
    BY <2>1, <2>5, FilesKept, SoundKept, Outside DEF RB!Inv
  <2>6. ASSUME x1' = "idle", RB!Possible(node.place),
               NEW v \in Int, x2' = [x2 EXCEPT ![node.place] = v],
               v = node.value \/ node.place \notin OfBackup.dirs
        PROVE  RB!Inv'
    <3>1. RB!TypeOK'
      BY <2>1, <2>3, <2>6 DEF RB!TypeOK
    <3>2. RB!TreeOK'
      BY <1>0, <2>3, <2>6 DEF RB!TypeOK, RB!TreeOK, RB!There, RB!Above, RB!Possible
    <3>3. RB!DirsKept'
      BY <1>0, <2>1, <2>3, <2>6 DEF RB!TypeOK, RB!DirsKept
    <3> QED
      BY <2>1, <2>6, <3>1, <3>2, <3>3, SoundKept, Outside DEF RB!Inv
  <2>7. RB!Partial \in Int
    BY DEF RB!Partial
  <2>8. \/ /\ RB!Possible(node.place) /\ node.whole
           /\ x2' = [x2 EXCEPT ![node.place] = node.value]
           /\ x7' = x7 \ {RB!Current} /\ x1' = x1 /\ x5' = x5 /\ x13' = x13
        \/ /\ RB!Possible(node.place) /\ node.place \notin OfBackup.dirs
           /\ x2' = [x2 EXCEPT ![node.place] = RB!Partial] /\ x13' = x13 \cup {node.place}
           /\ x7' = x7 \ {RB!Current} /\ x1' = x1 /\ x5' = x5
        \/ x1' = "idle" /\ x2' = x2
        \/ /\ x1' = "idle" /\ RB!Possible(node.place) /\ ~node.whole
           /\ x2' = [x2 EXCEPT ![node.place] = RB!Partial]
        \/ /\ x1' = "idle" /\ RB!Possible(node.place)
           /\ \E v \in RB!Unfinished(node) : x2' = [x2 EXCEPT ![node.place] = v]
    BY <1>12 DEF RB!MakeNode, RB!Exits, node
  <2>9. CASE /\ x1' = "idle" /\ RB!Possible(node.place) /\ ~node.whole
             /\ x2' = [x2 EXCEPT ![node.place] = RB!Partial]
    BY <2>3, <2>6, <2>7, <2>9
  <2>10. CASE /\ x1' = "idle" /\ RB!Possible(node.place)
              /\ \E v \in RB!Unfinished(node) : x2' = [x2 EXCEPT ![node.place] = v]
    <3>1. \A v \in RB!Unfinished(node) : v \in Int /\ (v = node.value \/ node.place \notin OfBackup.dirs)
      BY <2>3, <2>7 DEF RB!Unfinished
    <3> QED
      BY <2>6, <2>10, <3>1
  <2> QED
    BY <2>3, <2>4, <2>5, <2>7, <2>8, <2>9, <2>10
<1>13. CASE RB!MakeEnds
  <2>1. /\ x1 = "make" /\ x7 = {} /\ x2' = x2 /\ x3' = x3 /\ x4' = x4 /\ x8' = x8 /\ x11' = x11
        /\ x12' = x12 /\ x14' = x14
    BY <1>13 DEF RB!MakeEnds
  <2>2. CASE x1' = "idle"
    BY <2>1, <2>2, FilesKept, SoundKept, Outside DEF RB!Inv
  <2>3. CASE x3.ended /\ x1' = "restored" /\ x5' = x5 /\ x7' = x7 /\ x13' = x13
    <3>1. /\ RB!SameOption /\ RB!LeftAlone /\ (\A q \in Places \ RB!Written(x3) : RB!WipedAt(q))
          /\ \A i \in DOMAIN x3.nodes \ x7 :
               \/ x2[x3.nodes[i].place] = x3.nodes[i].value
               \/ x2[x3.nodes[i].place] = RB!Partial /\ x3.nodes[i].place \in x13
      BY <2>1 DEF RB!Making
    <3>2. RB!SameOption' /\ RB!LeftAlone'
      BY <2>1, <2>3, <3>1 DEF RB!LeftAlone, RB!SameOption, RB!Reached, RB!Emptied, RB!Kept, RB!Above
    <3>3. \A q \in Places \ RB!Written(x3) : RB!WipedAt(q)'
      BY <2>1, <2>3, <3>1 DEF RB!WipedAt, RB!Reached, RB!Emptied, RB!Kept, RB!Above
    <3>4. RB!Written(x3)' = RB!Written(x3)
      BY <2>1 DEF RB!Written
    <3>5. RB!Making'
      BY <2>1, <2>3, <3>1, <3>2, <3>3, <3>4 DEF RB!Making
    <3>6. RB!Saving' /\ RB!Wiping'
      BY <2>3 DEF RB!Saving, RB!Wiping
    <3> QED
      BY <2>1, <3>5, <3>6, FilesKept, SoundKept DEF RB!Inv
  <2> QED
    BY <1>13, <2>2, <2>3 DEF RB!MakeEnds, RB!Exits
<1>14. ASSUME NEW d, RB!ListingBreaks(d) PROVE RB!Inv'
  <2>1. /\ x1 = "save" /\ x1' = x1 /\ x2' = x2 /\ x3' = x3 /\ x4' = x4 /\ x5' = x5 /\ x8' = x8
        /\ x11' = x11 /\ x12' = x12 /\ x14 \subseteq x14'
    BY <1>14 DEF RB!ListingBreaks
  <2>2. RB!Saving'
    BY <2>1 DEF RB!Saving, RB!SameOption
  <2>3. RB!Wiping' /\ RB!Making'
    BY <2>1 DEF RB!Wiping, RB!Making
  <2> QED
    BY <2>1, <2>2, <2>3, SoundKept, FilesKept DEF RB!Inv
<1> QED
  BY <1>1, <1>2, <1>3, <1>4, <1>5, <1>6, <1>7, <1>8, <1>9, <1>10, <1>11, <1>12, <1>13, <1>14
     DEF RB!Next

(* A restore that succeeds brings back what was there when the backup was  *)
(* made, but for the three failures that go unnoticed, for any files and   *)
(* however often backups and restores failed before.                       *)
THEOREM BackupsRestored == PartsSpec => []RestoredExactly
<1> DEFINE I == part = "backup" => RB!Inv
<1>1. PartsInit => I
  BY BackupInit DEF PartsInit, OtherInit
<1>2. I /\ [PartsNext]_state => I'
  <2> SUFFICES ASSUME I, [PartsNext]_state, part = "backup" PROVE RB!Inv'
    BY PartStays
  <2>1. CASE PartsNext
    <3>1. RB!Next
      BY <2>1 DEF PartsNext, BinderStep, DumpsysStep, ServiceStep, CacheStep, OtaStep,
                  CommandStep, AtraceStep, LshalStep, RelayStep, ReplayerStep, BackupStep
    <3> QED
      BY <3>1, BackupNext
  <2>2. CASE UNCHANGED state
    <3>1. /\ x1' = x1 /\ x2' = x2 /\ x3' = x3 /\ x4' = x4 /\ x5' = x5 /\ x7' = x7 /\ x8' = x8
          /\ x11' = x11 /\ x12' = x12 /\ x13' = x13 /\ x14' = x14
      BY <2>2, SlotsStutter
    <3>2. /\ RB!TypeOK /\ RB!Sound(x3) /\ RB!TreeOK /\ RB!DirsKept /\ RB!Saving /\ RB!Wiping
          /\ RB!Making
      BY DEF RB!Inv
    <3>3. RB!TypeOK' /\ RB!TreeOK' /\ RB!DirsKept' /\ RB!Sound(x3)'
      BY <3>1, <3>2, FilesKept, SoundKept
    <3>4. /\ RB!SameOption' <=> RB!SameOption
          /\ RB!LeftAlone' <=> RB!LeftAlone
          /\ \A p : RB!WipedAt(p)' <=> RB!WipedAt(p)
          /\ \A p : RB!Reached(p, x5)' <=> RB!Reached(p, x5)
          /\ RB!Written(x3)' = RB!Written(x3)
      BY <3>1 DEF RB!SameOption, RB!LeftAlone, RB!WipedAt, RB!Reached, RB!Emptied, RB!Kept,
                  RB!Above, RB!Written
    <3>5. RB!Saving'
      BY <3>1, <3>2, <3>4 DEF RB!Saving
    <3>6. RB!Wiping'
      BY <3>1, <3>2, <3>4 DEF RB!Wiping
    <3>7. RB!Making'
      BY <3>1, <3>2, <3>4 DEF RB!Making
    <3> QED
      BY <3>3, <3>5, <3>6, <3>7 DEF RB!Inv
  <2> QED
    BY <2>1, <2>2
<1>3. I => RestoredExactly
  <2> SUFFICES ASSUME RB!Inv, x1 = "restored", NEW p \in DOMAIN OfBackup.in
               PROVE  IF ~RB!Reached(p, x3.all) \/ (RB!Emptied(p, x3.all) /\ ~x3.all)
                      THEN x2[p] = x12[p]
                      ELSE IF RB!Skipped(RB!Above(p)) \/ p \in OfBackup.links
                      THEN x2[p] = RB!Nothing \/ p \in x13
                      ELSE \/ x2[p] = x11[p]
                           \/ p \in x13 /\ (x11[p] = RB!Nothing \/ RB!Missed(p) \/ x2[p] = RB!Partial)
                           \/ RB!Missed(p) /\ x2[p] = RB!Nothing
    BY DEF RestoredExactly, RB!RestoredExactly
  <2>1. (x5 <=> x3.all) /\ RB!LeftAlone /\ (p \in RB!Written(x3) \/ RB!WipedAt(p)) /\ x3.ended
    BY DEF RB!Inv, RB!Making, RB!SameOption
  <2>2. ASSUME p \in RB!Written(x3)
        PROVE  /\ RB!Saved(p, x3.all) /\ p \notin OfBackup.links
               /\ x2[p] = x11[p] \/ (x2[p] = RB!Partial /\ p \in x13)
    <3>1. PICK i \in DOMAIN x3.nodes : x3.nodes[i].place = p
      BY <2>2 DEF RB!Written
    <3>2. \/ x2[x3.nodes[i].place] = x3.nodes[i].value
          \/ x2[x3.nodes[i].place] = RB!Partial /\ x3.nodes[i].place \in x13
      BY DEF RB!Inv, RB!Making
    <3> QED
      BY <3>1, <3>2 DEF RB!Inv, RB!Sound
  <2>3. ASSUME ~RB!Reached(p, x3.all) \/ (RB!Emptied(p, x3.all) /\ ~x3.all)
        PROVE  x2[p] = x12[p]
    BY <2>1, <2>3 DEF RB!LeftAlone, RB!Reached, RB!Emptied, RB!Kept
  <2>4. ASSUME RB!Reached(p, x3.all), ~(RB!Emptied(p, x3.all) /\ ~x3.all),
               RB!Skipped(RB!Above(p)) \/ p \in OfBackup.links
        PROVE  x2[p] = RB!Nothing \/ p \in x13
    <3>1. p \notin RB!Written(x3)
      BY <2>1, <2>2, <2>4 DEF RB!Saved, RB!Skipped
    <3> QED
      BY <2>1, <2>4, <3>1, PartsAssumption
         DEF RB!WipedAt, RB!Reached, RB!Emptied, RB!Kept, RB!Skipped, RB!PlacesAssumption
  <2>5. ASSUME RB!Reached(p, x3.all), ~(RB!Emptied(p, x3.all) /\ ~x3.all),
               ~RB!Skipped(RB!Above(p)), p \notin OfBackup.links
        PROVE  \/ x2[p] = x11[p]
               \/ p \in x13 /\ (x11[p] = RB!Nothing \/ RB!Missed(p) \/ x2[p] = RB!Partial)
               \/ RB!Missed(p) /\ x2[p] = RB!Nothing
    <3>1. CASE p \in RB!Written(x3)
      BY <2>2, <3>1
    <3>2. CASE p \notin RB!Written(x3)
      <4>1. RB!Saved(p, x3.all)
        BY <2>1, <2>5, PartsAssumption
           DEF RB!Saved, RB!Reached, RB!Emptied, RB!Kept, RB!Skipped, RB!PlacesAssumption
      <4>2. x11[p] = RB!Nothing \/ RB!Missed(p)
        BY <2>1, <2>5, <3>2, <4>1 DEF RB!Inv, RB!Sound
      <4>3. p \in OfBackup.dirs => x2[p] = x11[p] \/ x2[p] = RB!Nothing
        BY DEF RB!Inv, RB!DirsKept
      <4> QED
        BY <2>1, <2>5, <3>2, <4>2, <4>3 DEF RB!WipedAt, RB!Reached, RB!Kept
    <3> QED
      BY <3>1, <3>2
  <2> QED
    BY <2>3, <2>4, <2>5
<1> QED
  BY <1>1, <1>2, <1>3, PTL DEF PartsSpec
=============================================================================
