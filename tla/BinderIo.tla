------------------------------ MODULE BinderIo ------------------------------
(***************************************************************************)
(* The marshalling of src/servicemanager/binder.c (struct binder_io and    *)
(* the bio_* functions) and the two ways a written buffer leaves the       *)
(* process: binder_call, which refuses a buffer that overflowed, and       *)
(* binder_send_reply, which does not look.                                 *)
(*                                                                         *)
(* A buffer is a sequence of 4-byte cells.  What a cell holds is kept, so  *)
(* that a reader at the wrong offset is seen to read something else; the   *)
(* characters of a string are not told apart.                              *)
(***************************************************************************)
EXTENDS Integers, Sequences

CONSTANTS
  Words,      \* 32-bit values a program writes
  Lens,       \* lengths of the strings it writes
  Objects,    \* handles of the objects it writes; 0 is no object
  MaxData,    \* bytes of the buffer a message or reply is built in
  MaxOffs,    \* how many object offsets are reserved at its start
  MaxPuts,    \* bound: fields per message
  MaxBio      \* MAX_BIO_SIZE

ASSUME SizesAssumption ==
  /\ Words \subseteq Nat /\ Lens \subseteq Nat /\ Objects \subseteq Nat
  /\ MaxData \in Nat /\ MaxOffs \in Nat /\ MaxPuts \in Nat /\ MaxBio \in Nat

VARIABLES
  phase,  \* "write", "read", "done" or "failed" (binder_call returned -1)
  out,    \* struct binder_io of the writer
  puts,   \* the fields written so far, as the writer meant them
  in,     \* struct binder_io of the reader
  got     \* the fields read so far

vars == <<phase, out, puts, in, got>>

SizeT == 8                  \* sizeof(size_t) and sizeof(binder_size_t), 64-bit build
ObjectSize == 24            \* sizeof(struct flat_binder_object)
NullLen == -1               \* the length word 0xffffffff
Null == -2                  \* a null pointer where a string was asked for
Garbage == -3               \* what is read from a cell of another kind
Round4(size) == ((size + 3) \div 4) * 4

Word(n) == [holds |-> "word", value |-> n]
Chars(len) == [holds |-> "chars", value |-> len]
Object(h) == [holds |-> "object", value |-> h]
Junk == [holds |-> "nothing", value |-> 0]

Cells(cell, size) == [i \in 1 .. Round4(size) \div 4 |-> cell]

(* The fields of a message: what a put function is called with.            *)
Field == [kind : {"uint32"}, value : Words]
           \cup [kind : {"string16"}, value : Lens \cup {NullLen}]
           \cup [kind : {"ref"}, value : Objects]

----------------------------------------------------------------------------
(* Writing *)

(* Mutant: the room for the offsets is not taken off.                      *)
MutInitWhole(maxdata, maxoffs) ==
  [data |-> <<>>, data_avail |-> maxdata, offs |-> <<>>, offs_avail |-> maxoffs, overflow |-> FALSE]

bio_init(maxdata, maxoffs) ==
  IF maxoffs * SizeT > maxdata
    THEN [data |-> <<>>, data_avail |-> 0, offs |-> <<>>, offs_avail |-> 0, overflow |-> TRUE]
    ELSE [data |-> <<>>, data_avail |-> maxdata - maxoffs * SizeT, offs |-> <<>>,
          offs_avail |-> maxoffs, overflow |-> FALSE]

Fits(bio, size) == Round4(size) <= bio.data_avail

(* bio_alloc and the store through the pointer it returns.                 *)
bio_alloc(bio, size, cells) ==
  IF Fits(bio, size)
    THEN [bio EXCEPT !.data = @ \o cells, !.data_avail = @ - Round4(size)]
    ELSE [bio EXCEPT !.overflow = TRUE]

bio_put_uint32(bio, n) == bio_alloc(bio, 4, <<Word(n)>>)

(* Without a free offset the space is taken but nothing is stored in it.   *)
bio_alloc_obj(bio, h) ==
  IF Fits(bio, ObjectSize) /\ bio.offs_avail > 0
    THEN [bio_alloc(bio, ObjectSize, Cells(Object(h), ObjectSize))
            EXCEPT !.offs = Append(@, 4 * Len(bio.data)), !.offs_avail = @ - 1]
    ELSE [bio_alloc(bio, ObjectSize, Cells(Junk, ObjectSize)) EXCEPT !.overflow = TRUE]

(* A null handle is written without an offset.                             *)
bio_put_ref(bio, h) ==
  IF h # 0 THEN bio_alloc_obj(bio, h)
           ELSE bio_alloc(bio, ObjectSize, Cells(Object(0), ObjectSize))

(* The length goes in even when the characters do not fit.                 *)
bio_put_string16(bio, len) ==
  IF len = NullLen \/ len >= MaxBio \div 2
    THEN bio_put_uint32(bio, NullLen)
    ELSE bio_alloc(bio_put_uint32(bio, len), 2 * (len + 1), Cells(Chars(len), 2 * (len + 1)))

Put(bio, f) ==
  CASE f.kind = "uint32"   -> bio_put_uint32(bio, f.value)
    [] f.kind = "string16" -> bio_put_string16(bio, f.value)
    [] f.kind = "ref"      -> bio_put_ref(bio, f.value)

----------------------------------------------------------------------------
(* Reading *)

bio_init_from_txn(bio) ==
  [data |-> bio.data, data_avail |-> 4 * Len(bio.data), offs |-> bio.offs,
   offs_avail |-> Len(bio.offs), overflow |-> FALSE, pos |-> 0]

Available(bio, size) == Round4(size) <= bio.data_avail

(* A get that fails leaves nothing to be read.                             *)
Exhaust(bio) == [bio EXCEPT !.data_avail = 0, !.overflow = TRUE]

bio_get(bio, size) ==
  IF Available(bio, size)
    THEN [bio EXCEPT !.pos = @ + Round4(size) \div 4, !.data_avail = @ - Round4(size)]
    ELSE Exhaust(bio)

NextCell(bio) == bio.data[bio.pos + 1]

(* What a get function returns and the state it leaves.                    *)
bio_get_uint32(bio) ==
  [value |-> IF ~Available(bio, 4) THEN 0
             ELSE IF NextCell(bio).holds = "word" THEN NextCell(bio).value ELSE Garbage,
   bio |-> bio_get(bio, 4)]

bio_get_string16(bio) ==
  LET len == bio_get_uint32(bio)
      size == 2 * (len.value + 1)
  IN  CASE len.value = Garbage -> [value |-> Garbage, bio |-> len.bio]
        [] len.value = NullLen ->
             [value |-> Null, bio |-> Exhaust(len.bio)]
        [] OTHER ->
             [value |-> IF ~Available(len.bio, size) THEN Null
                        ELSE IF NextCell(len.bio) = Chars(len.value) THEN len.value ELSE Garbage,
              bio |-> bio_get(len.bio, size)]

(* An object is only found where an offset says there is one.              *)
bio_get_ref(bio) ==
  IF \E i \in 1 .. bio.offs_avail : bio.offs[i] = 4 * bio.pos
    THEN [value |-> IF Available(bio, ObjectSize) THEN NextCell(bio).value ELSE 0,
          bio |-> bio_get(bio, ObjectSize)]
    ELSE [value |-> 0, bio |-> Exhaust(bio)]

Get(bio, kind) ==
  CASE kind = "uint32"   -> bio_get_uint32(bio)
    [] kind = "string16" -> bio_get_string16(bio)
    [] kind = "ref"      -> bio_get_ref(bio)

----------------------------------------------------------------------------
Init ==
  /\ phase = "write"
  /\ out = bio_init(MaxData, MaxOffs)
  /\ puts = <<>>
  /\ in = bio_init_from_txn(bio_init(MaxData, MaxOffs))
  /\ got = <<>>

Write(f) ==
  /\ phase = "write" /\ Len(puts) < MaxPuts
  /\ out' = Put(out, f)
  /\ puts' = Append(puts, f)
  /\ UNCHANGED <<phase, in, got>>

Deliver == in' = bio_init_from_txn(out) /\ phase' = "read"

(* Mutant: the buffer is sent whatever happened to it.                     *)
MutSendOverflowed ==
  /\ phase = "write"
  /\ Deliver
  /\ UNCHANGED <<out, puts, got>>

(* The message leaves, unless a put overflowed.                            *)
binder_call ==
  /\ phase = "write"
  /\ IF out.overflow THEN phase' = "failed" /\ UNCHANGED in ELSE Deliver
  /\ UNCHANGED <<out, puts, got>>

(* A reply leaves in any case; svcmgr_handler puts one field at most in it.*)
binder_send_reply ==
  /\ phase = "write" /\ Len(puts) <= 1
  /\ Deliver
  /\ UNCHANGED <<out, puts, got>>

(* The receiver reads the fields in the order they were written.           *)
Read ==
  /\ phase = "read" /\ Len(got) < Len(puts)
  /\ LET g == Get(in, puts[Len(got) + 1].kind)
     IN  got' = Append(got, g.value) /\ in' = g.bio
  /\ UNCHANGED <<phase, out, puts>>

Finish ==
  /\ phase = "read" /\ Len(got) = Len(puts)
  /\ phase' = "done"
  /\ UNCHANGED <<out, puts, in, got>>

Again ==
  /\ phase \in {"done", "failed"}
  /\ phase' = "write" /\ out' = bio_init(MaxData, MaxOffs) /\ puts' = <<>>
  /\ in' = bio_init_from_txn(bio_init(MaxData, MaxOffs)) /\ got' = <<>>

Next == (\E f \in Field : Write(f)) \/ binder_call \/ binder_send_reply \/ Read \/ Finish \/ Again

Spec == Init /\ [][Next]_vars

----------------------------------------------------------------------------
(* No put writes past the end of the buffer, which an unsigned data_avail  *)
(* that wraps below zero would allow, and no offset points outside it.     *)
WithinBuffer ==
  /\ out.data_avail >= 0
  /\ MaxOffs * SizeT <= MaxData => 4 * Len(out.data) + MaxOffs * SizeT <= MaxData
  /\ \A i \in DOMAIN out.offs : out.offs[i] + ObjectSize <= 4 * Len(out.data)

(* The value a reader must get for a field; a string that was written as   *)
(* null, because it is too long, reads as null.                            *)
Meant(f) ==
  IF f.kind = "string16" /\ (f.value = NullLen \/ f.value >= MaxBio \div 2)
    THEN Null ELSE f.value

(* A null string or a null handle stops the reader: nothing after it is    *)
(* read.                                                                   *)
Stops(f) == Meant(f) = Null \/ (f.kind = "ref" /\ f.value = 0)

(* What binder_call lets out reads back as it was written, field by field, *)
(* up to the first null.  It rests on the overflow flag: a put that does   *)
(* not fit is skipped and a later, smaller one goes in its place.  The     *)
(* single field of a reply that did not fit reads as nothing.              *)
ReadsBack ==
  \A i \in DOMAIN got :
    (\A j \in 1 .. i - 1 : ~Stops(puts[j])) =>
      \/ got[i] = Meant(puts[i])
      \/ Len(puts) = 1 /\ out.overflow /\ got[i] \in {0, Null}

(* After a get that failed every later get fails too: no field is taken    *)
(* for another one.                                                        *)
NeverGarbage == \A i \in DOMAIN got : got[i] # Garbage

(* What is got is what was put, in a message that was sent whole and in    *)
(* one that was cut short: ReadsBack and NeverGarbage.                     *)
GetsWhatWasPut == ReadsBack /\ NeverGarbage
=============================================================================
