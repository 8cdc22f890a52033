--------------------------- MODULE BinderIoProofs ---------------------------
(***************************************************************************)
(* Proofs about BinderIo for every buffer size and every message.          *)
(***************************************************************************)
EXTENDS BinderIo, TLAPS

Cell == [holds : {"word", "chars", "object", "nothing"}, value : Int]

(* A buffer being written: the room left is what is not yet used.          *)
BioOK(bio) ==
  /\ bio \in [data : Seq(Cell), data_avail : Nat,
              offs : Seq(Nat), offs_avail : Nat, overflow : BOOLEAN]
  /\ MaxOffs * SizeT <= MaxData =>
       4 * Len(bio.data) + bio.data_avail + MaxOffs * SizeT = MaxData
  /\ \A i \in DOMAIN bio.offs : bio.offs[i] + ObjectSize <= 4 * Len(bio.data)

(* Rounding up gives a multiple of four.                                   *)
LEMMA Round4Type ==
  ASSUME NEW size \in Nat
  PROVE  Round4(size) \in Nat /\ 4 * (Round4(size) \div 4) = Round4(size)
         /\ Round4(size) \div 4 \in Nat
BY DEF Round4

(* The cells of a field fill the space it is given.                        *)
LEMMA CellsType ==
  ASSUME NEW size \in Nat, NEW cell \in Cell
  PROVE  /\ Cells(cell, size) \in Seq(Cell)
         /\ 4 * Len(Cells(cell, size)) = Round4(size)
<1> DEFINE k == Round4(size) \div 4
<1>1. k \in Nat /\ 4 * k = Round4(size)
  BY Round4Type
<1>2. Cells(cell, size) = [i \in 1 .. k |-> cell]
  BY DEF Cells
<1> HIDE DEF k
<1>3. [i \in 1 .. k |-> cell] \in Seq(Cell)
  BY <1>1
<1>4. Len([i \in 1 .. k |-> cell]) = k
  BY <1>1
<1> QED
  BY <1>1, <1>2, <1>3, <1>4

(* An allocation stays within the room that is left.                       *)
LEMMA AllocOK ==
  ASSUME NEW bio, BioOK(bio), NEW size \in Nat,
         NEW cells \in Seq(Cell), 4 * Len(cells) = Round4(size)
  PROVE  /\ BioOK(bio_alloc(bio, size, cells))
         /\ bio_alloc(bio, size, cells).offs = bio.offs
         /\ bio_alloc(bio, size, cells).offs_avail = bio.offs_avail
         /\ Fits(bio, size) => bio_alloc(bio, size, cells).data = bio.data \o cells
<1> DEFINE new == bio_alloc(bio, size, cells)
           C == Cell
<1>0. /\ bio.data \in Seq(C) /\ bio.data_avail \in Nat /\ bio.offs \in Seq(Nat)
      /\ bio.offs_avail \in Nat
  BY DEF BioOK
<1>r. Round4(size) \in Nat
  BY Round4Type
<1>1. CASE ~Fits(bio, size)
  BY <1>1 DEF bio_alloc, BioOK
<1>2. CASE Fits(bio, size)
  <2>1. new = [bio EXCEPT !.data = bio.data \o cells, !.data_avail = bio.data_avail - Round4(size)]
    BY <1>2 DEF bio_alloc
  <2>2. /\ bio.data_avail - Round4(size) \in Nat
    BY <1>0, <1>r, <1>2 DEF Fits
  <2>3. bio.data \o cells \in Seq(C) /\ Len(bio.data \o cells) = Len(bio.data) + Len(cells)
    BY <1>0
  <2> HIDE DEF new
  <2>4. /\ new.data = bio.data \o cells /\ new.data_avail = bio.data_avail - Round4(size)
        /\ new.offs = bio.offs /\ new.offs_avail = bio.offs_avail
        /\ new \in [data : Seq(C), data_avail : Nat, offs : Seq(Nat), offs_avail : Nat,
                    overflow : BOOLEAN]
    BY <2>1, <2>2, <2>3 DEF BioOK
  <2>5. MaxOffs * SizeT <= MaxData =>
          4 * Len(new.data) + new.data_avail + MaxOffs * SizeT = MaxData
    <3>1. MaxOffs * SizeT \in Nat /\ MaxData \in Nat
      BY SizesAssumption DEF SizeT
    <3> QED
      BY <3>1, <2>3, <2>4, <1>0, <1>r DEF BioOK
  <2>6. \A i \in DOMAIN new.offs : new.offs[i] + ObjectSize <= 4 * Len(new.data)
    <3>1. \A i \in DOMAIN bio.offs : bio.offs[i] \in Nat /\ bio.offs[i] + ObjectSize <= 4 * Len(bio.data)
      BY <1>0 DEF BioOK
    <3>2. 4 * Len(bio.data) \in Nat /\ 4 * Len(new.data) \in Nat
          /\ 4 * Len(bio.data) <= 4 * Len(new.data)
      BY <2>3, <2>4, <1>0
    <3>3. \A i \in DOMAIN bio.offs : bio.offs[i] + ObjectSize <= 4 * Len(new.data)
      BY <3>1, <3>2 DEF ObjectSize
    <3> QED
      BY <3>3, <2>4
  <2> QED
    BY <2>4, <2>5, <2>6 DEF BioOK, new
<1> QED
  BY <1>1, <1>2

(* So does an object, with its offset or without.                          *)
LEMMA AllocObjOK ==
  ASSUME NEW bio, BioOK(bio), NEW h \in Nat
  PROVE  BioOK(bio_alloc_obj(bio, h))
<1> DEFINE C == Cell
           size == ObjectSize
           good == Cells(Object(h), size)
           junk == Cells(Junk, size)
<1>0. /\ bio.data \in Seq(C) /\ bio.data_avail \in Nat /\ bio.offs \in Seq(Nat)
      /\ bio.offs_avail \in Nat
  BY DEF BioOK
<1>1. Object(h) \in C /\ Junk \in C /\ size \in Nat
  BY DEF Object, Junk, ObjectSize, Cell
<1>2. good \in Seq(C) /\ 4 * Len(good) = Round4(size) /\ junk \in Seq(C) /\ 4 * Len(junk) = Round4(size)
  BY <1>1, CellsType
<1>3. Round4(size) = ObjectSize
  BY DEF Round4, ObjectSize
<1> HIDE DEF good, junk
<1>4. CASE Fits(bio, size) /\ bio.offs_avail > 0
  <2> DEFINE a == bio_alloc(bio, size, good)
             new == [a EXCEPT !.offs = Append(a.offs, 4 * Len(bio.data)),
                              !.offs_avail = a.offs_avail - 1]
  <2>1. bio_alloc_obj(bio, h) = new
    BY <1>4 DEF bio_alloc_obj, good
  <2>2. BioOK(a) /\ a.offs = bio.offs /\ a.offs_avail = bio.offs_avail /\ a.data = bio.data \o good
    BY <1>1, <1>2, <1>4, AllocOK
  <2> HIDE DEF a
  <2>3. a.offs_avail - 1 \in Nat /\ 4 * Len(bio.data) \in Nat
    BY <2>2, <1>0, <1>4
  <2>4. Append(a.offs, 4 * Len(bio.data)) \in Seq(Nat)
    BY <2>2, <2>3, <1>0
  <2>5. /\ new \in [data : Seq(C), data_avail : Nat, offs : Seq(Nat), offs_avail : Nat,
                    overflow : BOOLEAN]
        /\ new.data = a.data /\ new.data_avail = a.data_avail
        /\ new.offs = Append(bio.offs, 4 * Len(bio.data))
    BY <2>2, <2>3, <2>4 DEF BioOK
  <2> HIDE DEF new
  <2>6. 4 * Len(bio.data) + ObjectSize = 4 * Len(new.data)
    <3>1. Len(bio.data \o good) = Len(bio.data) + Len(good)
      BY <1>0, <1>2
    <3> QED
      BY <3>1, <2>2, <2>5, <1>0, <1>2, <1>3
  <2>7. \A i \in DOMAIN new.offs : new.offs[i] + ObjectSize <= 4 * Len(new.data)
    <3>1. \A i \in DOMAIN bio.offs : bio.offs[i] + ObjectSize <= 4 * Len(new.data)
      BY <2>2, <2>5 DEF BioOK
    <3>2. /\ DOMAIN new.offs = 1 .. Len(bio.offs) + 1 /\ DOMAIN bio.offs = 1 .. Len(bio.offs)
          /\ new.offs[Len(bio.offs) + 1] = 4 * Len(bio.data)
          /\ \A i \in 1 .. Len(bio.offs) : new.offs[i] = bio.offs[i]
      BY <2>3, <2>5, <1>0
    <3>3. 4 * Len(new.data) <= 4 * Len(new.data)
      BY <2>5, <2>2 DEF BioOK
    <3> SUFFICES ASSUME NEW i \in DOMAIN new.offs
                 PROVE  new.offs[i] + ObjectSize <= 4 * Len(new.data)
      OBVIOUS
    <3>4. CASE i = Len(bio.offs) + 1
      BY <3>2, <3>3, <3>4, <2>6
    <3>5. CASE i # Len(bio.offs) + 1
      <4>1. i \in DOMAIN bio.offs /\ new.offs[i] = bio.offs[i]
        BY <3>2, <3>5, <1>0
      <4> QED
        BY <4>1, <3>1
    <3> QED
      BY <3>4, <3>5
  <2> QED
    BY <2>1, <2>2, <2>5, <2>7 DEF BioOK
<1>5. CASE ~(Fits(bio, size) /\ bio.offs_avail > 0)
  <2> DEFINE a == bio_alloc(bio, size, junk)
  <2>1. bio_alloc_obj(bio, h) = [a EXCEPT !.overflow = TRUE]
    BY <1>5 DEF bio_alloc_obj, junk
  <2>2. BioOK(a)
    BY <1>1, <1>2, AllocOK
  <2> HIDE DEF a
  <2> QED
    BY <2>1, <2>2 DEF BioOK
<1> QED
  BY <1>4, <1>5

(* The value of a field by its kind.                                       *)
LEMMA FieldType ==
  ASSUME NEW f \in Field
  PROVE  /\ f.kind = "uint32" => f.value \in Nat
         /\ f.kind = "string16" => f.value \in Nat \cup {NullLen}
         /\ f.kind = "ref" => f.value \in Nat
         /\ f.kind \in {"uint32", "string16", "ref"}
<1>1. CASE f \in [kind : {"uint32"}, value : Words]
  <2>1. f.kind = "uint32" /\ f.value \in Words
    BY <1>1
  <2> QED
    BY <2>1, SizesAssumption
<1>2. CASE f \in [kind : {"string16"}, value : Lens \cup {NullLen}]
  <2>1. f.kind = "string16" /\ f.value \in Lens \cup {NullLen}
    BY <1>2
  <2> QED
    BY <2>1, SizesAssumption
<1>3. CASE f \in [kind : {"ref"}, value : Objects]
  <2>1. f.kind = "ref" /\ f.value \in Objects
    BY <1>3
  <2> QED
    BY <2>1, SizesAssumption
<1> QED
  BY <1>1, <1>2, <1>3 DEF Field

(* Every put stays within the buffer.                                      *)
LEMMA PutOK ==
  ASSUME NEW bio, BioOK(bio), NEW f \in Field
  PROVE  BioOK(Put(bio, f))
<1> DEFINE C == Cell
<1>1. ASSUME NEW b, BioOK(b), NEW n \in Int PROVE BioOK(bio_put_uint32(b, n))
  <2>1. <<Word(n)>> \in Seq(C) /\ 4 * Len(<<Word(n)>>) = Round4(4)
    BY DEF Word, Round4, Cell
  <2> QED
    BY <1>1, <2>1, AllocOK DEF bio_put_uint32
<1>2. CASE f.kind = "uint32"
  <2>1. f.value \in Int
    BY <1>2, FieldType
  <2> QED
    BY <1>1, <1>2, <2>1 DEF Put
<1>3. CASE f.kind = "string16"
  <2>1. f.value \in Nat \cup {NullLen} /\ NullLen \in Int
    BY <1>3, FieldType DEF NullLen
  <2>2. CASE f.value = NullLen \/ f.value >= MaxBio \div 2
    <3>1. Put(bio, f) = bio_put_uint32(bio, NullLen)
      BY <1>3, <2>2 DEF Put, bio_put_string16
    <3> QED
      BY <3>1, <2>1, <1>1
  <2>3. CASE ~(f.value = NullLen \/ f.value >= MaxBio \div 2)
    <3> DEFINE size == 2 * (f.value + 1)
               b == bio_put_uint32(bio, f.value)
    <3>1. f.value \in Nat /\ f.value \in Int /\ size \in Nat
      BY <2>1, <2>3
    <3>2. Put(bio, f) = bio_alloc(b, size, Cells(Chars(f.value), size))
      BY <1>3, <2>3 DEF Put, bio_put_string16
    <3>3. Chars(f.value) \in C
      BY <3>1 DEF Chars, Cell
    <3>4. Cells(Chars(f.value), size) \in Seq(C) /\ 4 * Len(Cells(Chars(f.value), size)) = Round4(size)
      BY <3>1, <3>3, CellsType
    <3>5. BioOK(b)
      BY <3>1, <1>1
    <3> HIDE DEF b, size
    <3> QED
      BY <3>1, <3>2, <3>4, <3>5, AllocOK
  <2> QED
    BY <2>2, <2>3
<1>4. CASE f.kind = "ref"
  <2>1. f.value \in Nat
    BY <1>4, FieldType
  <2>2. CASE f.value # 0
    <3>1. Put(bio, f) = bio_alloc_obj(bio, f.value)
      BY <1>4, <2>2 DEF Put, bio_put_ref
    <3> QED
      BY <2>1, <3>1, AllocObjOK
  <2>3. CASE f.value = 0
    <3>1. Put(bio, f) = bio_alloc(bio, ObjectSize, Cells(Object(0), ObjectSize))
      BY <1>4, <2>3 DEF Put, bio_put_ref
    <3>2. Object(0) \in C /\ ObjectSize \in Nat
      BY DEF Object, ObjectSize, Cell
    <3> QED
      BY <3>1, <3>2, CellsType, AllocOK
  <2> QED
    BY <2>2, <2>3
<1> QED
  BY <1>2, <1>3, <1>4, FieldType

(* A new buffer has all its room left.                                     *)
LEMMA InitOK == BioOK(bio_init(MaxData, MaxOffs))
<1>1. MaxData \in Nat /\ MaxOffs \in Nat /\ MaxOffs * SizeT \in Nat
  BY SizesAssumption DEF SizeT
<1>2. MaxOffs * SizeT <= MaxData => MaxData - MaxOffs * SizeT \in Nat
  BY <1>1
<1>3. CASE MaxOffs * SizeT > MaxData
  BY <1>1, <1>3 DEF BioOK, bio_init
<1>4. CASE ~(MaxOffs * SizeT > MaxData)
  BY <1>1, <1>2, <1>4 DEF BioOK, bio_init
<1> QED
  BY <1>3, <1>4

(* No message, of any number of fields of any size, is written past the    *)
(* end of its buffer, and every offset points at a whole object in it.     *)
THEOREM StaysWithinBuffer == Spec => []WithinBuffer
<1>1. Init => BioOK(out)
  BY InitOK DEF Init
<1>2. ASSUME BioOK(out), [Next]_vars PROVE BioOK(out)'
  <2>1. ASSUME NEW f \in Field, Write(f) PROVE BioOK(out')
    BY <1>2, <2>1, PutOK DEF Write
  <2>2. CASE Again
    BY <2>2, InitOK DEF Again
  <2>3. CASE UNCHANGED out
    BY <1>2, <2>3 DEF BioOK
  <2>4. BioOK(out')
    BY <1>2, <2>1, <2>2, <2>3 DEF Next, vars, binder_call, binder_send_reply, Read, Finish
  <2> QED
    BY <2>4 DEF BioOK
<1>3. BioOK(out) => WithinBuffer
  <2>1. MaxOffs * SizeT \in Nat /\ MaxData \in Nat
    BY SizesAssumption DEF SizeT
  <2> QED
    BY <2>1 DEF BioOK, WithinBuffer
<1> QED
  BY <1>1, <1>2, <1>3, PTL DEF Spec

(* binder_parse builds a reply in 256 bytes with room for four offsets.  A *)
(* listed name of up to 109 characters fits, one of 110 to 127, which      *)
(* do_add_service accepts, does not.                                       *)
THEOREM ListedNameFits ==
  ASSUME NEW len \in 0 .. 127, MaxBio > 1000
  PROVE  bio_put_string16(bio_init(256, 4), len).overflow <=> len > 109
<1>1. bio_init(256, 4) = [data |-> <<>>, data_avail |-> 224, offs |-> <<>>, offs_avail |-> 4,
                          overflow |-> FALSE]
  BY DEF bio_init, SizeT
<1> DEFINE b == bio_put_uint32(bio_init(256, 4), len)
<1>2. b.data_avail = 220 /\ b.overflow = FALSE
  BY <1>1 DEF bio_put_uint32, bio_alloc, Fits, Round4
<1>3. ~(len = NullLen \/ len >= MaxBio \div 2)
  BY SizesAssumption DEF NullLen
<1> DEFINE size == 2 * (len + 1)
<1>4. bio_put_string16(bio_init(256, 4), len) = bio_alloc(b, size, Cells(Chars(len), size))
  BY <1>3 DEF bio_put_string16
<1>5. Round4(size) <= 220 <=> len <= 109
  BY DEF Round4
<1>6. b = [bio_init(256, 4) EXCEPT !.data = @ \o <<Word(len)>>, !.data_avail = @ - 4]
  BY <1>1 DEF bio_put_uint32, bio_alloc, Fits, Round4
<1> HIDE DEF b, size
<1>7. CASE Fits(b, size)
  <2>1. bio_alloc(b, size, Cells(Chars(len), size)).overflow = FALSE
    BY <1>1, <1>6, <1>7 DEF bio_alloc
  <2> QED
    BY <2>1, <1>2, <1>4, <1>5, <1>7 DEF Fits
<1>8. CASE ~Fits(b, size)
  <2>1. bio_alloc(b, size, Cells(Chars(len), size)).overflow = TRUE
    BY <1>1, <1>6, <1>8 DEF bio_alloc
  <2> QED
    BY <2>1, <1>2, <1>4, <1>5, <1>8 DEF Fits
<1> QED
  BY <1>7, <1>8

----------------------------------------------------------------------------
(* What a written message looks like.                                      *)

WrittenNull(f) == f.value = NullLen \/ f.value >= MaxBio \div 2

(* The cells a field takes.                                                *)
NCells(f) ==
  CASE f.kind = "uint32"   -> 1
    [] f.kind = "string16" -> IF WrittenNull(f) THEN 1 ELSE 1 + Round4(2 * (f.value + 1)) \div 4
    [] f.kind = "ref"      -> 6

(* The field begins after cell k; only an object that is not null has an   *)
(* offset.                                                                 *)
FieldAt(data, offs, f, k) ==
  /\ k + NCells(f) <= Len(data)
  /\ f.kind = "uint32" => data[k + 1] = Word(f.value)
  /\ f.kind = "string16" /\ WrittenNull(f) => data[k + 1] = Word(NullLen)
  /\ f.kind = "string16" /\ ~WrittenNull(f) =>
       data[k + 1] = Word(f.value) /\ data[k + 2] = Chars(f.value)
  /\ f.kind = "ref" /\ f.value # 0 =>
       data[k + 1] = Object(f.value) /\ \E i \in DOMAIN offs : offs[i] = 4 * k
  /\ f.kind = "ref" /\ f.value = 0 => \A i \in DOMAIN offs : offs[i] # 4 * k

(* The fields of p follow each other, the j-th after cell at[j].           *)
Layout(p, bio, at) ==
  /\ at \in [1 .. Len(p) + 1 -> Nat] /\ at[1] = 0 /\ at[Len(p) + 1] = Len(bio.data)
  /\ \A j \in 1 .. Len(p) : /\ FieldAt(bio.data, bio.offs, p[j], at[j])
                            /\ at[j + 1] = at[j] + NCells(p[j])

(* The only field of a reply did not fit.                                  *)
CutShort(f, bio) ==
  /\ bio.offs = <<>>
  /\ f.kind = "uint32" => bio.data = <<>>
  /\ f.kind = "string16" => bio.data = <<>> \/ (f.value \in Nat /\ bio.data = <<Word(f.value)>>)

(* The message as it is written.                                           *)
Written ==
  /\ BioOK(out) /\ puts \in Seq(Field)
  /\ puts = <<>> => out = bio_init(MaxData, MaxOffs)
  /\ ~out.overflow => \E at : Layout(puts, out, at)
  /\ out.overflow /\ Len(puts) = 1 => CutShort(puts[1], out)

(* The reader is where a field begins, or was stopped.                     *)
InStep(at) == in.pos = at[Len(got) + 1] /\ in.data_avail = 4 * (Len(in.data) - in.pos)
Stopped == in.data_avail = 0 /\ \E j \in 1 .. Len(got) : Stops(puts[j])

Reader == [data : Seq(Cell), data_avail : Nat, offs : Seq(Nat), offs_avail : Nat,
           overflow : BOOLEAN, pos : Nat]

Reading ==
  /\ in \in Reader /\ in.data = out.data /\ in.offs = out.offs /\ in.offs_avail = Len(out.offs)
  /\ Len(got) <= Len(puts)
  /\ ~out.overflow => \E at : Layout(puts, out, at) /\ (InStep(at) \/ Stopped)
  /\ out.overflow => Len(puts) <= 1 /\ (Len(got) = 0 => in = bio_init_from_txn(out))

MessageInv ==
  /\ Written /\ got \in Seq(Int) /\ GetsWhatWasPut
  /\ phase \in {"read", "done"} => Reading
  /\ phase \in {"write", "failed"} => got = <<>>
  /\ phase \in {"write", "failed", "read", "done"}

(* The size of a field.                                                    *)
LEMMA NCellsType == ASSUME NEW f \in Field PROVE NCells(f) \in Nat \ {0}
<1>1. CASE f.kind = "string16" /\ ~WrittenNull(f)
  <2>1. f.value \in Nat
    BY <1>1, FieldType DEF WrittenNull
  <2>2. 2 * (f.value + 1) \in Nat
    BY <2>1
  <2>3. Round4(2 * (f.value + 1)) \div 4 \in Nat
    BY <2>2, Round4Type
  <2> QED
    BY <1>1, <2>3 DEF NCells
<1> QED
  BY <1>1, FieldType DEF NCells

(* What a put that fits adds to the buffer.                                *)
Adds(bio, new, f) ==
  /\ ~bio.overflow /\ Len(new.data) = Len(bio.data) + NCells(f)
  /\ \A i \in 1 .. Len(bio.data) : new.data[i] = bio.data[i]
  /\ \/ new.offs = bio.offs
     \/ new.offs = Append(bio.offs, 4 * Len(bio.data))
  /\ FieldAt(new.data, new.offs, f, Len(bio.data))

(* A store of that size, which begins with that cell, fits or is skipped.  *)
Stored(bio, new, size, cell) ==
  /\ ~Fits(bio, size) => /\ new.overflow /\ new.data = bio.data
                         /\ new.data_avail = bio.data_avail
  /\ Fits(bio, size) =>
       /\ new.overflow = bio.overflow /\ new.data_avail = bio.data_avail - Round4(size)
       /\ Len(new.data) = Len(bio.data) + Round4(size) \div 4
       /\ new.data[Len(bio.data) + 1] = cell
       /\ \A i \in 1 .. Len(bio.data) : new.data[i] = bio.data[i]
  /\ new.offs = bio.offs /\ new.offs_avail = bio.offs_avail

(* Storing cells.                                                          *)
LEMMA AppendCells ==
  ASSUME NEW bio, BioOK(bio), NEW size \in Nat, size > 0, NEW cell \in Cell,
         NEW cells \in Seq(Cell), 4 * Len(cells) = Round4(size), cells[1] = cell
  PROVE  Stored(bio, bio_alloc(bio, size, cells), size, cell)
<1> DEFINE new == bio_alloc(bio, size, cells)
           C == Cell
<1>0. /\ bio.data \in Seq(C) /\ bio.data_avail \in Nat /\ bio.overflow \in BOOLEAN
  BY DEF BioOK
<1>1. CASE ~Fits(bio, size)
  <2>1. new = [bio EXCEPT !.overflow = TRUE]
    BY <1>1 DEF bio_alloc
  <2> QED
    BY <1>1, <2>1 DEF BioOK, Stored
<1>2. CASE Fits(bio, size)
  <2>1. new = [bio EXCEPT !.data = bio.data \o cells, !.data_avail = bio.data_avail - Round4(size)]
    BY <1>2 DEF bio_alloc
  <2> HIDE DEF new
  <2>2. /\ new.data = bio.data \o cells /\ new.data_avail = bio.data_avail - Round4(size)
        /\ new.overflow = bio.overflow /\ new.offs = bio.offs /\ new.offs_avail = bio.offs_avail
    BY <2>1 DEF BioOK
  <2>3. Len(cells) \in Nat /\ Len(cells) > 0 /\ Len(cells) = Round4(size) \div 4
    BY DEF Round4
  <2>4. /\ Len(bio.data \o cells) = Len(bio.data) + Len(cells)
        /\ (bio.data \o cells)[Len(bio.data) + 1] = cells[1]
        /\ \A i \in 1 .. Len(bio.data) : (bio.data \o cells)[i] = bio.data[i]
    <3> HIDE DEF C
    <3>1. cells \in Seq(C)
      BY DEF C
    <3>2. Len(bio.data \o cells) = Len(bio.data) + Len(cells)
      BY <1>0, <3>1
    <3>3. (bio.data \o cells)[Len(bio.data) + 1] = cells[1]
      BY <1>0, <3>1, <2>3
    <3>4. \A i \in 1 .. Len(bio.data) : (bio.data \o cells)[i] = bio.data[i]
      BY <1>0, <3>1
    <3> QED
      BY <3>2, <3>3, <3>4
  <2> QED
    BY <1>2, <2>2, <2>3, <2>4 DEF new, Stored
<1> QED
  BY <1>1, <1>2

(* A number takes one cell.                                                *)
LEMMA PutWord ==
  ASSUME NEW bio, BioOK(bio), NEW n \in Int
  PROVE  /\ BioOK(bio_put_uint32(bio, n))
         /\ Stored(bio, bio_put_uint32(bio, n), 4, Word(n))
<1>1. Word(n) \in Cell
  BY DEF Word, Cell
<1> DEFINE C == Cell
           cells == <<Word(n)>>
<1>2. cells \in Seq(Cell) /\ Len(cells) = 1 /\ cells[1] = Word(n)
  <2>1. Word(n) \in C
    BY <1>1
  <2> HIDE DEF C
  <2>2. cells \in Seq(C) /\ Len(cells) = 1 /\ cells[1] = Word(n)
    BY <2>1
  <2> QED
    BY <2>2 DEF C
<1> HIDE DEF cells
<1>3. 4 * Len(cells) = Round4(4)
  BY <1>2 DEF Round4
<1>4. bio_put_uint32(bio, n) = bio_alloc(bio, 4, cells)
  BY DEF bio_put_uint32, cells
<1>5. BioOK(bio_alloc(bio, 4, cells))
  BY <1>2, <1>3, AllocOK
<1>6. Stored(bio, bio_alloc(bio, 4, cells), 4, Word(n))
  <2>1. 4 \in Nat /\ 4 > 0
    OBVIOUS
  <2> QED
    BY <2>1, <1>1, <1>2, <1>3, AppendCells
<1> QED
  BY <1>4, <1>5, <1>6

(* Copies of a cell.                                                       *)
LEMMA PutCells ==
  ASSUME NEW bio, BioOK(bio), NEW size \in Nat, size > 0, NEW cell \in Cell
  PROVE  /\ BioOK(bio_alloc(bio, size, Cells(cell, size)))
         /\ Stored(bio, bio_alloc(bio, size, Cells(cell, size)), size, cell)
<1> DEFINE cells == Cells(cell, size)
<1>1. cells \in Seq(Cell) /\ 4 * Len(cells) = Round4(size)
  BY CellsType
<1>2. cells[1] = cell
  <2>1. Round4(size) \div 4 \in Nat /\ Round4(size) \div 4 >= 1
    BY DEF Round4
  <2> QED
    BY <2>1 DEF Cells
<1> HIDE DEF cells
<1>3. BioOK(bio_alloc(bio, size, cells))
  BY <1>1, AllocOK
<1> QED
  BY <1>1, <1>2, <1>3, AppendCells DEF cells

(* A string that is not null takes a cell for its length and at least one  *)
(* for its characters.                                                     *)
LEMMA StringSize ==
  ASSUME NEW len \in Nat
  PROVE  LET size == 2 * (len + 1)
         IN  size \in Nat /\ size > 0 /\ Round4(size) \in Nat /\ Round4(size) >= 4
             /\ Round4(size) \div 4 \in Nat /\ Round4(size) \div 4 >= 1
             /\ 4 * (Round4(size) \div 4) = Round4(size)
BY DEF Round4

(* A put that does not overflow lays its field out after the others.       *)
LEMMA PutAdds ==
  ASSUME NEW bio, BioOK(bio), NEW f \in Field, ~Put(bio, f).overflow
  PROVE  Adds(bio, Put(bio, f), f)
<1> DEFINE new == Put(bio, f)
           C == Cell
<1>0. /\ bio.data \in Seq(C) /\ Len(bio.data) \in Nat /\ bio.overflow \in BOOLEAN
      /\ bio.offs \in Seq(Nat)
  BY DEF BioOK
<1>1. CASE f.kind = "uint32" \/ (f.kind = "string16" /\ WrittenNull(f))
  <2> DEFINE n == IF f.kind = "uint32" THEN f.value ELSE NullLen
  <2>1. n \in Int
    BY <1>1, FieldType DEF NullLen
  <2>2. new = bio_put_uint32(bio, n)
    BY <1>1 DEF Put, bio_put_string16, WrittenNull
  <2> HIDE DEF n
  <2>3. /\ ~bio.overflow /\ Len(new.data) = Len(bio.data) + 1 /\ new.offs = bio.offs
        /\ new.data[Len(bio.data) + 1] = Word(n)
        /\ \A i \in 1 .. Len(bio.data) : new.data[i] = bio.data[i]
    <3>1. Stored(bio, new, 4, Word(n))
      BY <2>1, <2>2, PutWord
    <3>2. Round4(4) \div 4 = 1
      BY DEF Round4
    <3> HIDE DEF new
    <3>3. ~new.overflow
      BY DEF new
    <3> QED
      BY <3>1, <3>2, <3>3 DEF Stored
  <2> HIDE DEF new
  <2>4. NCells(f) = 1
    BY <1>1 DEF NCells
  <2>5. FieldAt(new.data, new.offs, f, Len(bio.data))
    BY <1>1, <2>3, <2>4, <1>0 DEF FieldAt, n
  <2> QED
    BY <2>3, <2>4, <2>5 DEF Adds, new
<1>2. CASE f.kind = "string16" /\ ~WrittenNull(f)
  <2> DEFINE len == f.value
             size == 2 * (len + 1)
             k == Round4(size) \div 4
             b == bio_put_uint32(bio, len)
  <2>1. len \in Nat /\ len \in Int
    BY <1>2, FieldType DEF WrittenNull
  <2>2. new = bio_alloc(b, size, Cells(Chars(len), size))
    BY <1>2 DEF Put, bio_put_string16, WrittenNull
  <2>3. Chars(len) \in Cell
    BY <2>1 DEF Chars, Cell
  <2>4. size \in Nat /\ size > 0 /\ k \in Nat /\ k >= 1
    BY <2>1, StringSize
  <2>5. NCells(f) = 1 + k
    BY <1>2 DEF NCells
  <2>6. BioOK(b) /\ b.offs = bio.offs
    BY <2>1, PutWord DEF Stored
  <2> HIDE DEF b, size, len
  <2>7. /\ ~b.overflow /\ Len(new.data) = Len(b.data) + k /\ new.offs = b.offs
        /\ new.data[Len(b.data) + 1] = Chars(len)
        /\ \A i \in 1 .. Len(b.data) : new.data[i] = b.data[i]
    <3>1. Stored(b, new, size, Chars(len))
      BY <2>2, <2>3, <2>4, <2>6, PutCells
    <3> HIDE DEF new
    <3>2. ~new.overflow
      BY DEF new
    <3> QED
      BY <3>1, <3>2 DEF Stored
  <2>8. /\ ~bio.overflow /\ Len(b.data) = Len(bio.data) + 1
        /\ b.data[Len(bio.data) + 1] = Word(len)
        /\ \A i \in 1 .. Len(bio.data) : b.data[i] = bio.data[i]
    <3>1. Stored(bio, b, 4, Word(len))
      BY <2>1, PutWord DEF b
    <3>2. Round4(4) \div 4 = 1
      BY DEF Round4
    <3> QED
      BY <3>1, <3>2, <2>7 DEF Stored
  <2> HIDE DEF new, k
  <2>9. /\ Len(new.data) = Len(bio.data) + NCells(f)
        /\ new.data[Len(bio.data) + 1] = Word(len) /\ new.data[Len(bio.data) + 2] = Chars(len)
        /\ \A i \in 1 .. Len(bio.data) : new.data[i] = bio.data[i]
    <3>1. (Len(bio.data) + 1) + 1 = Len(bio.data) + 2 /\ Len(bio.data) + 1 \in 1 .. Len(b.data)
      BY <1>0, <2>8
    <3>2. \A i \in 1 .. Len(bio.data) : i \in 1 .. Len(b.data)
      BY <1>0, <2>8
    <3>3. Len(new.data) = Len(bio.data) + NCells(f)
      <4>1. Len(bio.data) \in Nat /\ k \in Nat
        BY <1>0, <2>4
      <4>2. Len(new.data) = Len(b.data) + k
        BY <2>7
      <4>3. Len(b.data) = Len(bio.data) + 1
        BY <2>8
      <4>4. \A n, m \in Nat : (n + 1) + m = n + (1 + m)
        OBVIOUS
      <4>5. Len(b.data) + k = Len(bio.data) + (1 + k)
        BY <4>1, <4>3, <4>4, Zenon
      <4> QED
        BY <4>2, <4>5, <2>5
    <3> QED
      BY <3>1, <3>2, <3>3, <2>7, <2>8
  <2>10. FieldAt(new.data, new.offs, f, Len(bio.data))
    BY <1>2, <2>4, <2>5, <2>9, <1>0 DEF FieldAt, len
  <2> QED
    BY <2>6, <2>7, <2>8, <2>9, <2>10 DEF Adds, new
<1>3. CASE f.kind = "ref" /\ f.value = 0
  <2>1. new = bio_alloc(bio, ObjectSize, Cells(Object(0), ObjectSize))
    BY <1>3 DEF Put, bio_put_ref
  <2>2. Object(0) \in Cell /\ ObjectSize \in Nat /\ ObjectSize > 0 /\ Round4(ObjectSize) \div 4 = 6
    BY DEF Object, Cell, ObjectSize, Round4
  <2>3. /\ ~bio.overflow /\ Len(new.data) = Len(bio.data) + 6 /\ new.offs = bio.offs
        /\ new.data[Len(bio.data) + 1] = Object(0)
        /\ \A i \in 1 .. Len(bio.data) : new.data[i] = bio.data[i]
    <3>1. Stored(bio, new, ObjectSize, Object(0))
      BY <2>1, <2>2, PutCells
    <3> HIDE DEF new
    <3>2. ~new.overflow
      BY DEF new
    <3> QED
      BY <3>1, <3>2, <2>2 DEF Stored
  <2> HIDE DEF new
  <2>4. NCells(f) = 6
    BY <1>3 DEF NCells
  <2>5. \A i \in DOMAIN bio.offs : bio.offs[i] # 4 * Len(bio.data)
    <3>1. \A i \in DOMAIN bio.offs : bio.offs[i] \in Nat /\ bio.offs[i] + ObjectSize <= 4 * Len(bio.data)
      BY <1>0 DEF BioOK
    <3> QED
      BY <3>1, <1>0 DEF ObjectSize
  <2>6. FieldAt(new.data, new.offs, f, Len(bio.data))
    BY <1>3, <2>3, <2>4, <2>5, <1>0 DEF FieldAt
  <2> QED
    BY <2>3, <2>4, <2>6 DEF Adds, new
<1>4. CASE f.kind = "ref" /\ f.value # 0
  <2> DEFINE a == bio_alloc(bio, ObjectSize, Cells(Object(f.value), ObjectSize))
             j == bio_alloc(bio, ObjectSize, Cells(Junk, ObjectSize))
             offs == Append(bio.offs, 4 * Len(bio.data))
  <2>1. new = bio_alloc_obj(bio, f.value)
    BY <1>4 DEF Put, bio_put_ref
  <2>2. f.value \in Nat
    BY <1>4, FieldType
  <2>3. /\ Object(f.value) \in Cell /\ Junk \in Cell /\ ObjectSize \in Nat /\ ObjectSize > 0
        /\ Round4(ObjectSize) \div 4 = 6
    BY <2>2 DEF Object, Junk, Cell, ObjectSize, Round4
  <2>4. BioOK(a) /\ BioOK(j)
    BY <2>3, PutCells
  <2>5. CASE ~(Fits(bio, ObjectSize) /\ bio.offs_avail > 0)
    <3>1. new = [j EXCEPT !.overflow = TRUE]
      BY <2>1, <2>5 DEF bio_alloc_obj
    <3> HIDE DEF j
    <3>2. new.overflow
      BY <3>1, <2>4 DEF BioOK
    <3> QED
      BY <3>2
  <2>6. CASE Fits(bio, ObjectSize) /\ bio.offs_avail > 0
    <3>1. /\ a.overflow = bio.overflow /\ Len(a.data) = Len(bio.data) + 6 /\ a.offs = bio.offs
          /\ a.data[Len(bio.data) + 1] = Object(f.value)
          /\ \A i \in 1 .. Len(bio.data) : a.data[i] = bio.data[i]
      <4>1. Stored(bio, a, ObjectSize, Object(f.value))
        BY <2>3, PutCells
      <4> HIDE DEF a
      <4> QED
        BY <4>1, <2>3, <2>6 DEF Stored
    <3>2. new = [a EXCEPT !.offs = Append(a.offs, 4 * Len(bio.data)), !.offs_avail = a.offs_avail - 1]
      BY <2>1, <2>6 DEF bio_alloc_obj
    <3> HIDE DEF a, new
    <3>3. new.data = a.data /\ new.overflow = a.overflow /\ new.offs = offs
      BY <2>4, <3>1, <3>2 DEF BioOK
    <3>4. \E i \in DOMAIN offs : offs[i] = 4 * Len(bio.data)
      <4>1. 4 * Len(bio.data) \in Nat
        BY <1>0
      <4>2. Len(bio.offs) + 1 \in DOMAIN offs /\ offs[Len(bio.offs) + 1] = 4 * Len(bio.data)
        BY <4>1, <1>0
      <4> QED
        BY <4>2
    <3> HIDE DEF offs
    <3>5. NCells(f) = 6
      BY <1>4 DEF NCells
    <3>6. FieldAt(new.data, new.offs, f, Len(bio.data))
      BY <1>4, <3>1, <3>3, <3>4, <3>5, <1>0 DEF FieldAt
    <3>7. ~new.overflow
      BY DEF new
    <3> QED
      BY <3>1, <3>3, <3>5, <3>6, <3>7 DEF Adds, new, offs
  <2> QED
    BY <2>5, <2>6
<1> QED
  BY <1>1, <1>2, <1>3, <1>4, FieldType

(* The first field of a message, when it does not fit.                     *)
LEMMA PutCut ==
  ASSUME NEW f \in Field, Put(bio_init(MaxData, MaxOffs), f).overflow
  PROVE  CutShort(f, Put(bio_init(MaxData, MaxOffs), f))
<1> DEFINE bio == bio_init(MaxData, MaxOffs)
           new == Put(bio, f)
<1>1. BioOK(bio) /\ bio.data = <<>> /\ bio.offs = <<>> /\ (bio.overflow => bio.data_avail = 0)
      /\ bio.data_avail \in Nat
  <2>1. BioOK(bio)
    BY InitOK
  <2> QED
    BY <2>1 DEF bio_init, BioOK
<1> HIDE DEF bio
<1>2. CASE f.kind = "uint32" \/ (f.kind = "string16" /\ WrittenNull(f))
  <2> DEFINE n == IF f.kind = "uint32" THEN f.value ELSE NullLen
  <2>1. n \in Int
    BY <1>2, FieldType DEF NullLen
  <2>2. new = bio_put_uint32(bio, n)
    BY <1>2 DEF Put, bio_put_string16, WrittenNull
  <2> HIDE DEF n
  <2>3. ~Fits(bio, 4)
    <3>1. bio.overflow => ~Fits(bio, 4)
      BY <1>1 DEF Fits, Round4
    <3>2. Stored(bio, new, 4, Word(n))
      BY <2>1, <2>2, <1>1, PutWord
    <3>3. new.overflow
      BY DEF bio
    <3> HIDE DEF new
    <3> QED
      BY <3>1, <3>2, <3>3 DEF Stored
  <2>4. new.data = <<>> /\ new.offs = <<>>
    <3>1. Stored(bio, new, 4, Word(n))
      BY <2>1, <2>2, <1>1, PutWord
    <3> HIDE DEF new
    <3> QED
      BY <3>1, <2>3, <1>1 DEF Stored
  <2> HIDE DEF new
  <2> QED
    BY <2>4 DEF CutShort, bio, new
<1>3. CASE f.kind = "string16" /\ ~WrittenNull(f)
  <2> DEFINE len == f.value
             size == 2 * (len + 1)
             b == bio_put_uint32(bio, len)
  <2>1. len \in Nat /\ len \in Int
    BY <1>3, FieldType DEF WrittenNull
  <2>2. new = bio_alloc(b, size, Cells(Chars(len), size))
    BY <1>3 DEF Put, bio_put_string16, WrittenNull
  <2>3. Chars(len) \in Cell
    BY <2>1 DEF Chars, Cell
  <2>4. size \in Nat /\ size > 0 /\ Round4(size) \in Nat /\ Round4(size) >= 4
    BY <2>1, StringSize
  <2>5. /\ BioOK(b) /\ b.offs = <<>>
        /\ ~Fits(bio, 4) => b.data = <<>> /\ b.data_avail = bio.data_avail
        /\ Fits(bio, 4) => Len(b.data) = 1 /\ b.data[1] = Word(len) /\ b.overflow = bio.overflow
    <3>1. BioOK(b) /\ Stored(bio, b, 4, Word(len))
      BY <2>1, <1>1, PutWord
    <3>2. Round4(4) \div 4 = 1 /\ Len(bio.data) = 0
      BY <1>1 DEF Round4
    <3> HIDE DEF b
    <3>3. b.offs = <<>> /\ (~Fits(bio, 4) => b.data = <<>> /\ b.data_avail = bio.data_avail)
      BY <3>1, <1>1 DEF Stored
    <3>4. Fits(bio, 4) => Len(b.data) = 0 + 1 /\ b.data[0 + 1] = Word(len) /\ b.overflow = bio.overflow
      BY <3>1, <3>2 DEF Stored
    <3> QED
      BY <3>1, <3>3, <3>4
  <2> HIDE DEF b, size, len
  <2>6. ~Fits(b, size)
    <3>1. CASE ~Fits(bio, 4)
      <4>1. bio.data_avail < 4 /\ b.data_avail = bio.data_avail
        BY <3>1, <2>5, <1>1 DEF Fits, Round4
      <4> QED
        BY <4>1, <2>4, <1>1 DEF Fits
    <3>2. CASE Fits(bio, 4)
      <4>1. ~bio.overflow
        BY <3>2, <1>1 DEF Fits, Round4
      <4>2. ~b.overflow
        BY <3>2, <4>1, <2>5
      <4>3. Fits(b, size) => new.overflow = b.overflow
        <5>1. Stored(b, new, size, Chars(len))
          BY <2>2, <2>3, <2>4, <2>5, PutCells
        <5> HIDE DEF new
        <5> QED
          BY <5>1 DEF Stored
      <4> QED
        BY <4>2, <4>3 DEF bio
    <3> QED
      BY <3>1, <3>2
  <2>7. new.data = b.data /\ new.offs = <<>>
    <3>1. Stored(b, new, size, Chars(len))
      BY <2>2, <2>3, <2>4, <2>5, PutCells
    <3> HIDE DEF new
    <3> QED
      BY <3>1, <2>5, <2>6 DEF Stored
  <2>8. b.data = <<>> \/ b.data = <<Word(len)>>
    <3> DEFINE C == Cell
    <3>1. b.data \in Seq(C)
      BY <2>5 DEF BioOK
    <3> HIDE DEF C
    <3> QED
      BY <3>1, <2>5
  <2> HIDE DEF new
  <2>9. f.value = len
    BY DEF len
  <2> QED
    BY <1>3, <2>1, <2>7, <2>8, <2>9 DEF CutShort, bio, new
<1>4. CASE f.kind = "ref"
  <2>1. f.value \in Nat
    BY <1>4, FieldType
  <2>2. /\ Object(f.value) \in Cell /\ Junk \in Cell /\ ObjectSize \in Nat /\ ObjectSize > 0
        /\ Round4(ObjectSize) = 24
    BY <2>1 DEF Object, Junk, Cell, ObjectSize, Round4
  <2>3. new.offs = <<>>
    <3>1. CASE f.value = 0
      <4>1. new = bio_alloc(bio, ObjectSize, Cells(Object(f.value), ObjectSize))
        BY <1>4, <3>1 DEF Put, bio_put_ref
      <4>2. Stored(bio, new, ObjectSize, Object(f.value))
        BY <4>1, <2>2, <1>1, PutCells
      <4> HIDE DEF new
      <4> QED
        BY <4>2, <1>1 DEF Stored
    <3>2. CASE f.value # 0 /\ Fits(bio, ObjectSize) /\ bio.offs_avail > 0
      <4> DEFINE a == bio_alloc(bio, ObjectSize, Cells(Object(f.value), ObjectSize))
      <4>1. new = [a EXCEPT !.offs = Append(a.offs, 4 * Len(bio.data)), !.offs_avail = a.offs_avail - 1]
        BY <1>4, <3>2 DEF Put, bio_put_ref, bio_alloc_obj
      <4>2. BioOK(a) /\ Stored(bio, a, ObjectSize, Object(f.value))
        BY <2>2, <1>1, PutCells
      <4> HIDE DEF a
      <4>3. ~bio.overflow
        BY <3>2, <2>2, <1>1 DEF Fits
      <4>4. new.overflow = a.overflow
        BY <4>1, <4>2 DEF BioOK
      <4>5. new.overflow
        BY DEF bio
      <4> HIDE DEF new
      <4> QED
        BY <4>2, <4>3, <4>4, <4>5, <3>2 DEF Stored
    <3>3. CASE f.value # 0 /\ ~(Fits(bio, ObjectSize) /\ bio.offs_avail > 0)
      <4> DEFINE a == bio_alloc(bio, ObjectSize, Cells(Junk, ObjectSize))
      <4>1. new = [a EXCEPT !.overflow = TRUE]
        BY <1>4, <3>3 DEF Put, bio_put_ref, bio_alloc_obj
      <4>2. BioOK(a) /\ Stored(bio, a, ObjectSize, Junk)
        BY <2>2, <1>1, PutCells
      <4> HIDE DEF a
      <4>3. new.offs = a.offs
        BY <4>1, <4>2 DEF BioOK
      <4> HIDE DEF new
      <4> QED
        BY <4>2, <4>3, <1>1 DEF Stored
    <3> QED
      BY <3>1, <3>2, <3>3
  <2> HIDE DEF new
  <2> QED
    BY <1>4, <2>3 DEF CutShort, bio, new
<1> QED
  BY <1>2, <1>3, <1>4, FieldType

(* A new message is laid out.                                              *)
LEMMA LayoutInit == \E at : Layout(<<>>, bio_init(MaxData, MaxOffs), at)
<1> DEFINE at == [j \in 1 .. 1 |-> 0]
<1>1. bio_init(MaxData, MaxOffs).data = <<>>
  BY DEF bio_init
<1>2. at \in [1 .. Len(<<>>) + 1 -> Nat] /\ at[1] = 0 /\ at[Len(<<>>) + 1] = 0
  OBVIOUS
<1>3. Layout(<<>>, bio_init(MaxData, MaxOffs), at)
  BY <1>1, <1>2 DEF Layout
<1> QED
  BY <1>3

(* A field stays where it is when another one is put after it.             *)
LEMMA FieldStays ==
  ASSUME NEW bio, BioOK(bio), NEW new, NEW f \in Field, NEW g \in Field, Adds(bio, new, f),
         NEW k \in Nat, FieldAt(bio.data, bio.offs, g, k)
  PROVE  FieldAt(new.data, new.offs, g, k)
<1>1. NCells(g) \in Nat /\ NCells(g) >= 1 /\ NCells(f) \in Nat
  BY NCellsType
<1>2. Len(bio.data) \in Nat /\ bio.offs \in Seq(Nat)
  BY DEF BioOK
<1>3. /\ k + NCells(g) <= Len(new.data) /\ k + 1 \in 1 .. Len(bio.data)
      /\ 4 * Len(bio.data) # 4 * k /\ 4 * Len(bio.data) \in Nat
  <2>1. k + NCells(g) <= Len(bio.data) /\ Len(new.data) = Len(bio.data) + NCells(f)
    BY DEF FieldAt, Adds
  <2>2. \A l, m, n \in Nat : m >= 1 /\ k + m <= l =>
          /\ k + m <= l + n /\ k + 1 \in 1 .. l /\ 4 * l # 4 * k /\ 4 * l \in Nat
    OBVIOUS
  <2> QED
    BY <1>1, <1>2, <2>1, <2>2, Zenon
<1>4. new.data[k + 1] = bio.data[k + 1]
  BY <1>3 DEF Adds
<1>5. g.kind = "string16" /\ ~WrittenNull(g) => new.data[k + 2] = bio.data[k + 2]
  <2>1. SUFFICES ASSUME g.kind = "string16", ~WrittenNull(g) PROVE k + 2 \in 1 .. Len(bio.data)
    BY DEF Adds
  <2>2. g.value \in Nat
    BY <2>1, FieldType DEF WrittenNull
  <2>3. NCells(g) >= 2
    BY <2>1, <2>2, StringSize DEF NCells
  <2>4. k + NCells(g) <= Len(bio.data)
    BY DEF FieldAt
  <2> QED
    BY <2>3, <2>4, <1>1, <1>2
<1>6. /\ (\E i \in DOMAIN bio.offs : bio.offs[i] = 4 * k) => \E i \in DOMAIN new.offs : new.offs[i] = 4 * k
      /\ (\A i \in DOMAIN bio.offs : bio.offs[i] # 4 * k) => \A i \in DOMAIN new.offs : new.offs[i] # 4 * k
  <2>1. CASE new.offs = bio.offs
    BY <2>1
  <2>2. CASE new.offs = Append(bio.offs, 4 * Len(bio.data))
    <3> DEFINE x == 4 * Len(bio.data)
               y == 4 * k
               o == bio.offs
    <3>1. x \in Nat /\ x # y /\ o \in Seq(Nat) /\ new.offs = Append(o, x)
      BY <2>2, <1>2, <1>3
    <3> HIDE DEF x, y, o
    <3>2. /\ DOMAIN o = 1 .. Len(o) /\ DOMAIN Append(o, x) = 1 .. Len(o) + 1
          /\ Len(o) \in Nat /\ Append(o, x)[Len(o) + 1] = x
          /\ \A i \in 1 .. Len(o) : Append(o, x)[i] = o[i]
      BY <3>1
    <3>3. \A i \in 1 .. Len(o) : i \in 1 .. Len(o) + 1
      BY <3>2
    <3>4. \A i \in 1 .. Len(o) + 1 : i \in 1 .. Len(o) \/ i = Len(o) + 1
      BY <3>2
    <3>5. /\ (\E i \in DOMAIN o : o[i] = y) => \E i \in DOMAIN new.offs : new.offs[i] = y
          /\ (\A i \in DOMAIN o : o[i] # y) => \A i \in DOMAIN new.offs : new.offs[i] # y
      BY <3>1, <3>2, <3>3, <3>4, Zenon
    <3> QED
      BY <3>5 DEF o, y
  <2> QED
    BY <2>1, <2>2 DEF Adds
<1> QED
  BY <1>3, <1>4, <1>5, <1>6 DEF FieldAt

(* A put that fits extends the layout.                                     *)
LEMMA LayoutExtends ==
  ASSUME NEW bio, BioOK(bio), NEW new, NEW f \in Field, NEW p \in Seq(Field), Adds(bio, new, f),
         NEW at, Layout(p, bio, at)
  PROVE  \E at2 : Layout(Append(p, f), new, at2)
<1> DEFINE F == Field
           n == Len(p)
           q == Append(p, f)
           at2 == [j \in 1 .. (n + 1) + 1 |-> IF j <= n + 1 THEN at[j] ELSE Len(new.data)]
<1>1. n \in Nat /\ Len(q) = n + 1 /\ q[n + 1] = f /\ (\A j \in 1 .. n : q[j] = p[j] /\ p[j] \in F)
  <2>1. f \in F /\ p \in Seq(F)
    OBVIOUS
  <2> HIDE DEF F
  <2> QED
    BY <2>1
<1> HIDE DEF F, q, n
<1>2. /\ at \in [1 .. n + 1 -> Nat] /\ at[1] = 0 /\ at[n + 1] = Len(bio.data)
      /\ \A j \in 1 .. n : FieldAt(bio.data, bio.offs, p[j], at[j]) /\ at[j + 1] = at[j] + NCells(p[j])
  BY DEF Layout, n
<1>3. Len(new.data) \in Nat /\ Len(new.data) = Len(bio.data) + NCells(f)
  <2>1. Len(bio.data) \in Nat
    BY DEF BioOK
  <2>2. NCells(f) \in Nat
    BY NCellsType
  <2> QED
    BY <2>1, <2>2 DEF Adds
<1>4. at2 \in [1 .. Len(q) + 1 -> Nat] /\ at2[1] = 0 /\ at2[Len(q) + 1] = Len(new.data)
  BY <1>1, <1>2, <1>3
<1>5. /\ \A j \in 1 .. n : at2[j] = at[j] /\ at2[j + 1] = at[j + 1]
      /\ at2[n + 1] = at[n + 1] /\ at2[(n + 1) + 1] = Len(new.data)
  BY <1>1
<1> HIDE DEF at2
<1>6. ASSUME NEW j \in 1 .. Len(q)
      PROVE  FieldAt(new.data, new.offs, q[j], at2[j]) /\ at2[j + 1] = at2[j] + NCells(q[j])
  <2>1. CASE j = n + 1
    <3>1. FieldAt(new.data, new.offs, f, Len(bio.data))
      BY DEF Adds
    <3> QED
      BY <2>1, <3>1, <1>1, <1>2, <1>3, <1>5
  <2>2. CASE j \in 1 .. n
    <3>1. at[j] \in Nat /\ p[j] \in Field /\ q[j] = p[j]
      BY <2>2, <1>1, <1>2 DEF F
    <3>2. FieldAt(bio.data, bio.offs, p[j], at[j]) /\ at[j + 1] = at[j] + NCells(p[j])
      BY <2>2, <1>2
    <3>3. FieldAt(new.data, new.offs, p[j], at[j])
      BY <3>1, <3>2, FieldStays
    <3> QED
      BY <3>1, <3>2, <3>3, <2>2, <1>5
  <2> QED
    BY <2>1, <2>2, <1>1
<1>7. Layout(q, new, at2)
  BY <1>4, <1>6 DEF Layout
<1> QED
  BY <1>7 DEF q

(* A get changes only the place of the reader.                             *)
Moved(bio, new) ==
  /\ new \in Reader /\ new.data = bio.data /\ new.offs = bio.offs
  /\ new.offs_avail = bio.offs_avail

(* What a get of that many bytes does to the reader.                       *)
LEMMA GetMoves ==
  ASSUME NEW bio \in Reader, NEW size \in Nat
  PROVE  /\ Moved(bio, bio_get(bio, size)) /\ Moved(bio, Exhaust(bio))
         /\ Exhaust(bio).data_avail = 0 /\ Exhaust(bio).pos = bio.pos
         /\ Available(bio, size) => /\ bio_get(bio, size).pos = bio.pos + Round4(size) \div 4
                                    /\ bio_get(bio, size).data_avail = bio.data_avail - Round4(size)
         /\ ~Available(bio, size) => bio_get(bio, size) = Exhaust(bio)
<1>0. /\ bio.data_avail \in Nat /\ bio.pos \in Nat
      /\ bio \in [data : Seq(Cell), data_avail : Nat, offs : Seq(Nat), offs_avail : Nat,
                  overflow : BOOLEAN, pos : Nat]
  BY DEF Reader
<1>1. Round4(size) \in Nat /\ Round4(size) \div 4 \in Nat
  BY Round4Type
<1>2. Moved(bio, Exhaust(bio)) /\ Exhaust(bio).data_avail = 0 /\ Exhaust(bio).pos = bio.pos
  BY <1>0 DEF Moved, Exhaust, Reader
<1>3. CASE ~Available(bio, size)
  <2>1. bio_get(bio, size) = Exhaust(bio)
    BY <1>3 DEF bio_get
  <2> QED
    BY <1>2, <1>3, <2>1
<1>4. CASE Available(bio, size)
  <2> DEFINE new == bio_get(bio, size)
             x == bio.pos + Round4(size) \div 4
             y == bio.data_avail - Round4(size)
  <2>1. new = [bio EXCEPT !.pos = x, !.data_avail = y]
    BY <1>4 DEF bio_get
  <2>2. x \in Nat /\ y \in Nat
    BY <1>0, <1>1, <1>4 DEF Available
  <2> HIDE DEF new, x, y
  <2>3. Moved(bio, new) /\ new.pos = x /\ new.data_avail = y
    BY <2>1, <2>2, <1>0 DEF Moved, Reader
  <2> QED
    BY <1>2, <1>4, <2>3 DEF new, x, y
<1> QED
  BY <1>3, <1>4

(* A reader with nothing left gets nothing, and there stays nothing left.  *)
LEMMA GetStopped ==
  ASSUME NEW bio \in Reader, bio.data_avail = 0, NEW kind \in {"uint32", "string16", "ref"}
  PROVE  /\ Get(bio, kind).value \in {0, Null} /\ Moved(bio, Get(bio, kind).bio)
         /\ Get(bio, kind).bio.data_avail = 0
<1>1. ASSUME NEW b \in Reader, b.data_avail = 0, NEW size \in Nat, size > 0
      PROVE  ~Available(b, size)
  <2>1. Round4(size) > 0
    BY <1>1 DEF Round4
  <2> QED
    BY <1>1, <2>1, Round4Type DEF Available
<1>2. 4 \in Nat /\ 4 > 0 /\ 2 \in Nat /\ 2 > 0 /\ ObjectSize \in Nat /\ ObjectSize > 0
  BY DEF ObjectSize
<1> DEFINE e == Exhaust(bio)
<1>3. /\ bio_get(bio, 4) = e /\ bio_get(bio, ObjectSize) = e /\ ~Available(bio, 4)
      /\ ~Available(bio, ObjectSize) /\ Moved(bio, e) /\ e.data_avail = 0
  BY <1>1, <1>2, GetMoves
<1> HIDE DEF e
<1>4. e \in Reader
  BY <1>3 DEF Moved
<1>5. bio_get_uint32(bio) = [value |-> 0, bio |-> e]
  BY <1>3 DEF bio_get_uint32
<1>6. CASE kind = "uint32"
  BY <1>3, <1>5, <1>6 DEF Get
<1>7. CASE kind = "ref"
  <2>1. bio_get_ref(bio) = [value |-> 0, bio |-> e]
    BY <1>3 DEF bio_get_ref, e
  <2> QED
    BY <1>3, <1>7, <2>1 DEF Get
<1>8. CASE kind = "string16"
  <2>1. ~Available(e, 2) /\ bio_get(e, 2) = Exhaust(e) /\ Moved(e, Exhaust(e)) /\ Exhaust(e).data_avail = 0
    BY <1>1, <1>2, <1>3, <1>4, GetMoves
  <2>2. 0 # Garbage /\ 0 # NullLen /\ 2 * (0 + 1) = 2
    BY DEF Garbage, NullLen
  <2>3. bio_get_string16(bio) = [value |-> Null, bio |-> Exhaust(e)]
    BY <1>5, <2>1, <2>2 DEF bio_get_string16
  <2>4. Moved(bio, Exhaust(e))
    BY <1>3, <2>1 DEF Moved
  <2> QED
    BY <1>8, <2>1, <2>3, <2>4 DEF Get
<1> QED
  BY <1>6, <1>7, <1>8

(* The only field of a reply that did not fit reads as nothing.            *)
LEMMA GetCut ==
  ASSUME NEW f \in Field, NEW o, BioOK(o), CutShort(f, o), NEW bio, bio = bio_init_from_txn(o)
  PROVE  Get(bio, f.kind).value \in {0, Null} /\ Moved(bio, Get(bio, f.kind).bio)
<1>1. /\ bio.data = o.data /\ bio.data_avail = 4 * Len(o.data) /\ bio.offs = o.offs
      /\ bio.offs_avail = Len(o.offs) /\ bio.pos = 0 /\ bio \in Reader
  BY DEF bio_init_from_txn, Reader, BioOK
<1>2. f.kind \in {"uint32", "string16", "ref"}
  BY FieldType
<1>3. CASE bio.data_avail = 0
  BY <1>1, <1>2, <1>3, GetStopped
<1>4. CASE f.kind = "ref"
  <2>1. bio.offs_avail = 0
    BY <1>1 DEF CutShort
  <2>2. bio_get_ref(bio) = [value |-> 0, bio |-> Exhaust(bio)]
    BY <2>1 DEF bio_get_ref
  <2>3. Moved(bio, Exhaust(bio))
    BY <1>1, GetMoves
  <2> QED
    BY <1>4, <2>2, <2>3 DEF Get
<1>5. CASE f.kind = "string16" /\ f.value \in Nat /\ o.data = <<Word(f.value)>>
  <2> DEFINE len == f.value
             b == bio_get(bio, 4)
  <2>1. bio.data_avail = 4 /\ NextCell(bio) = Word(len)
    BY <1>1, <1>5 DEF NextCell
  <2>2. Available(bio, 4) /\ Round4(4) = 4
    BY <2>1 DEF Available, Round4
  <2>3. Moved(bio, b) /\ b.data_avail = 0
    BY <1>1, <2>1, <2>2, GetMoves
  <2>4. bio_get_uint32(bio) = [value |-> len, bio |-> b]
    BY <2>1, <2>2 DEF bio_get_uint32, Word
  <2> HIDE DEF b
  <2> DEFINE size == 2 * (len + 1)
  <2>5. /\ size \in Nat /\ Round4(size) \in Nat /\ Round4(size) >= 4 /\ len # Garbage /\ len # NullLen
    BY <1>5, StringSize DEF Garbage, NullLen
  <2>6. ~Available(b, size)
    BY <2>3, <2>5 DEF Available
  <2>7. b \in Reader
    BY <2>3 DEF Moved
  <2>8. bio_get(b, size) = Exhaust(b) /\ Moved(b, Exhaust(b))
    BY <2>5, <2>6, <2>7, GetMoves
  <2> HIDE DEF size
  <2>9. bio_get_string16(bio) = [value |-> Null, bio |-> Exhaust(b)]
    BY <2>4, <2>5, <2>6, <2>8 DEF bio_get_string16, size
  <2>10. Moved(bio, Exhaust(b))
    BY <2>3, <2>8 DEF Moved
  <2> QED
    BY <1>5, <2>9, <2>10 DEF Get
<1>6. o.data = <<>> => bio.data_avail = 0
  BY <1>1
<1> QED
  BY <1>2, <1>3, <1>4, <1>5, <1>6 DEF CutShort

(* The reader where a field begins gets that field, and is then where the  *)
(* next one begins or, after a null, has nothing left.                     *)
LEMMA GetInStep ==
  ASSUME NEW f \in Field, NEW bio \in Reader, FieldAt(bio.data, bio.offs, f, bio.pos),
         bio.data_avail = 4 * (Len(bio.data) - bio.pos), bio.offs_avail = Len(bio.offs)
  PROVE  LET g == Get(bio, f.kind)
         IN  /\ g.value = Meant(f) /\ Moved(bio, g.bio)
             /\ \/ Stops(f) /\ g.bio.data_avail = 0
                \/ /\ g.bio.pos = bio.pos + NCells(f)
                   /\ g.bio.data_avail = 4 * (Len(bio.data) - g.bio.pos)
<1>1. NCells(f) \in Nat /\ NCells(f) >= 1
  BY NCellsType
<1>2. bio.pos \in Nat /\ Len(bio.data) \in Nat /\ bio.pos + NCells(f) <= Len(bio.data)
  BY DEF Reader, FieldAt
<1>3. Available(bio, 4) /\ Round4(4) = 4
  BY <1>1, <1>2 DEF Available, Round4
<1> DEFINE b == bio_get(bio, 4)
<1>4. /\ Moved(bio, b) /\ b \in Reader /\ b.pos = bio.pos + 1
      /\ b.data_avail = 4 * (Len(bio.data) - (bio.pos + 1))
  <2>1. Moved(bio, b) /\ b.pos = bio.pos + 4 \div 4 /\ b.data_avail = bio.data_avail - 4
    BY <1>3, GetMoves
  <2> HIDE DEF b
  <2>2. b.pos = bio.pos + 1
    BY <2>1
  <2>3. \A l, p \in Nat : 4 * (l - p) - 4 = 4 * (l - (p + 1))
    OBVIOUS
  <2>4. b.data_avail = 4 * (Len(bio.data) - (bio.pos + 1))
    BY <2>1, <2>3, <1>2, Zenon
  <2> QED
    BY <2>1, <2>2, <2>4 DEF Moved
<1>5. ASSUME NEW n \in Int, NextCell(bio) = Word(n) PROVE bio_get_uint32(bio) = [value |-> n, bio |-> b]
  BY <1>3, <1>5 DEF bio_get_uint32, Word
<1> HIDE DEF b
<1>6. CASE f.kind = "uint32"
  <2>1. NextCell(bio) = Word(f.value) /\ NCells(f) = 1 /\ f.value \in Int /\ Meant(f) = f.value
    BY <1>6, FieldType DEF FieldAt, NCells, Meant, NextCell
  <2>2. Get(bio, f.kind) = [value |-> f.value, bio |-> b]
    BY <1>5, <1>6, <2>1 DEF Get
  <2> QED
    BY <1>4, <2>1, <2>2
<1>7. CASE f.kind = "string16" /\ WrittenNull(f)
  <2>1. NextCell(bio) = Word(NullLen) /\ Meant(f) = Null /\ NullLen \in Int /\ NullLen # Garbage
    BY <1>7 DEF FieldAt, Meant, NextCell, WrittenNull, NullLen, Garbage
  <2>2. bio_get_uint32(bio) = [value |-> NullLen, bio |-> b]
    BY <1>5, <2>1
  <2>3. Get(bio, f.kind) = [value |-> Null, bio |-> Exhaust(b)]
    BY <1>7, <2>1, <2>2 DEF Get, bio_get_string16
  <2>4. Moved(b, Exhaust(b)) /\ Exhaust(b).data_avail = 0
    BY <1>4, GetMoves
  <2>5. Moved(bio, Exhaust(b))
    BY <1>4, <2>4 DEF Moved
  <2>6. Stops(f)
    BY <2>1 DEF Stops
  <2> QED
    BY <2>1, <2>3, <2>4, <2>5, <2>6
<1>8. CASE f.kind = "string16" /\ ~WrittenNull(f)
  <2> DEFINE len == f.value
             size == 2 * (len + 1)
             k == Round4(size) \div 4
             e == bio_get(b, size)
  <2>1. len \in Nat /\ len \in Int /\ Meant(f) = len
    BY <1>8, FieldType DEF WrittenNull, Meant
  <2>2. NextCell(bio) = Word(len)
    BY <1>8 DEF FieldAt, NextCell
  <2>3. NextCell(b) = Chars(len)
    <3>1. b.data = bio.data /\ b.pos = bio.pos + 1 /\ (bio.pos + 1) + 1 = bio.pos + 2
      BY <1>2, <1>4 DEF Moved
    <3> QED
      BY <1>8, <3>1 DEF FieldAt, NextCell
  <2>4. bio_get_uint32(bio) = [value |-> len, bio |-> b]
    BY <1>5, <2>1, <2>2
  <2>5. size \in Nat /\ k \in Nat /\ 4 * k = Round4(size) /\ NCells(f) = 1 + k
    BY <1>8, <2>1, StringSize DEF NCells
  <2>6. len # Garbage /\ len # NullLen
    BY <2>1 DEF Garbage, NullLen
  <2> HIDE DEF size, k
  <2>7. Available(b, size)
    <3>1. \A l, p, m \in Nat : p + (1 + m) <= l => 4 * m <= 4 * (l - (p + 1))
      OBVIOUS
    <3>2. 4 * k <= 4 * (Len(bio.data) - (bio.pos + 1))
      BY <2>5, <1>2, <3>1, Zenon
    <3> QED
      BY <2>5, <1>4, <3>2, Zenon DEF Available
  <2>8. Moved(b, e) /\ e.pos = b.pos + k /\ e.data_avail = b.data_avail - Round4(size)
    BY <1>4, <2>5, <2>7, GetMoves DEF k
  <2> HIDE DEF e
  <2>9. bio_get_string16(bio) = [value |-> len, bio |-> e]
    BY <2>3, <2>4, <2>6, <2>7 DEF bio_get_string16, size, e
  <2>10. Get(bio, f.kind) = [value |-> len, bio |-> e]
    BY <1>8, <2>9 DEF Get
  <2>11. Moved(bio, e)
    BY <1>4, <2>8 DEF Moved
  <2>12. e.pos = bio.pos + NCells(f)
    <3>1. \A p, m \in Nat : (p + 1) + m = p + (1 + m)
      OBVIOUS
    <3> QED
      BY <2>5, <2>8, <1>2, <1>4, <3>1, Zenon
  <2>13. e.data_avail = 4 * (Len(bio.data) - e.pos)
    <3>1. \A l, p, m \in Nat : 4 * (l - (p + 1)) - 4 * m = 4 * (l - (p + (1 + m)))
      OBVIOUS
    <3>2. e.data_avail = 4 * (Len(bio.data) - (bio.pos + 1)) - 4 * k
      BY <2>5, <2>8, <1>4, Zenon
    <3>3. e.data_avail = 4 * (Len(bio.data) - (bio.pos + (1 + k)))
      BY <2>5, <1>2, <3>1, <3>2, Zenon
    <3> QED
      BY <2>5, <2>12, <3>3, Zenon
  <2> QED
    BY <2>1, <2>10, <2>11, <2>12, <2>13
<1>9. CASE f.kind = "ref" /\ f.value = 0
  <2>1. ~\E i \in 1 .. bio.offs_avail : bio.offs[i] = 4 * bio.pos
    <3>1. DOMAIN bio.offs = 1 .. Len(bio.offs)
      BY DEF Reader
    <3> QED
      BY <1>9, <3>1 DEF FieldAt
  <2>2. Get(bio, f.kind) = [value |-> 0, bio |-> Exhaust(bio)]
    BY <1>9, <2>1 DEF Get, bio_get_ref
  <2>3. Moved(bio, Exhaust(bio)) /\ Exhaust(bio).data_avail = 0
    BY GetMoves, 4 \in Nat
  <2>4. Meant(f) = 0 /\ Stops(f)
    BY <1>9 DEF Meant, Stops
  <2> QED
    BY <2>2, <2>3, <2>4
<1>10. CASE f.kind = "ref" /\ f.value # 0
  <2> DEFINE e == bio_get(bio, ObjectSize)
  <2>1. \E i \in 1 .. bio.offs_avail : bio.offs[i] = 4 * bio.pos
    <3>1. DOMAIN bio.offs = 1 .. Len(bio.offs)
      BY DEF Reader
    <3> QED
      BY <1>10, <3>1 DEF FieldAt
  <2>2. NCells(f) = 6 /\ ObjectSize \in Nat /\ Round4(ObjectSize) = 24 /\ Meant(f) = f.value
    BY <1>10 DEF NCells, ObjectSize, Round4, Meant
  <2>3. Available(bio, ObjectSize)
    BY <1>2, <2>2 DEF Available
  <2>4. NextCell(bio).value = f.value
    BY <1>10 DEF FieldAt, NextCell, Object
  <2>5. Moved(bio, e) /\ e.pos = bio.pos + 24 \div 4 /\ e.data_avail = bio.data_avail - 24
    BY <2>2, <2>3, GetMoves
  <2>6. Get(bio, f.kind) = [value |-> f.value, bio |-> e]
    BY <1>10, <2>1, <2>3, <2>4 DEF Get, bio_get_ref
  <2> HIDE DEF e
  <2>7. e.pos = bio.pos + 6 /\ e.data_avail = 4 * (Len(bio.data) - e.pos)
    <3>1. \A l, p \in Nat : 4 * (l - p) - 24 = 4 * (l - (p + 6))
      OBVIOUS
    <3>2. 24 \div 4 = 6
      OBVIOUS
    <3> QED
      BY <2>5, <1>2, <3>1, <3>2, Zenon
  <2> QED
    BY <2>2, <2>5, <2>6, <2>7
<1> QED
  BY <1>6, <1>7, <1>8, <1>9, <1>10, FieldType

(* What a field means is never taken for garbage.                          *)
LEMMA MeantType == ASSUME NEW f \in Field PROVE Meant(f) \in Int /\ Meant(f) # Garbage
<1>1. CASE f.kind = "string16" /\ (f.value = NullLen \/ f.value >= MaxBio \div 2)
  BY <1>1 DEF Meant, Null, Garbage
<1>2. CASE ~(f.kind = "string16" /\ (f.value = NullLen \/ f.value >= MaxBio \div 2))
  <2>1. f.value \in Nat /\ Meant(f) = f.value
    BY <1>2, FieldType DEF Meant
  <2> QED
    BY <2>1 DEF Garbage
<1> QED
  BY <1>1, <1>2

(* One more value that was read as it was meant.                           *)
LEMMA GotMore ==
  ASSUME got \in Seq(Int), GetsWhatWasPut, NEW v \in Int, v # Garbage, got' = Append(got, v),
         UNCHANGED <<puts, out>>,
         (\A j \in 1 .. Len(got) : ~Stops(puts[j])) =>
           \/ v = Meant(puts[Len(got) + 1])
           \/ Len(puts) = 1 /\ out.overflow /\ v \in {0, Null}
  PROVE  got' \in Seq(Int) /\ Len(got') = Len(got) + 1 /\ GetsWhatWasPut'
<1> DEFINE n == Len(got)
<1>1. /\ n \in Nat /\ got' \in Seq(Int) /\ Len(got') = n + 1 /\ DOMAIN got = 1 .. n
      /\ DOMAIN got' = 1 .. n + 1 /\ got'[n + 1] = v /\ \A i \in 1 .. n : got'[i] = got[i]
  OBVIOUS
<1> HIDE DEF n
<1>2. puts' = puts /\ out' = out
  OBVIOUS
<1>3. ASSUME NEW i \in DOMAIN got', \A j \in 1 .. i - 1 : ~Stops(puts[j])
      PROVE  \/ got'[i] = Meant(puts[i])
             \/ Len(puts) = 1 /\ out.overflow /\ got'[i] \in {0, Null}
  <2>1. CASE i = n + 1
    <3>1. i - 1 = n
      BY <2>1, <1>1
    <3> QED
      BY <2>1, <3>1, <1>1, <1>3 DEF n
  <2>2. CASE i \in 1 .. n
    BY <2>2, <1>1, <1>3 DEF GetsWhatWasPut, ReadsBack
  <2> QED
    BY <2>1, <2>2, <1>1
<1>4. \A i \in DOMAIN got' : got'[i] # Garbage
  <2>1. \A i \in 1 .. n : got[i] # Garbage
    BY <1>1 DEF GetsWhatWasPut, NeverGarbage
  <2>2. \A i \in 1 .. n + 1 : i \in 1 .. n \/ i = n + 1
    BY <1>1
  <2> QED
    BY <2>1, <2>2, <1>1
<1>5. ReadsBack'
  BY <1>2, <1>3 DEF ReadsBack, Stops, Meant
<1>6. NeverGarbage'
  BY <1>4 DEF NeverGarbage
<1> QED
  BY <1>1, <1>5, <1>6 DEF GetsWhatWasPut, n

(* The fields of a message that is being read.                             *)
LEMMA FieldRead ==
  ASSUME puts \in Seq(Field), got \in Seq(Int), Len(got) < Len(puts)
  PROVE  /\ Len(got) \in Nat /\ Len(puts) \in Nat /\ Len(got) + 1 \in 1 .. Len(puts)
         /\ puts[Len(got) + 1] \in Field
<1> DEFINE F == Field
<1>1. puts \in Seq(F)
  OBVIOUS
<1> HIDE DEF F
<1>2. /\ Len(got) \in Nat /\ Len(puts) \in Nat /\ Len(got) + 1 \in 1 .. Len(puts)
  BY <1>1
<1>3. puts[Len(got) + 1] \in F
  BY <1>1, <1>2
<1> QED
  BY <1>2, <1>3 DEF F

(* A message is laid out field by field while it is written, and read from *)
(* the beginning of one field to the beginning of the next until a null    *)
(* stops the reader.                                                       *)
THEOREM MessageInductive == Spec => []MessageInv
<1>1. Init => MessageInv
  <2> SUFFICES ASSUME Init PROVE MessageInv
    OBVIOUS
  <2>1. puts = <<>> /\ out = bio_init(MaxData, MaxOffs) /\ got = <<>> /\ phase = "write"
    BY DEF Init
  <2>2. Len(puts) = 0 /\ puts \in Seq(Field) /\ got \in Seq(Int) /\ DOMAIN got = {}
    BY <2>1
  <2>3. Written
    BY <2>1, <2>2, InitOK, LayoutInit DEF Written
  <2>4. GetsWhatWasPut
    BY <2>2 DEF GetsWhatWasPut, ReadsBack, NeverGarbage
  <2> QED
    BY <2>1, <2>2, <2>3, <2>4 DEF MessageInv
<1>2. ASSUME MessageInv, [Next]_vars PROVE MessageInv'
  <2>0. /\ BioOK(out) /\ puts \in Seq(Field) /\ got \in Seq(Int) /\ GetsWhatWasPut /\ Written
        /\ phase \in {"write", "failed", "read", "done"}
    BY <1>2 DEF MessageInv, Written
  <2>1. ASSUME NEW f \in Field, Write(f) PROVE MessageInv'
    <3>1. /\ phase = "write" /\ phase' = "write" /\ out' = Put(out, f) /\ puts' = Append(puts, f)
          /\ got' = got
      BY <2>1 DEF Write
    <3>2. got = <<>> /\ got' \in Seq(Int) /\ DOMAIN got' = {}
      BY <3>1, <1>2 DEF MessageInv
    <3>3. BioOK(out')
      BY <3>1, <2>0, PutOK
    <3>4. puts' \in Seq(Field) /\ puts' # <<>> /\ (Len(puts') = 1 => puts = <<>> /\ puts'[1] = f)
      <4> DEFINE F == Field
      <4>1. puts \in Seq(F) /\ f \in F
        BY <2>0
      <4> HIDE DEF F
      <4>2. Append(puts, f) \in Seq(F) /\ Len(Append(puts, f)) = Len(puts) + 1 /\ Len(puts) \in Nat
            /\ Append(puts, f)[Len(puts) + 1] = f
        BY <4>1
      <4>3. Len(Append(puts, f)) = 1 => Len(puts) = 0
        BY <4>2
      <4>4. Len(puts) = 0 => puts = <<>> /\ Append(puts, f)[1] = f
        BY <4>1, <4>2
      <4>5. Append(puts, f) # <<>>
        BY <4>2
      <4> QED
        BY <3>1, <4>2, <4>3, <4>4, <4>5 DEF F
    <3>5. ~out'.overflow => \E at : Layout(puts', out', at)
      <4> SUFFICES ASSUME ~out'.overflow PROVE \E at : Layout(puts', out', at)
        OBVIOUS
      <4>1. Adds(out, out', f)
        BY <3>1, <2>0, PutAdds
      <4>2. ~out.overflow
        BY <4>1 DEF Adds
      <4>3. PICK at : Layout(puts, out, at)
        BY <4>2, <2>0 DEF Written
      <4> QED
        BY <4>1, <4>3, <3>1, <2>0, LayoutExtends
    <3>6. out'.overflow /\ Len(puts') = 1 => CutShort(puts'[1], out')
      <4> SUFFICES ASSUME out'.overflow, Len(puts') = 1 PROVE CutShort(puts'[1], out')
        OBVIOUS
      <4>1. puts = <<>> /\ puts'[1] = f
        BY <3>4
      <4>2. out' = Put(bio_init(MaxData, MaxOffs), f)
        BY <4>1, <3>1, <2>0 DEF Written
      <4>3. CutShort(f, out')
        BY <4>2, PutCut
      <4> QED
        BY <4>1, <4>3
    <3>7. Written'
      BY <3>3, <3>4, <3>5, <3>6 DEF Written, Layout, CutShort, BioOK, FieldAt
    <3>8. GetsWhatWasPut'
      BY <3>2 DEF GetsWhatWasPut, ReadsBack, NeverGarbage
    <3> QED
      BY <3>1, <3>2, <3>7, <3>8 DEF MessageInv
  <2>2. ASSUME Deliver, phase = "write", UNCHANGED <<out, puts, got>>,
               out.overflow => Len(puts) <= 1
        PROVE  MessageInv'
    <3>1. /\ in' = bio_init_from_txn(out) /\ phase' = "read" /\ got = <<>> /\ got' = got
          /\ out' = out /\ puts' = puts
      BY <1>2, <2>2 DEF Deliver, MessageInv
    <3>2. /\ in' \in Reader /\ in'.data = out.data /\ in'.offs = out.offs
          /\ in'.offs_avail = Len(out.offs) /\ in'.pos = 0 /\ in'.data_avail = 4 * (Len(out.data) - 0)
      BY <3>1, <2>0 DEF bio_init_from_txn, Reader, BioOK
    <3>3. Len(got) = 0 /\ Len(got) <= Len(puts)
      BY <3>1, <2>0
    <3>4. ~out.overflow => \E at : Layout(puts, out, at) /\ in'.pos = at[Len(got) + 1]
      <4> SUFFICES ASSUME ~out.overflow
                   PROVE  \E at : Layout(puts, out, at) /\ in'.pos = at[Len(got) + 1]
        OBVIOUS
      <4>1. PICK at : Layout(puts, out, at)
        BY <2>0 DEF Written
      <4>2. at[Len(got) + 1] = 0
        BY <4>1, <3>3 DEF Layout
      <4> QED
        BY <4>1, <4>2, <3>2
    <3>5. Reading'
      BY <2>2, <3>1, <3>2, <3>3, <3>4 DEF Reading, InStep
    <3>6. Written' /\ GetsWhatWasPut'
      BY <3>1, <2>0 DEF Written, GetsWhatWasPut, ReadsBack, NeverGarbage
    <3> QED
      BY <3>1, <3>5, <3>6, <2>0 DEF MessageInv
  <2>3. CASE binder_call
    <3>1. CASE out.overflow
      <4>1. phase = "write" /\ phase' = "failed" /\ UNCHANGED <<in, out, puts, got>>
        BY <2>3, <3>1 DEF binder_call
      <4>2. Written' /\ GetsWhatWasPut'
        BY <4>1, <2>0 DEF Written, GetsWhatWasPut, ReadsBack, NeverGarbage
      <4> QED
        BY <4>1, <4>2, <1>2 DEF MessageInv
    <3>2. CASE ~out.overflow
      BY <2>2, <2>3, <3>2 DEF binder_call
    <3> QED
      BY <3>1, <3>2
  <2>4. CASE binder_send_reply
    BY <2>2, <2>4 DEF binder_send_reply
  <2>5. CASE Read
    <3> DEFINE n == Len(got)
               f == puts[n + 1]
               g == Get(in, f.kind)
    <3>1. phase = "read" /\ n < Len(puts) /\ UNCHANGED <<phase, out, puts>>
      BY <2>5 DEF Read
    <3>2. got' = Append(got, g.value) /\ in' = g.bio
      BY <2>5 DEF Read
    <3>3. n \in Nat /\ Len(puts) \in Nat /\ n + 1 \in 1 .. Len(puts) /\ f \in Field
      BY <2>0, <3>1, FieldRead
    <3>4. f.kind \in {"uint32", "string16", "ref"}
      BY <3>3, FieldType
    <3>5. Reading
      BY <1>2, <3>1 DEF MessageInv
    <3> HIDE DEF g, f
    <3>6. ASSUME g.value \in Int, g.value # Garbage, Moved(in, g.bio),
                 (\A j \in 1 .. n : ~Stops(puts[j])) =>
                   \/ g.value = Meant(f)
                   \/ Len(puts) = 1 /\ out.overflow /\ g.value \in {0, Null},
                 ~out.overflow => \E at : /\ Layout(puts, out, at)
                                          /\ \/ /\ g.bio.pos = at[(n + 1) + 1]
                                                /\ g.bio.data_avail = 4 * (Len(g.bio.data) - g.bio.pos)
                                             \/ /\ g.bio.data_avail = 0
                                                /\ \E j \in 1 .. n + 1 : Stops(puts[j])
          PROVE  MessageInv'
      <4>1. got' \in Seq(Int) /\ Len(got') = n + 1 /\ GetsWhatWasPut'
        BY <2>0, <3>1, <3>2, <3>6, GotMore DEF f
      <4>2. /\ in' \in Reader /\ in'.data = out.data /\ in'.offs = out.offs
            /\ in'.offs_avail = Len(out.offs) /\ Len(got') <= Len(puts)
        BY <3>2, <3>3, <3>5, <3>6, <4>1 DEF Reading, Moved
      <4>3. out' = out /\ puts' = puts
        BY <3>1
      <4>4. Len(got') # 0
        BY <4>1, <3>3
      <4>5. ~out.overflow => \E at : Layout(puts, out, at) /\ (InStep(at)' \/ Stopped')
        BY <3>2, <3>6, <4>1, <4>3 DEF InStep, Stopped, Stops, Meant
      <4>6. Reading'
        BY <3>5, <4>2, <4>3, <4>4, <4>5 DEF Reading
      <4>7. Written'
        BY <2>0, <4>3 DEF Written
      <4> QED
        BY <3>1, <4>1, <4>6, <4>7 DEF MessageInv
    <3>7. CASE out.overflow
      <4>1. Len(puts) = 1 /\ n = 0 /\ in = bio_init_from_txn(out)
        <5>1. Len(puts) <= 1 /\ (n = 0 => in = bio_init_from_txn(out))
          BY <3>5, <3>7 DEF Reading
        <5> HIDE DEF n
        <5>2. Len(puts) = 1 /\ n = 0
          <6>1. \A m, l \in Nat : m < l /\ l <= 1 => l = 1 /\ m = 0
            OBVIOUS
          <6> QED
            BY <3>1, <3>3, <5>1, <6>1, Zenon
        <5> QED
          BY <5>1, <5>2
      <4>2. f = puts[1]
        BY <4>1 DEF f
      <4>3. CutShort(f, out)
        BY <4>1, <4>2, <3>7, <2>0 DEF Written
      <4>4. g.value \in {0, Null} /\ Moved(in, g.bio)
        BY <4>1, <4>3, <3>3, <2>0, GetCut DEF g
      <4>5. g.value \in Int /\ g.value # Garbage
        BY <4>4 DEF Null, Garbage
      <4> QED
        BY <3>6, <3>7, <4>1, <4>4, <4>5
    <3>8. ASSUME ~out.overflow, NEW at, Layout(puts, out, at), InStep(at) PROVE MessageInv'
      <4>1. /\ in \in Reader /\ in.data = out.data /\ in.offs = out.offs /\ in.offs_avail = Len(in.offs)
            /\ in.pos = at[n + 1] /\ in.data_avail = 4 * (Len(in.data) - in.pos)
        BY <3>5, <3>8 DEF Reading, InStep
      <4>2. FieldAt(out.data, out.offs, f, at[n + 1]) /\ at[(n + 1) + 1] = at[n + 1] + NCells(f)
        BY <3>3, <3>8 DEF Layout, f
      <4>3. FieldAt(in.data, in.offs, f, in.pos)
        BY <4>1, <4>2
      <4>4. /\ g.value = Meant(f) /\ Moved(in, g.bio)
            /\ \/ Stops(f) /\ g.bio.data_avail = 0
               \/ /\ g.bio.pos = in.pos + NCells(f)
                  /\ g.bio.data_avail = 4 * (Len(in.data) - g.bio.pos)
        BY <4>1, <4>3, <3>3, GetInStep DEF g
      <4>5. g.value \in Int /\ g.value # Garbage
        BY <4>4, <3>3, MeantType
      <4>6. n + 1 \in 1 .. n + 1 /\ (Stops(f) => Stops(puts[n + 1]))
        BY <3>3 DEF f
      <4>7. g.bio.data = in.data
        BY <4>4 DEF Moved
      <4> HIDE DEF n
      <4> QED
        BY <3>6, <3>8, <4>1, <4>2, <4>4, <4>5, <4>6, <4>7
    <3>9. ASSUME ~out.overflow, NEW at, Layout(puts, out, at), Stopped PROVE MessageInv'
      <4>1. in \in Reader /\ in.data_avail = 0
        BY <3>5, <3>9 DEF Reading, Stopped
      <4>2. PICK j \in 1 .. n : Stops(puts[j])
        BY <3>9 DEF Stopped
      <4>3. g.value \in {0, Null} /\ Moved(in, g.bio) /\ g.bio.data_avail = 0
        BY <4>1, <3>4, GetStopped DEF g
      <4>4. g.value \in Int /\ g.value # Garbage
        BY <4>3 DEF Null, Garbage
      <4>5. j \in 1 .. n + 1
        BY <4>2, <3>3
      <4> HIDE DEF n
      <4> QED
        BY <3>6, <3>9, <4>2, <4>3, <4>4, <4>5
    <3> QED
      BY <3>5, <3>7, <3>8, <3>9 DEF Reading
  <2>6. CASE Finish
    <3>1. phase = "read" /\ phase' = "done" /\ UNCHANGED <<out, puts, in, got>>
      BY <2>6 DEF Finish
    <3>2. Written' /\ GetsWhatWasPut'
      BY <3>1, <2>0 DEF Written, GetsWhatWasPut, ReadsBack, NeverGarbage
    <3>3. Reading'
      <4>1. Reading
        BY <1>2, <3>1 DEF MessageInv
      <4> QED
        BY <3>1, <4>1 DEF Reading, InStep, Stopped
    <3> QED
      BY <3>1, <3>2, <3>3, <2>0 DEF MessageInv
  <2>7. CASE Again
    <3>1. puts' = <<>> /\ out' = bio_init(MaxData, MaxOffs) /\ got' = <<>> /\ phase' = "write"
      BY <2>7 DEF Again
    <3>2. Len(puts') = 0 /\ puts' \in Seq(Field) /\ got' \in Seq(Int) /\ DOMAIN got' = {}
      BY <3>1
    <3>3. Written'
      BY <3>1, <3>2, InitOK, LayoutInit DEF Written
    <3>4. GetsWhatWasPut'
      BY <3>2 DEF GetsWhatWasPut, ReadsBack, NeverGarbage
    <3> QED
      BY <3>1, <3>2, <3>3, <3>4 DEF MessageInv
  <2>8. CASE UNCHANGED vars
    <3>1. UNCHANGED <<phase, out, puts, in, got>>
      BY <2>8 DEF vars
    <3>2. Written' /\ GetsWhatWasPut'
      BY <3>1, <2>0 DEF Written, GetsWhatWasPut, ReadsBack, NeverGarbage
    <3>3. Reading => Reading'
      BY <3>1 DEF Reading, InStep, Stopped
    <3> QED
      BY <1>2, <3>1, <3>2, <3>3 DEF MessageInv
  <2> QED
    BY <1>2, <2>1, <2>3, <2>4, <2>5, <2>6, <2>7, <2>8 DEF Next
<1> QED
  BY <1>1, <1>2, PTL DEF Spec

(* Whatever is written and however large the buffer is, what is got is     *)
(* what was put up to the first null, and nothing is taken for something   *)
(* else.                                                                   *)
THEOREM MessagesReadBack == Spec => []GetsWhatWasPut
<1>1. MessageInv => GetsWhatWasPut
  BY DEF MessageInv
<1> QED
  BY <1>1, MessageInductive, PTL
=============================================================================
