------------------------------- MODULE Layout -------------------------------
(***************************************************************************)
(* Where a value of a declared type lies in memory: the LLVM type the code *)
(* generator gives it with the slots of its fields (layoutStruct and       *)
(* UnionDecl of codegen_decl.cpp), the size and alignment the checker      *)
(* folds a sizeof to (constLayout of typecheck_type.cpp), the reads and    *)
(* writes of a bitfield, and C's own rules, which both have to meet.       *)
(*                                                                         *)
(* A target is what its data layout and its triple decide: the size of a   *)
(* pointer, the alignments of the 8-byte scalars, and the bitfield rules.  *)
(* A declared type is a scalar, an array, or a declaration; `fields` is    *)
(* layoutFields(), the unnamed bitfields at their places.                  *)
(***************************************************************************)
EXTENDS Integers, Sequences, FiniteSets, SequencesExt, TLC

IntOf(n) == [k |-> "int", n |-> n]
FpOf(n) == [k |-> "fp", n |-> n]
Bool1 == [k |-> "bool", n |-> 1]
Ptr == [k |-> "ptr", n |-> 0]
ArrayOf(len, t) == [k |-> "array", len |-> len, of |-> t]
Bytes(n) == ArrayOf(n, IntOf(1))
NoType == [k |-> "none"]

Field(name, t) == [name |-> name, type |-> t, bits |-> 0, unnamed |-> FALSE, signed |-> FALSE]
Bits(name, t, w, signed) == [name |-> name, type |-> t, bits |-> w, unnamed |-> FALSE, signed |-> signed]
Unnamed(t, w) == [name |-> "", type |-> t, bits |-> w, unnamed |-> TRUE, signed |-> FALSE]
\* pack: 0 for the natural layout, 1 for a packed struct, N for #pragma pack(N).
StructOf(fields, pack) == [k |-> "decl", fields |-> fields, pack |-> pack, union |-> FALSE]
UnionOf(fields, pack) == [k |-> "decl", fields |-> fields, pack |-> pack, union |-> TRUE]
SumOf(payloads) == [k |-> "sum", payloads |-> payloads]

Up(x, a) == ((x + a - 1) \div a) * a
Greater(a, b) == IF a >= b THEN a ELSE b
Lesser(a, b) == IF a <= b THEN a ELSE b
Named(fields) == SelectSeq(fields, LAMBDA f : ~f.unnamed)
Pads(fields) == {i \in DOMAIN fields : fields[i].unnamed}
Made(s) == <<>> \o s

-----------------------------------------------------------------------------
\* LLVM's side: the layout of a type on the target.

RECURSIVE llAlign(_, _), llSize(_)
llAlign(T, t) ==
  CASE t.k = "array" -> llAlign(T, t.of)
    [] t.k = "struct" -> t.llalign
    [] t.k = "int" /\ t.n > 4 -> T.i64
    [] t.k = "int" /\ t.n = 3 -> 4
    [] t.k = "fp" /\ t.n = 8 -> T.f64
    [] OTHER -> t.n
llSize(t) == IF t.k = "array" THEN t.len * llSize(t.of) ELSE IF t.k = "struct" THEN t.size ELSE t.n

RECURSIVE Placed(_, _, _, _, _)
Placed(T, elems, packed, off, at) ==
  IF Len(at) = Len(elems) THEN [at |-> at, end |-> off]
  ELSE LET e == elems[Len(at) + 1]
           here == IF packed THEN off ELSE Up(off, llAlign(T, e))
       IN Placed(T, elems, packed, here + llSize(e), Append(at, here))

\* slots: where the named fields are (empty: field i is element i); calign: cAlignOf; unnamed:
\* the bytes its unnamed bitfields count as data; pads: it has unnamed bitfields; members: a
\* union's; homogeneous: no unnamed bitfield keeps it from being an aggregate of one FP type.
structAt(elems, p, a) ==
  [k |-> "struct", elems |-> elems, at |-> p.at, llalign |-> a, size |-> Up(p.end, a), calign |-> a,
   slots |-> <<>>, fields |-> <<>>, unnamed |-> <<>>, pads |-> FALSE, union |-> FALSE, members |-> <<>>,
   homogeneous |-> TRUE, placed |-> TRUE]
StructType(T, elems, packed) ==
  structAt(elems, Placed(T, elems, packed, 0, <<>>),
           IF packed THEN 1 ELSE Max({1} \cup {llAlign(T, elems[i]) : i \in DOMAIN elems}))

RECURSIVE cAlignOf(_, _)
cAlignOf(T, t) ==
  IF t.k = "array" THEN cAlignOf(T, t.of) ELSE IF t.k = "struct" THEN t.calign ELSE llAlign(T, t)

RECURSIVE element(_)
element(t) == IF t.k = "array" THEN element(t.of) ELSE t
NotHomogeneous(fs) ==
  \E i \in DOMAIN fs : \/ fs[i].unnamed /\ fs[i].bits > 0
                       \/ element(fs[i].type).k = "struct" /\ ~element(fs[i].type).homogeneous

-----------------------------------------------------------------------------
\* The code generator's layouts. A slot says where a field is: element `phys` of the type, or
\* byte `byte` of it; a bitfield is `width` bits from bit `bit` of the word of type `access`.

Slot(phys, t) ==
  [isBits |-> FALSE, byOffset |-> FALSE, phys |-> phys, byte |-> 0, bit |-> 0, width |-> 0,
   storage |-> t, access |-> t, align |-> 0, signed |-> FALSE]

\* Elements by hand: padding up to the alignment, then the element.
Padded(phys, from, to) == IF to > from THEN Append(phys, Bytes(to - from)) ELSE phys
PlacedAt(s, t, a, here) ==
  [s EXCEPT !.phys = Append(Padded(s.phys, s.off, here), t), !.off = here + llSize(t), !.align = Greater(s.align, a)]
AddAt(s, t, a) == PlacedAt(s, t, a, Up(s.off, a))

EndPadded(s, total) == [s EXCEPT !.phys = Padded(s.phys, s.off, total), !.off = total]
SlotAdded(s, t) == [s EXCEPT !.slots = Append(s.slots, Slot(Len(s.phys), t))]
RECURSIVE buildPackedLayout(_, _, _, _)
buildPackedLayout(T, fs, packN, s) ==
  IF fs = <<>> THEN EndPadded(s, Up(s.off, s.align))
  ELSE LET t == Head(fs).type
           a == IF packN > 0 THEN Lesser(cAlignOf(T, t), packN) ELSE cAlignOf(T, t)
       IN buildPackedLayout(T, Tail(fs), packN, SlotAdded(AddAt(s, t, a), t))

\* A bool bitfield's storage unit is its byte.
Unit(t) == IF t.k = "bool" THEN IntOf(1) ELSE t

\* MS rules: a bitfield joins the open word of its type's size if it fits.
MsStart == [phys |-> <<>>, slots |-> <<>>, off |-> 0, align |-> 1, open |-> 0, unit |-> 0, cur |-> 0, after |-> FALSE]
MsManual(T, fs, packed, packN) ==
  \/ packN >= 2
  \/ ~packed /\ \E i \in DOMAIN fs : cAlignOf(T, fs[i].type) # llAlign(T, fs[i].type)
  \/ \E i \in 2..Len(fs) : fs[i].unnamed /\ fs[i].bits = 0 /\ fs[i - 1].bits > 0
MsAlign(T, t, packed, packN) ==
  LET a == IF packed THEN 1 ELSE cAlignOf(T, t) IN IF packN >= 2 THEN Lesser(a, packN) ELSE a
MsElem(T, s, t, packed, packN, manual) ==
  IF manual THEN AddAt(s, t, MsAlign(T, t, packed, packN)) ELSE [s EXCEPT !.phys = Append(s.phys, t)]
MsClosed(s) == [s EXCEPT !.open = 0, !.unit = 0, !.cur = 0, !.after = FALSE]

MsOpened(s, unit) == [s EXCEPT !.open = Len(s.phys), !.unit = 8 * unit.n, !.cur = 0]
MsJoins(s, unit, w) == s.open > 0 /\ s.unit = 8 * unit.n /\ s.cur + w <= 8 * unit.n
\* The field's bits are the next of the open word.
MsBits(s, f, unit) ==
  LET slot == [Slot(s.open, f.type) EXCEPT !.isBits = TRUE, !.access = unit, !.bit = s.cur, !.width = f.bits,
                                           !.signed = f.signed]
  IN [s EXCEPT !.cur = s.cur + f.bits, !.after = TRUE,
               !.slots = IF f.unnamed THEN s.slots ELSE Append(s.slots, slot)]
MsZero(s, a) ==
  IF s.after
  THEN MsClosed([s EXCEPT !.phys = Padded(s.phys, s.off, Up(s.off, a)), !.off = Up(s.off, a), !.align = Greater(s.align, a)])
  ELSE MsClosed(s)
msField(T, f, unit, packed, packN, manual, s) ==
  CASE f.unnamed /\ f.bits = 0 ->
         MsZero(s, IF T.msvc THEN MsAlign(T, f.type, packed, packN) ELSE cAlignOf(T, f.type))
    [] f.bits > 0 ->
         MsBits(IF MsJoins(s, unit, f.bits) THEN s ELSE MsOpened(MsElem(T, s, unit, packed, packN, manual), unit), f, unit)
    [] OTHER -> MsClosed(SlotAdded(MsElem(T, s, f.type, packed, packN, manual), f.type))
RECURSIVE msBitfields(_, _, _, _, _, _)
msBitfields(T, fs, packed, packN, manual, s) ==
  IF fs = <<>> THEN s
  ELSE msBitfields(T, Tail(fs), packed, packN, manual,
                   msField(T, Head(fs), Unit(Head(fs).type), packed, packN, manual, s))

\* SysV and AAPCS rules, a bitfield at bit `pos`: where it starts, and the unit it is read by.
\* In a packed struct it is read by the bytes it spans; a type aligned below its size (int64 on
\* 32-bit x86) may not cross its size from an alignment boundary; else it stays in its unit.
\* Mutant of BitStart: the unit is always of the type's size.
BitStartByUnit(pos, w, size, align, contiguous) ==
  IF ~contiguous /\ pos \div (8 * size) # (pos + w - 1) \div (8 * size) THEN Up(pos, 8 * size) ELSE pos
BitStart(pos, w, size, align, contiguous) ==
  CASE contiguous -> pos
    [] ~contiguous /\ align < size -> IF (pos % (8 * align)) + w > 8 * size THEN Up(pos, 8 * align) ELSE pos
    [] OTHER -> IF pos \div (8 * size) # (pos + w - 1) \div (8 * size) THEN Up(pos, 8 * size) ELSE pos
BitByte(start, size, align, contiguous) ==
  CASE contiguous -> start \div 8
    [] ~contiguous /\ align < size -> (start \div (8 * align)) * align
    [] OTHER -> (start \div (8 * size)) * size
slotAt(T, f, bit, byte, align, contiguous, own) ==
  [Slot(0, f.type) EXCEPT !.isBits = TRUE, !.byOffset = TRUE, !.byte = byte, !.bit = bit, !.width = f.bits,
     !.signed = f.signed, !.access = IF own THEN Unit(f.type) ELSE IntOf((bit + f.bits + 7) \div 8),
     !.align = IF contiguous THEN 1 ELSE IF own THEN llAlign(T, Unit(f.type)) ELSE align]
BitSlotIn(T, f, start, byte, align, contiguous) ==
  slotAt(T, f, start - 8 * byte, byte, align, contiguous, ~contiguous /\ align >= llSize(f.type))
BitSlot(T, f, start, align, contiguous) ==
  BitSlotIn(T, f, start, BitByte(start, llSize(f.type), align, contiguous), align, contiguous)
Span(off, end, t) == [off |-> off, end |-> end, ty |-> t]
UnitOf(slot, contiguous, align) ==
  Span(slot.byte, slot.byte + slot.access.n, IF contiguous \/ align < slot.storage.n THEN NoType ELSE slot.access)

CapTo(packed, packN, a) == IF packed THEN 1 ELSE IF packN >= 2 THEN Lesser(a, packN) ELSE a

SysvZero(T, s, c, size, zero) ==
  [s EXCEPT !.pos = zero, !.align = IF T.aapcs THEN Greater(s.align, c) ELSE s.align,
            !.unnamed = Append(s.unnamed, <<zero \div 8, (zero + 8 * size + 7) \div 8>>)]
SysvUnnamed(s, f, first, size, raised) ==
  [s EXCEPT !.pos = first + f.bits, !.align = raised,
            !.unnamed = Append(s.unnamed, <<first \div 8, (first + 8 * size + 7) \div 8>>)]
SysvBits(s, f, slot, unit, raised) ==
  [s EXCEPT !.pos = 8 * slot.byte + slot.bit + f.bits, !.align = raised, !.slots = Append(s.slots, slot),
            !.units = s.units \cup {unit}]
SysvPlain(s, f, off, size, raised) ==
  [s EXCEPT !.pos = 8 * (off + size), !.align = raised, !.normals = s.normals \cup {Span(off, off + size, f.type)},
            !.slots = Append(s.slots, [Slot(0, f.type) EXCEPT !.byOffset = TRUE, !.byte = off])]
sysvField(T, f, s, c, align, size, raised, contiguous) ==
  CASE f.unnamed /\ f.bits = 0 -> SysvZero(T, s, c, size, Up(s.pos, 8 * c))
    [] f.unnamed /\ f.bits > 0 -> SysvUnnamed(s, f, BitStart(s.pos, f.bits, size, align, contiguous), size, raised)
    [] ~f.unnamed /\ f.bits > 0 ->
         LET slot == BitSlot(T, f, BitStart(s.pos, f.bits, size, align, contiguous), align, contiguous)
         IN SysvBits(s, f, slot, UnitOf(slot, contiguous, align), raised)
    [] OTHER -> SysvPlain(s, f, Up((s.pos + 7) \div 8, align), size, raised)
sysvAligned(T, f, s, c, align, contiguous) ==
  sysvField(T, f, s, c, align, llSize(f.type),
            IF ~f.unnamed \/ T.aapcs THEN Greater(s.align, align) ELSE s.align, contiguous)
RECURSIVE sysvBitfields(_, _, _, _, _)
sysvBitfields(T, fs, packed, packN, s) ==
  IF fs = <<>> THEN s
  ELSE LET c == cAlignOf(T, Head(fs).type)
       IN sysvBitfields(T, Tail(fs), packed, packN,
                        sysvAligned(T, Head(fs), s, c, CapTo(packed, packN, c), packed \/ packN >= 2))
SysvStart == [pos |-> 0, align |-> 1, slots |-> <<>>, units |-> {}, normals |-> {}, unnamed |-> <<>>]

\* The storage elements: each maximal unit (the byte runs of a packed struct joined), then the
\* normal fields outside them, or the parts of them that stick out as bytes.
RECURSIVE storageOf(_, _, _)
storageOf(units, contiguous, elems) ==
  IF units = <<>> THEN elems
  ELSE LET u == Head(units)
           back == elems[Len(elems)]
       IN IF elems # <<>> /\ u.off < back.end
          THEN storageOf(Tail(units), contiguous,
                         IF contiguous THEN [elems EXCEPT ![Len(elems)].end = Greater(back.end, u.end)] ELSE elems)
          ELSE storageOf(Tail(units), contiguous, Append(elems, u))
RECURSIVE outside(_, _, _, _)
outside(n, storage, from, parts) ==
  LET met == SelectSeq(storage, LAMBDA u : u.end > from /\ u.off < n.end)
  IN IF met = <<>> THEN IF from < n.end THEN parts \cup {Span(from, n.end, NoType)} ELSE parts
     ELSE outside(n, storage, Greater(from, met[1].end),
                  IF met[1].off > from THEN parts \cup {Span(from, met[1].off, NoType)} ELSE parts)
RestOf(n, storage) ==
  IF \A i \in DOMAIN storage : storage[i].end <= n.off \/ storage[i].off >= n.end THEN {n}
  ELSE outside(n, storage, n.off, {})

elementAt(s, e, t, here) ==
  [phys |-> Append(IF here < e.off THEN Padded(s.phys, s.cur, e.off) ELSE s.phys, t), cur |-> e.end,
   placed |-> s.placed /\ here <= e.off]
RECURSIVE elementsOf(_, _, _, _)
elementsOf(T, elems, byHand, s) ==
  IF elems = <<>> THEN s
  ELSE LET e == Head(elems)
           t == IF e.ty = NoType THEN Bytes(e.end - e.off) ELSE e.ty
       IN elementsOf(T, Tail(elems), byHand, elementAt(s, e, t, Up(s.cur, IF byHand THEN 1 ELSE llAlign(T, t))))

Clipped(unnamed, total) ==
  Made([i \in DOMAIN unnamed |-> <<Lesser(unnamed[i][1], total), Lesser(unnamed[i][2], total)>>])

msStruct(T, s, packed, manual) ==
  LET st == StructType(T, IF manual THEN Padded(s.phys, s.off, Up(s.off, s.align)) ELSE s.phys, manual \/ packed)
  IN [st EXCEPT !.slots = s.slots, !.calign = IF manual THEN Greater(s.align, st.calign) ELSE st.calign]
sysvEnd(T, s, es, byHand, lines, total) ==
  LET natural == IF byHand THEN es.cur ELSE Up(es.cur, lines)
      st == StructType(T, IF natural < total THEN Padded(es.phys, es.cur, total) ELSE es.phys, byHand)
  IN [st EXCEPT !.slots = s.slots, !.calign = Greater(s.align, st.calign), !.placed = es.placed,
                !.unnamed = Clipped(s.unnamed, total)]
sysvElements(T, s, elems, byHand, lines) ==
  sysvEnd(T, s, elementsOf(T, elems, byHand, [phys |-> <<>>, cur |-> 0, placed |-> TRUE]), byHand, lines,
          Up((s.pos + 7) \div 8, s.align))
sysvLines(T, s, elems, contiguous, lines) == sysvElements(T, s, elems, contiguous \/ lines < s.align, lines)
sysvOrdered(T, s, elems, contiguous) ==
  sysvLines(T, s, elems, contiguous,
            Max({1} \cup {llAlign(T, elems[i].ty) : i \in {j \in DOMAIN elems : elems[j].ty # NoType}}))
ByOffset(spans) == SetToSortSeq(spans, LAMBDA a, b : a.off < b.off \/ (a.off = b.off /\ a.end > b.end))
sysvStored(T, s, storage, contiguous) ==
  sysvOrdered(T, s, ByOffset({storage[i] : i \in DOMAIN storage} \cup UNION {RestOf(n, storage) : n \in s.normals}),
              contiguous)
sysvStruct(T, s, contiguous) == sysvStored(T, s, storageOf(ByOffset(s.units), contiguous, <<>>), contiguous)

layoutBitfieldStruct(T, fs, packed, packN) ==
  IF T.ms
  THEN LET manual == MsManual(T, fs, packed, packN)
       IN msStruct(T, msBitfields(T, fs, packed, packN, manual, MsStart), packed, manual)
  ELSE sysvStruct(T, sysvBitfields(T, fs, packed, packN, SysvStart), packed \/ packN >= 2)

structByHand(T, s) == [StructType(T, s.phys, TRUE) EXCEPT !.slots = s.slots, !.calign = s.align]
layoutStruct(T, fs, packed, packN) ==
  LET bits == \E i \in DOMAIN fs : fs[i].unnamed \/ fs[i].bits > 0
      manual == \/ packN >= 2
                \/ ~packed /\ \E i \in DOMAIN fs : cAlignOf(T, fs[i].type) # llAlign(T, fs[i].type)
      start == [phys |-> <<>>, slots |-> <<>>, off |-> 0, align |-> 1]
      st == CASE bits -> layoutBitfieldStruct(T, fs, packed, packN)
              [] ~bits /\ manual -> structByHand(T, buildPackedLayout(T, fs, packN, start))
              [] OTHER -> StructType(T, Made([i \in DOMAIN fs |-> fs[i].type]), packed)
  IN [st EXCEPT !.fields = Named(fs), !.pads = Pads(fs) # {}, !.homogeneous = ~NotHomogeneous(fs)]

\* A union: its most aligned member (ties go to the larger), then bytes up to its size.
UnionCap(pack, a) == IF pack >= 1 THEN Lesser(a, pack) ELSE a
UnionSize(T, fs, i) ==
  LET f == fs[i]
      closes == T.msvc /\ i > 1 /\ fs[i - 1].unnamed /\ fs[i - 1].bits > 0
  IN CASE ~f.unnamed -> llSize(f.type)
       [] f.unnamed /\ f.bits = 0 -> IF closes THEN llSize(f.type) ELSE 0
       [] OTHER -> IF T.ms THEN llSize(f.type) ELSE (f.bits + 7) \div 8
UnionAligns(T, f) == ~f.unnamed \/ (~T.ms /\ T.aapcs)
RECURSIVE anchorOf(_, _, _, _, _)
anchorOf(T, ms, pack, best, a) ==
  IF ms = <<>> THEN best
  ELSE LET t == Head(ms).type
           al == UnionCap(pack, cAlignOf(T, t))
           better == best = NoType \/ al > a \/ (al = a /\ llSize(t) > llSize(best))
       IN anchorOf(T, Tail(ms), pack, IF better THEN t ELSE best, IF better THEN al ELSE a)
unionAround(T, fs, anchor, total, aligned, natural) ==
  LET body == IF anchor = NoType THEN <<Bytes(total)>> ELSE Padded(<<anchor>>, llSize(anchor), total)
      ms == Named(fs)
      st == StructType(T, body, aligned < natural)
  IN [st EXCEPT !.calign = Greater(aligned, st.calign), !.fields = ms, !.pads = Pads(fs) # {}, !.union = TRUE,
                !.members = Made([i \in DOMAIN ms |-> ms[i].type]),
                !.unnamed = Made([i \in 1..Cardinality(Pads(fs)) |->
                              <<0, Lesser(llSize(SelectSeq(fs, LAMBDA f : f.unnamed)[i].type), total)>>]),
                !.homogeneous = ~NotHomogeneous(fs)]
unionSized(T, fs, pack, aligned, natural) ==
  unionAround(T, fs, anchorOf(T, Named(fs), pack, NoType, 1),
              Greater(1, Up(Max({0} \cup {UnionSize(T, fs, i) : i \in DOMAIN fs}), aligned)), aligned, natural)
layoutUnion(T, fs, pack) ==
  LET aligning == {i \in DOMAIN fs : UnionAligns(T, fs[i])}
  IN unionSized(T, fs, pack,
                Max({1} \cup {IF fs[i].unnamed /\ fs[i].bits = 0 THEN cAlignOf(T, fs[i].type)
                              ELSE UnionCap(pack, cAlignOf(T, fs[i].type)) : i \in aligning}),
                Max({1} \cup {cAlignOf(T, fs[i].type) : i \in aligning}))

\* A sum type: { i32 tag, [N x i64] payload }.
RECURSIVE packedBytes(_, _, _)
packedBytes(T, ts, bytes) ==
  IF ts = <<>> THEN bytes ELSE packedBytes(T, Tail(ts), Up(bytes, llAlign(T, Head(ts))) + llSize(Head(ts)))
makeAdtStruct(T, payloads) ==
  LET most == Max({0} \cup {packedBytes(T, payloads[v], 0) : v \in DOMAIN payloads})
  IN StructType(T, <<IntOf(4), ArrayOf(Greater(1, (most + 7) \div 8), IntOf(8))>>, FALSE)

\* getTypeFromString: the LLVM type of a declared type.
RECURSIVE getType(_, _)
getType(T, t) ==
  LET typed(fs) == Made([i \in DOMAIN fs |-> [fs[i] EXCEPT !.type = getType(T, fs[i].type)]])
  IN CASE t.k = "ptr" -> [t EXCEPT !.n = T.ptr]
       [] t.k = "array" -> [t EXCEPT !.of = getType(T, t.of)]
       [] t.k = "sum" -> makeAdtStruct(T, Made([v \in DOMAIN t.payloads |->
                           Made([i \in DOMAIN t.payloads[v] |-> getType(T, t.payloads[v][i])])]))
       [] t.k = "decl" /\ t.union -> layoutUnion(T, typed(t.fields), t.pack)
       [] t.k = "decl" /\ ~t.union -> layoutStruct(T, typed(t.fields), t.pack = 1, IF t.pack >= 2 THEN t.pack ELSE 0)
       [] OTHER -> t
=============================================================================
