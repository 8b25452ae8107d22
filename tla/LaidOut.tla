------------------------------ MODULE LaidOut -------------------------------
(***************************************************************************)
(* What the layouts of Layout are held against: the size the checker folds *)
(* a sizeof to, the reads and writes of the fields at their slots, and the *)
(* layout C's rules give the declaration.                                  *)
(***************************************************************************)
EXTENDS Layout

\* TypeChecker::constLayout, and bitfieldLayout for a struct with bitfields; ok: it folds.
Folds(size, align) == [ok |-> TRUE, size |-> size, align |-> align]
NotFolded == [ok |-> FALSE, size |-> 0, align |-> 1]
Capped(pack, a) == IF pack = 1 THEN 1 ELSE IF pack >= 2 THEN Lesser(a, pack) ELSE a

RECURSIVE foldMs(_, _, _, _)
foldMs(T, fs, pack, s) ==
  IF fs = <<>> THEN Folds(Up(s.off, s.align), s.align)
  ELSE LET f == Head(fs)
           l == f.type
           fa == Capped(pack, l.align)
           here == Up(s.off, fa)
           za == IF T.msvc THEN fa ELSE l.align
           joins == s.open /\ s.unit = 8 * l.size /\ s.cur + f.bits <= 8 * l.size
           closed == [s EXCEPT !.open = FALSE, !.after = FALSE]
           word == [s EXCEPT !.off = here + l.size, !.align = Greater(s.align, fa), !.open = TRUE, !.unit = 8 * l.size,
                             !.cur = f.bits, !.after = TRUE]
       IN foldMs(T, Tail(fs), pack,
            CASE f.unnamed /\ f.bits = 0 ->
                   IF s.after THEN [closed EXCEPT !.off = Up(s.off, za), !.align = Greater(s.align, za)] ELSE closed
              [] f.bits > 0 -> IF joins THEN [s EXCEPT !.cur = s.cur + f.bits, !.after = TRUE] ELSE word
              [] OTHER -> [closed EXCEPT !.off = here + l.size, !.align = Greater(s.align, fa)])
RECURSIVE foldSysv(_, _, _, _)
foldSysv(T, fs, pack, s) ==
  IF fs = <<>> THEN Folds(Up((s.pos + 7) \div 8, s.align), s.align)
  ELSE LET f == Head(fs)
           l == f.type
           fa == Capped(pack, l.align)
           unit == 8 * l.size
           start == CASE pack > 0 -> s.pos
                      [] pack = 0 /\ fa < l.size -> IF (s.pos % (8 * fa)) + f.bits > unit THEN Up(s.pos, 8 * fa) ELSE s.pos
                      [] OTHER -> IF s.pos \div unit # (s.pos + f.bits - 1) \div unit THEN Up(s.pos, unit) ELSE s.pos
           raised == IF ~f.unnamed \/ T.aapcs THEN Greater(s.align, fa) ELSE s.align
       IN foldSysv(T, Tail(fs), pack,
            CASE f.unnamed /\ f.bits = 0 ->
                   [pos |-> Up(s.pos, 8 * l.align), align |-> IF T.aapcs THEN Greater(s.align, l.align) ELSE s.align]
              [] f.bits > 0 -> [pos |-> start + f.bits, align |-> raised]
              [] OTHER -> [pos |-> 8 * (Up((s.pos + 7) \div 8, fa) + l.size), align |-> raised])
bitfieldLayout(T, fs, pack) ==
  IF T.ms THEN foldMs(T, fs, pack, [off |-> 0, align |-> 1, open |-> FALSE, unit |-> 0, cur |-> 0, after |-> FALSE])
  ELSE foldSysv(T, fs, pack, [pos |-> 0, align |-> 1])

RECURSIVE foldFields(_, _, _, _)
foldFields(fs, pack, union, s) ==
  IF fs = <<>> THEN Folds(Up(s.size, s.align), s.align)
  ELSE LET l == Head(fs).type
           fa == Capped(pack, l.align)
       IN foldFields(Tail(fs), pack, union,
            [size |-> IF union THEN Greater(s.size, l.size) ELSE Up(s.size, fa) + l.size, align |-> Greater(s.align, fa)])
RECURSIVE foldPayload(_, _)
foldPayload(ls, bytes) == IF ls = <<>> THEN bytes ELSE foldPayload(Tail(ls), Up(bytes, Head(ls).align) + Head(ls).size)

RECURSIVE constLayout(_, _)
constLayout(T, t) ==
  CASE t.k = "bool" -> Folds(1, 1)
    [] t.k = "int" -> Folds(t.n, IF t.n = 8 THEN T.i64 ELSE t.n)
    [] t.k = "fp" -> Folds(t.n, IF t.n = 8 THEN T.f64 ELSE t.n)
    [] t.k = "ptr" -> Folds(T.ptr, T.ptr)
    [] t.k = "array" -> LET e == constLayout(T, t.of) IN [e EXCEPT !.size = t.len * e.size]
    [] t.k = "sum" ->
         LET laid(ts) == Made([i \in DOMAIN ts |-> constLayout(T, ts[i])])
             most == Max({0} \cup {foldPayload(laid(t.payloads[v]), 0) : v \in DOMAIN t.payloads})
             align == Greater(4, T.i64)
         IN Folds(Up(Up(4, T.i64) + 8 * Greater(1, (most + 7) \div 8), align), align)
    [] OTHER ->
         LET fs == Made([i \in DOMAIN t.fields |-> [t.fields[i] EXCEPT !.type = constLayout(T, t.fields[i].type)]])
         IN CASE \E i \in DOMAIN fs : ~fs[i].type.ok -> NotFolded
              [] \E i \in DOMAIN fs : fs[i].unnamed \/ fs[i].bits > 0 ->
                   IF t.union THEN NotFolded ELSE bitfieldLayout(T, fs, t.pack)
              [] OTHER -> foldFields(fs, t.pack, t.union, [size |-> 0, align |-> 1])

-----------------------------------------------------------------------------
\* The reads and writes of a bitfield. A word is the sequence of its bits, the lowest first.

Zeros(n) == [i \in 1..n |-> 0]
LShr(w, k) == SubSeq(w, k + 1, Len(w)) \o Zeros(Lesser(k, Len(w)))
Shl(w, k) == Zeros(k) \o SubSeq(w, 1, Len(w) - k)
ZExtOrTrunc(w, n) == IF n <= Len(w) THEN SubSeq(w, 1, n) ELSE w \o Zeros(n - Len(w))
Width(t) == IF t.k = "bool" THEN 1 ELSE 8 * t.n

loadBitfieldFrom(word, slot) ==
  LET shifted == ZExtOrTrunc(LShr(word, slot.bit), Width(slot.storage))
      high == IF slot.signed /\ slot.width < Width(slot.storage) THEN shifted[slot.width] ELSE 0
  IN [i \in 1..Len(shifted) |-> IF i <= slot.width THEN shifted[i] ELSE high]
storeBitfieldInto(word, slot, val) ==
  LET mask == Shl([i \in 1..Len(word) |-> IF i <= slot.width THEN 1 ELSE 0], slot.bit)
      masked == [i \in 1..Len(val) |-> IF i <= slot.width THEN val[i] ELSE 0]
      shifted == Shl(ZExtOrTrunc(masked, Len(word)), slot.bit)
  IN [i \in 1..Len(word) |-> IF mask[i] = 1 \/ shifted[i] = 1 THEN shifted[i] ELSE word[i]]

\* The address of a field: its slot's, or its element's where the struct has no slots.
SlotOf(st, i) == IF st.slots = <<>> THEN Slot(IF st.union THEN 1 ELSE i, st.fields[i].type) ELSE st.slots[i]
Address(st, slot) == IF slot.byOffset THEN slot.byte ELSE st.at[slot.phys]
WordAt(mem, st, slot) == SubSeq(mem, 8 * Address(st, slot) + 1, 8 * (Address(st, slot) + llSize(slot.access)))
Read(mem, st, slot) ==
  IF slot.isBits THEN loadBitfieldFrom(WordAt(mem, st, slot), slot) ELSE WordAt(mem, st, slot)
Write(mem, st, slot, val) ==
  LET from == 8 * Address(st, slot)
      word == IF slot.isBits THEN storeBitfieldInto(WordAt(mem, st, slot), slot, val) ELSE val
  IN [b \in 1..Len(mem) |-> IF b > from /\ b <= from + Len(word) THEN word[b - from] ELSE mem[b]]

-----------------------------------------------------------------------------
\* C's layout of a declared type: its size, its alignment, and the bit each field starts at.

Laid(size, align, pos) == [size |-> size, align |-> align, pos |-> pos]

\* SysV and AAPCS: each field at the first bit it may have: a bitfield within a unit of its type
\* that starts at a multiple of its alignment, `: 0` and the others at a multiple of theirs.
RECURSIVE SysvFields(_, _, _, _, _, _)
SysvFields(T, fs, pack, free, align, pos) ==
  IF Len(pos) = Len(fs) THEN Laid(Up((free + 7) \div 8, align), align, pos)
  ELSE LET f == fs[Len(pos) + 1]
           a == IF f.unnamed /\ f.bits = 0 THEN f.type.align ELSE Capped(pack, f.type.align)
           size == 8 * f.type.size
           p == IF f.bits > 0 /\ pack > 0 THEN free
                ELSE IF f.bits > 0
                THEN CHOOSE q \in free..free + 128 :
                       LET fits(x) == \E u \in {8 * a * k : k \in 0..(x \div (8 * a))} : u <= x /\ x + f.bits <= u + size
                       IN fits(q) /\ \A r \in free..q - 1 : ~fits(r)
                ELSE CHOOSE q \in free..free + 128 : q % (8 * a) = 0 /\ \A r \in free..q - 1 : r % (8 * a) # 0
           used == IF f.bits > 0 THEN f.bits ELSE IF f.unnamed THEN 0 ELSE size
       IN SysvFields(T, fs, pack, p + used, IF ~f.unnamed \/ T.aapcs THEN Greater(align, a) ELSE align, Append(pos, p))

\* MS: a bitfield goes on in the word of the one before it if their types have one size and it
\* fits; anything else starts at the next multiple of its alignment, a `: 0` only after a bitfield.
RECURSIVE MsFields(_, _, _, _, _, _)
MsFields(T, fs, pack, end, align, pos) ==
  IF Len(pos) = Len(fs) THEN Laid(Up(end, align), align, pos)
  ELSE LET i == Len(pos) + 1
           f == fs[i]
           natural == f.unnamed /\ f.bits = 0 /\ ~T.msvc
           a == IF natural THEN f.type.align ELSE Capped(pack, f.type.align)
           afterBits == i > 1 /\ fs[i - 1].bits > 0
           bit == IF afterBits THEN pos[i - 1] + fs[i - 1].bits ELSE 0
           goesOn == f.bits > 0 /\ afterBits /\ fs[i - 1].type.size = f.type.size /\ bit + f.bits <= 8 * end
           p == IF goesOn THEN bit ELSE 8 * Up(end, a)
           ignored == f.unnamed /\ f.bits = 0 /\ ~afterBits
       IN IF ignored THEN MsFields(T, fs, pack, end, align, Append(pos, 8 * end))
          ELSE IF goesOn THEN MsFields(T, fs, pack, end, align, Append(pos, p))
          ELSE MsFields(T, fs, pack, (p \div 8) + (IF f.unnamed /\ f.bits = 0 THEN 0 ELSE f.type.size),
                        Greater(align, a), Append(pos, p))

\* A union: every member at 0, the size of the largest rounded to the strictest alignment.
UnionFields(T, fs, pack) ==
  LET counted == {i \in DOMAIN fs : ~fs[i].unnamed \/ (T.aapcs /\ ~T.ms)}
      align == Max({1} \cup {IF fs[i].unnamed /\ fs[i].bits = 0 THEN fs[i].type.align
                             ELSE Capped(pack, fs[i].type.align) : i \in counted})
      size(i) == CASE ~fs[i].unnamed \/ (T.ms /\ fs[i].bits > 0) -> fs[i].type.size
                   [] fs[i].bits = 0 -> IF T.msvc /\ i > 1 /\ fs[i - 1].bits > 0 THEN fs[i].type.size ELSE 0
                   [] OTHER -> (fs[i].bits + 7) \div 8
  IN Laid(Greater(1, Up(Max({0} \cup {size(i) : i \in DOMAIN fs}), align)), align, [i \in DOMAIN fs |-> 0])

RECURSIVE InC(_, _)
InC(T, t) ==
  CASE t.k \in {"int", "fp", "bool", "ptr"} -> LET l == constLayout(T, t) IN Laid(l.size, l.align, <<>>)
    [] t.k = "array" -> LET e == InC(T, t.of) IN Laid(t.len * e.size, e.align, <<>>)
    [] OTHER ->
         LET fs == Made([i \in DOMAIN t.fields |-> [t.fields[i] EXCEPT !.type = InC(T, t.fields[i].type)]])
         IN CASE t.union -> UnionFields(T, fs, t.pack)
              [] T.ms -> MsFields(T, fs, t.pack, 0, 1, <<>>)
              [] OTHER -> SysvFields(T, fs, t.pack, 0, 1, <<>>)

-----------------------------------------------------------------------------
\* A slot's word lies in the struct, aligned as its access says.
WordsInside(st) ==
  \A i \in DOMAIN st.slots :
    LET s == st.slots[i] a == Address(st, s)
    IN /\ a + llSize(s.access) <= st.size
       /\ s.align > 0 => a % s.align = 0 /\ st.calign % s.align = 0

\* A field that is written reads back, extended as its type says, and the others are as before.
Value(n, b) == [i \in 1..n |-> IF i % 2 = b \/ i = 1 THEN 1 ELSE 0]
Extended(val, slot) ==
  [i \in 1..Len(val) |-> IF ~slot.isBits \/ i <= slot.width THEN val[i] ELSE IF slot.signed THEN val[slot.width] ELSE 0]
FieldsHold(st) ==
  \A i \in DOMAIN st.fields : \A fill \in {0, 1} :
    LET slot == SlotOf(st, i)
        mem == [b \in 1..8 * st.size |-> fill]
        val == Value(IF slot.isBits THEN Width(slot.storage) ELSE 8 * llSize(slot.storage), fill)
        after == Write(mem, st, slot, val)
    IN /\ Read(after, st, slot) = Extended(val, slot)
       /\ \A j \in DOMAIN st.fields \ {i} : LET other == SlotOf(st, j) IN Read(after, st, other) = Read(mem, st, other)

Starts(d, pos) == SelectSeq(Made([i \in DOMAIN d.fields |-> <<d.fields[i].unnamed, pos[i]>>]), LAMBDA x : ~x[1])
FieldsAt(st, starts) ==
  \A i \in DOMAIN st.fields : LET s == SlotOf(st, i) IN 8 * Address(st, s) + s.bit = starts[i][2]
LaidAs(d, st, c) == st.placed /\ st.size = c.size /\ st.calign = c.align /\ FieldsAt(st, Starts(d, c.pos))
FoldedAs(st, l) == l.ok => l.size = st.size /\ l.align = st.calign

\* The fields are where C has them ("Bitfields are laid out like C on the target",
\* docs/lang/spec.md:1544; `#pragma pack`, :1820), their reads and writes stay in the struct and
\* apart, and the size the checker folds is the code generator's (:732).
LaidOutAsC(T, d, st) ==
  /\ LaidAs(d, st, InC(T, d))
  /\ WordsInside(st)
  /\ ~st.union => FieldsHold(st)
  /\ FoldedAs(st, constLayout(T, d))

Within(variant, payload) ==
  \A i \in DOMAIN variant.elems : variant.at[i] + llSize(variant.elems[i]) <= llSize(payload)
Variant(T, ts) == StructType(T, Made([i \in DOMAIN ts |-> getType(T, ts[i])]), FALSE)
\* A sum type's size is the one that is folded, and the fields of each variant lie in its payload.
SumLaidOut(T, t, st) ==
  /\ constLayout(T, t).size = st.size
  /\ \A v \in DOMAIN t.payloads : Within(Variant(T, t.payloads[v]), st.elems[2])
=============================================================================
