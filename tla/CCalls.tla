------------------------------- MODULE CCalls -------------------------------
(***************************************************************************)
(* Where the bytes of arguments and results are in a call: by the rules of *)
(* the targets' C ABIs, from the declared types, and by what LLVM does     *)
(* with a lowered signature. A place is a byte of a register, of the       *)
(* stack, or of a copy the caller made.                                    *)
(***************************************************************************)
EXTENDS CAbi

\* What a call has used: integer and FP registers, bytes of stack, slots (Win64), and the
\* single-precision registers left (32-bit ARM, hard float).
Fresh == [int |-> 0, fp |-> 0, stack |-> 0, slot |-> 0, vfp |-> 0..15]
At(s, loc) == [s |-> s, loc |-> loc]

\* n bytes in registers of `width` bytes from the first free one, or on the stack.
InRegs(s, class, used, width, n) ==
  At(used, [b \in 0..n - 1 |-> <<class, s[class] + (b \div width), b % width>>])
InInt(s, width, n) == InRegs(s, "int", [s EXCEPT !.int = @ + ((n + width - 1) \div width)], width, n)
InFp(s, each, n) == InRegs(s, "fp", [s EXCEPT !.fp = @ + (n \div each)], each, n)
OnStack(s, align, unit, n) ==
  LET off == Up(s.stack, align)
  IN At([s EXCEPT !.stack = Up(off + n, unit)], [b \in 0..n - 1 |-> <<"stack", off + b>>])

\* One scalar of n bytes.
VfpAt(s, each, count) ==
  LET k == each \div 4
      ok == {r \in 0..15 : r % k = 0 /\ r + k * count <= 16 /\ (r..r + k * count - 1) \subseteq s.vfp}
  IN IF ok = {} THEN -1 ELSE Min(ok)
InVfp(s, each, count) ==
  LET r == VfpAt(s, each, count)
      spilled == OnStack([s EXCEPT !.vfp = {}], each, 4, each * count)
  IN IF r < 0 THEN spilled
     ELSE At([s EXCEPT !.vfp = @ \ (r..r + (each \div 4) * count - 1)],
             [b \in 0..each * count - 1 |-> <<"vfp", r + (b \div 4), b % 4>>])
\* AAPCS: core registers from an even one for an alignment of 8; what does not fit goes on
\* to the stack if nothing is there yet.
InCore(s, align, n) ==
  LET r == IF align = 8 THEN Up(s.int, 2) ELSE s.int
      words == (n + 3) \div 4
      off == Up(s.stack, align)
  IN CASE r + words <= 4 -> At([s EXCEPT !.int = r + words], [b \in 0..n - 1 |-> <<"int", r + (b \div 4), b % 4>>])
       [] r < 4 /\ r + words > 4 /\ s.stack = 0 ->
            At([s EXCEPT !.int = 4, !.stack = 4 * (r + words - 4)],
               [b \in 0..n - 1 |-> IF r + (b \div 4) < 4 THEN <<"int", r + (b \div 4), b % 4>>
                                   ELSE <<"stack", b - 4 * (4 - r)>>])
       [] OTHER -> At([s EXCEPT !.int = 4, !.stack = off + 4 * words], [b \in 0..n - 1 |-> <<"stack", off + b>>])
InSlot(s, class, n) ==
  At([s EXCEPT !.slot = @ + 1],
     [b \in 0..n - 1 |-> IF s.slot < 4 THEN <<class, s.slot, b>> ELSE <<"stack", 8 * (s.slot - 4) + b>>])
scalarAt(T, s, t) ==
  LET n == llSize(t)
      float == t.k \in {"fp", "vec"}
      unit == IF T.darwin THEN n ELSE 8
  IN CASE T.abi = "sysv" /\ float -> IF s.fp < 8 THEN InFp(s, n, n) ELSE OnStack(s, 8, 8, n)
       [] T.abi = "sysv" /\ ~float -> IF s.int < 6 THEN InInt(s, 8, n) ELSE OnStack(s, 8, 8, n)
       [] T.abi = "aarch64" /\ float -> IF s.fp < 8 THEN InFp(s, n, n) ELSE OnStack(s, unit, unit, n)
       [] T.abi = "aarch64" /\ ~float -> IF s.int < 8 THEN InInt(s, 8, n) ELSE OnStack(s, unit, unit, n)
       [] T.abi = "win64" -> InSlot(s, IF float THEN "fp" ELSE "int", n)
       [] T.abi = "arm32" /\ float /\ T.hard -> InVfp(s, n, 1)
       [] T.abi = "arm32" /\ ~(float /\ T.hard) -> InCore(s, IF n = 8 THEN 8 ELSE 4, n)
       [] T.abi = "x86" -> OnStack(s, 4, 4, n)

\* Aggregates: an FP aggregate of AArch64, and a composite by value.
HfaAt(T, s, each, n, stackAlign) ==
  IF T.abi = "arm32" THEN InVfp(s, each, n \div each)
  ELSE IF s.fp + (n \div each) <= 8 THEN InFp(s, each, n)
  ELSE LET o == OnStack([s EXCEPT !.fp = 8], stackAlign, IF T.darwin THEN 1 ELSE 8, n) IN o
TwoInts(s) == IF s.int + 2 <= 8 THEN InInt(s, 8, 16) ELSE OnStack([s EXCEPT !.int = 8], 8, 8, 16)
\* The address of a copy: its bytes are those of memory, as argument i.
ByReference(T, s, i, n) ==
  At(scalarAt(T, s, [Ptr EXCEPT !.n = T.ptr]).s, [b \in 0..n - 1 |-> <<"copy", i, b>>])
ResultPointer(T, s) == IF T.abi = "aarch64" THEN s ELSE scalarAt(T, s, [Ptr EXCEPT !.n = T.ptr]).s

-----------------------------------------------------------------------------
\* LLVM: the place of each lowered parameter. A pointer's is that of the copy it points to.

paramAt(T, s, p, i) ==
  LET t == p.ty
      n == llSize(t)
  IN CASE p.sret -> At(ResultPointer(T, s), NoBytes)
       [] ~p.sret /\ p.byval -> IF T.abi = "arm32" THEN InCore(s, p.align, n)
                                ELSE OnStack(s, p.align, IF T.abi = "x86" THEN 4 ELSE 8, n)
       [] ~p.sret /\ ~p.byval /\ t.k = "array" ->
            IF IsFp(t.of) THEN HfaAt(T, s, t.of.n, n, IF p.align > 0 THEN p.align ELSE t.of.n)
            ELSE IF T.abi = "arm32" THEN InCore(s, t.of.n, n) ELSE TwoInts(s)
       [] ~p.sret /\ ~p.byval /\ t.k = "struct" -> HfaAt(T, s, t.elems[1].n, n, 0)
       [] OTHER -> scalarAt(T, s, t)
RECURSIVE lowerPlaces(_, _, _, _)
lowerPlaces(T, s, ps, acc) ==
  IF Len(acc) = Len(ps) THEN acc
  ELSE LET p == paramAt(T, s, ps[Len(acc) + 1], Len(acc) + 1) IN lowerPlaces(T, p.s, ps, Append(acc, p.loc))

\* The parts of a returned value, and where they come back.
Parts(t) ==
  CASE t.k = "struct" -> Made([i \in DOMAIN t.elems |-> <<t.at[i], t.elems[i]>>])
    [] t.k = "array" -> Made([i \in 1..t.len |-> <<(i - 1) * llSize(t.of), t.of>>])
    [] OTHER -> <<<<0, t>>>>
RECURSIVE partsAt(_, _, _, _)
partsAt(T, s, parts, acc) ==
  IF parts = <<>> THEN acc
  ELSE LET t == Head(parts)[2]
           p == CASE T.abi = "x86" /\ IsFp(t) -> InFp(s, llSize(t), llSize(t))
                  [] T.abi = "x86" /\ ~IsFp(t) -> InInt(s, 4, llSize(t))
                  [] OTHER -> scalarAt(T, s, t)
       IN partsAt(T, p.s, Tail(parts), acc @@ Moved(p.loc, Head(parts)[1]))
resultPlaces(T, t) == partsAt(T, Fresh, Parts(t), NoBytes)

-----------------------------------------------------------------------------
\* C: a declared type and the scalars it is made of, <<first bit, bits, type, is a bitfield, align>>.

RECURSIVE ScalarsOf(_, _)
Shifted(scalars, by) == {<<x[1] + by, x[2], x[3], x[4], x[5]>> : x \in scalars}
ScalarAs(t, l) == {<<0, 8 * l.size, t, FALSE, l.align>>}
FieldScalars(T, f, at) ==
  IF f.bits > 0 THEN {<<at, f.bits, f.type, TRUE, 1>>} ELSE Shifted(ScalarsOf(T, f.type), at)
MemberScalars(T, fs, pos) == UNION {FieldScalars(T, fs[i], pos[i]) : i \in {j \in DOMAIN fs : ~fs[j].unnamed}}
ScalarsOf(T, t) ==
  CASE t.k \in {"int", "fp", "bool", "ptr"} -> ScalarAs(t, constLayout(T, t))
    [] t.k = "array" ->
         LET each == ScalarsOf(T, t.of) size == 8 * InC(T, t.of).size
         IN UNION {Shifted(each, size * i) : i \in 0..t.len - 1}
    [] OTHER -> MemberScalars(T, t.fields, InC(T, t).pos)
BytesOf(x) == (x[1] \div 8)..((x[1] + x[2] - 1) \div 8)
Data(d) == UNION {BytesOf(x) : x \in d.scalars}
OnData(d, loc) == [b \in Data(d) |-> loc[b]]

\* The one FP type of an aggregate with at most four of it and nothing else.
RECURSIVE HoldsUnnamedBits(_)
HoldsUnnamedBits(t) ==
  CASE t.k = "array" -> HoldsUnnamedBits(t.of)
    [] t.k = "decl" ->
         \E i \in DOMAIN t.fields :
           IF t.fields[i].unnamed THEN t.fields[i].bits > 0 ELSE HoldsUnnamedBits(t.fields[i].type)
    [] OTHER -> FALSE
HfaOf(t, size, xs) ==
  LET fps == {e \in {FpOf(4), FpOf(8)} : /\ {x[3] : x \in xs} = {e} /\ \A x \in xs : ~x[4]
                                         /\ size = e.n * Cardinality(xs) /\ size <= 4 * e.n}
  IN IF HoldsUnnamedBits(t) \/ fps = {} THEN NoType ELSE CHOOSE e \in fps : TRUE

\* 32-bit x86 returns in registers an aggregate whose parts all have a register's size.
RECURSIVE PartsSized(_, _)
PartsSized(T, t) ==
  /\ InC(T, t).size \in {1, 2, 4, 8}
  /\ t.k = "array" => PartsSized(T, t.of)
  /\ t.k = "decl" /\ (\A i \in DOMAIN t.fields : t.fields[i].bits = 0 \/ t.fields[i].unnamed)
       => \A i \in DOMAIN t.fields : t.fields[i].unnamed \/ PartsSized(T, t.fields[i].type)

DeclaredAs(T, t, c, xs) ==
  [type |-> t, size |-> c.size, align |-> c.align, scalars |-> xs, hfa |-> HfaOf(t, c.size, xs),
   whole |-> t.k # "decl", sized |-> T.abi = "x86" /\ PartsSized(T, t)]
Declared(T, t) == DeclaredAs(T, t, InC(T, t), ScalarsOf(T, t))

\* System V: an eightbyte is INTEGER if it holds any of an integer, FP if it holds only those.
Eightbyte(d, eb) ==
  LET held == {x[3] : x \in {y \in d.scalars : \E b \in BytesOf(y) : b \div 8 = eb}}
  IN IF held = {} THEN "none" ELSE IF \A e \in held : IsFp(e) THEN "sse" ELSE "int"
InMemory(d) == d.size > 16 \/ \E x \in d.scalars : ~x[4] /\ x[1] % (8 * x[5]) # 0
RECURSIVE eightbytesAt(_, _, _, _)
eightbyteAt(s, class) ==
  CASE class = "none" -> At(s, NoBytes)
    [] class = "int" -> InInt(s, 8, 8)
    [] OTHER -> InFp(s, 8, 8)
eightbytesFrom(d, p, eb, acc) == eightbytesAt(d, p.s, eb + 1, acc @@ Moved(p.loc, 8 * eb))
eightbytesAt(d, s, eb, acc) ==
  IF 8 * eb >= d.size THEN At(s, acc) ELSE eightbytesFrom(d, eightbyteAt(s, Eightbyte(d, eb)), eb, acc)
SysvAt(s, d, regs) ==
  IF InMemory(d) \/ regs.s.int > 6 \/ regs.s.fp > 8 THEN OnStack(s, Greater(8, d.align), 8, d.size) ELSE regs

\* An argument of a declared type.
argumentAt(T, s, d, i) ==
  CASE d.whole -> scalarAt(T, s, getType(T, d.type))
    [] ~d.whole /\ T.abi = "sysv" -> SysvAt(s, d, eightbytesAt(d, s, 0, NoBytes))
    [] ~d.whole /\ T.abi = "aarch64" ->
         CASE d.hfa # NoType -> HfaAt(T, s, d.hfa.n, d.size, IF T.darwin THEN d.hfa.n ELSE 8)
           [] d.hfa = NoType /\ d.size > 16 -> ByReference(T, s, i, d.size)
           [] OTHER -> IF d.size > 8 THEN TwoInts(s) ELSE scalarAt(T, s, IntOf(8))
    [] ~d.whole /\ T.abi = "win64" ->
         IF d.size \in {1, 2, 4, 8} THEN InSlot(s, "int", d.size) ELSE ByReference(T, s, i, d.size)
    [] ~d.whole /\ T.abi = "arm32" ->
         IF T.hard /\ d.hfa # NoType THEN InVfp(s, d.hfa.n, d.size \div d.hfa.n)
         ELSE InCore(s, IF d.align = 8 THEN 8 ELSE 4, d.size)
    [] OTHER -> OnStack(s, 4, 4, d.size)
RECURSIVE argumentPlaces(_, _, _, _)
argumentsAfter(T, p, ds, acc) == argumentPlaces(T, p.s, ds, Append(acc, OnData(ds[Len(acc) + 1], p.loc)))
argumentPlaces(T, s, ds, acc) ==
  IF Len(acc) = Len(ds) THEN [s |-> s, at |-> acc]
  ELSE argumentsAfter(T, argumentAt(T, s, ds[Len(acc) + 1], Len(acc) + 1), ds, acc)

\* A result of a declared type: through a pointer, or its registers.
ByPointer(T, d) ==
  CASE d.whole -> FALSE
    [] ~d.whole /\ T.abi = "sysv" -> InMemory(d)
    [] ~d.whole /\ T.abi = "aarch64" -> d.hfa = NoType /\ d.size > 16
    [] ~d.whole /\ T.abi = "win64" -> d.size \notin {1, 2, 4, 8}
    [] ~d.whole /\ T.abi = "arm32" -> ~(T.hard /\ d.hfa # NoType) /\ d.size > 4
    [] OTHER -> ~T.inRegs \/ ~d.sized
OneFloat(d) == \E e \in {FpOf(4), FpOf(8)} : d.size = e.n /\ {x[3] : x \in d.scalars} = {e}
returnedAt(T, d) ==
  CASE T.abi = "sysv" -> eightbytesAt(d, Fresh, 0, NoBytes).loc
    [] T.abi = "aarch64" -> IF d.hfa # NoType THEN InFp(Fresh, d.hfa.n, d.size).loc ELSE InInt(Fresh, 8, d.size).loc
    [] T.abi = "win64" -> InSlot(Fresh, "int", d.size).loc
    [] T.abi = "arm32" ->
         IF T.hard /\ d.hfa # NoType THEN InVfp(Fresh, d.hfa.n, d.size \div d.hfa.n).loc ELSE InCore(Fresh, 4, d.size).loc
    [] OTHER -> IF ~T.msvc /\ OneFloat(d) THEN InFp(Fresh, d.size, d.size).loc ELSE InInt(Fresh, 4, d.size).loc

-----------------------------------------------------------------------------
\* The calls of a signature: from Eskiu to C, and from C to an Eskiu function.

\* An image: each byte of a value, as <<argument, byte>>.
Image(d, i) == [b \in Data(d) |-> <<i, b>>]
\* What is at the places the lowered values go to.
Places(locs, vals) ==
  [p \in UNION {{locs[i][b] : b \in DOMAIN vals[i].val \cap DOMAIN locs[i]} : i \in DOMAIN locs} |->
     LET i == CHOOSE j \in DOMAIN locs : \E b \in DOMAIN vals[j].val \cap DOMAIN locs[j] : locs[j][b] = p
     IN vals[i].val[CHOOSE b \in DOMAIN vals[i].val \cap DOMAIN locs[i] : locs[i][b] = p]]
\* The lowered parameter argument i begins at.
RECURSIVE firstOf(_, _)
firstOf(sig, i) ==
  IF i = 1 THEN IF sig.ret.kind = "sret" THEN 2 ELSE 1 ELSE firstOf(sig, i - 1) + Lowers(sig.params[i - 1])
IsReference(sig, i) == sig.params[i].kind = "indirect"

\* The lowered values a C caller's arguments are: what is at their places.
ArrivedIn(c, loc) ==
  [b \in {x \in DOMAIN loc : \E i \in DOMAIN c : \E y \in DOMAIN c[i] : c[i][y] = loc[x]} |->
     LET i == CHOOSE k \in DOMAIN c : \E y \in DOMAIN c[k] : c[k][y] = loc[b]
     IN <<i, CHOOSE y \in DOMAIN c[i] : c[i][y] = loc[b]>>]
CopyFor(sig, ds, j) ==
  LET refs == {i \in DOMAIN ds : IsReference(sig, i) /\ firstOf(sig, i) = j}
  IN IF refs = {} THEN NoBytes ELSE LET i == CHOOSE r \in refs : TRUE IN Image(ds[i], i)
Arrived(sig, ds, c, locs) ==
  Made([j \in DOMAIN locs |-> [val |-> ArrivedIn(c, locs[j]), mem |-> CopyFor(sig, ds, j)]])

\* Every byte of the arguments is where C looks for it, and a value C puts there is the one the
\* Eskiu function gets.
ReachC(sig, c, vals, at) ==
  \A i \in DOMAIN c : \A b \in DOMAIN c[i] :
    IF IsReference(sig, i) THEN c[i][b][1] = "copy" /\ vals[firstOf(sig, i)].mem[b] = <<i, b>>
    ELSE c[i][b] \in DOMAIN at /\ at[c[i][b]] = <<i, b>>
ReachEskiu(c, got) == \A i \in DOMAIN c : \A b \in DOMAIN c[i] : b \in DOMAIN got[i] /\ got[i][b] = <<i, b>>
CrossAt(sig, ds, c, locs, vals) ==
  ReachC(sig, c, vals, Places(locs, vals)) /\ ReachEskiu(c, cabiCallbackThunk(sig, Arrived(sig, ds, c, locs)))
ArgumentsCross(T, ds, sig, c) ==
  CrossAt(sig, ds, c, lowerPlaces(T, Fresh, sig.lowered, <<>>),
          emitCAbiCall(sig, Made([i \in DOMAIN ds |-> Image(ds[i], i)])))

\* The result the same, both ways.
ThroughPointer(sig, v, r) == sig.ret.kind = "sret" /\ r.mem = v /\ callResult(sig, r) = v
Carries(v, c, at) == \A b \in DOMAIN v : c[b] \in DOMAIN at /\ at[c[b]] = v[b]
Gets(v, got) == \A b \in DOMAIN v : b \in DOMAIN got /\ got[b] = v[b]
InRegisters(sig, d, v, r, loc, c) ==
  /\ sig.ret.kind # "sret"
  /\ ~d.whole => /\ Carries(v, OnData(d, c), Places(<<loc>>, <<r>>))
                 /\ Gets(v, callResult(sig, Sent(ArrivedIn([i \in {0} |-> OnData(d, c)], loc))))
ResultIs(T, d, sig, v, r) ==
  IF ByPointer(T, d) THEN ThroughPointer(sig, v, r)
  ELSE InRegisters(sig, d, v, r, resultPlaces(T, IF sig.ret.kind = "coerce" THEN sig.ret.ty ELSE sig.result),
                   returnedAt(T, d))
ResultCrosses(T, d, sig) == ResultIs(T, d, sig, Image(d, 0), thunkResult(sig, Image(d, 0)))

\* va_arg reads the variadic arguments where C put them, in their order: the lists of AArch64.
RECURSIVE VarargsRead(_, _, _, _)
ReadAt(p, r) == p.loc[0] = IF r.at[1] = "stack" THEN <<"stack", r.at[2]>> ELSE <<r.at[1], r.at[2] + 8, 0>>
VarargRead(T, ts, p, r) == ReadAt(p, r) /\ VarargsRead(T, ts, p.s, r.ap)
VarargsRead(T, ts, s, ap) ==
  ts = <<>> \/ VarargRead(T, Tail(ts), scalarAt(T, s, Head(ts)), emitVaArg(ap, Head(ts)))
VaStart(s) == [gr |-> 8 * (s.int - 8), vr |-> 16 * (s.fp - 8), stack |-> s.stack]

PassedAs(T, ds, varargs, sig, placed) ==
  /\ ArgumentsCross(T, ds, sig, placed.at)
  /\ T.abi = "aarch64" /\ ~T.darwin => VarargsRead(T, varargs, placed.s, VaStart(placed.s))
CallAs(T, r, ds, varargs, sig, start) ==
  /\ PassedAs(T, ds, varargs, sig, argumentPlaces(T, start, ds, <<>>))
  /\ r # <<>> => ResultCrosses(T, r[1], sig)
DeclaredCall(T, r, ds, varargs, sig) ==
  CallAs(T, r, ds, varargs, sig, IF r # <<>> /\ ByPointer(T, r[1]) THEN ResultPointer(T, Fresh) ELSE Fresh)
\* A call of an extern and a callback from C pass every value as C does: "The compiler lowers such
\* a call to the target's C calling convention ... matching what clang emits for the same C
\* signature" (docs/lang/spec.md, 13.4).
CrossesAsC(T, ret, params, varargs, sig) ==
  DeclaredCall(T, IF ret = NoType THEN <<>> ELSE <<Declared(T, ret)>>,
               Made([i \in DOMAIN params |-> Declared(T, params[i])]), varargs, sig)
=============================================================================
