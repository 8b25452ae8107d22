-------------------------------- MODULE CAbi --------------------------------
(***************************************************************************)
(* The C ABI lowering of codegen_cabi.cpp: the signature an extern that    *)
(* takes or returns a struct or a union by value is declared with          *)
(* (buildCAbiSig), the call through it (emitCAbiCall), and the thunk C     *)
(* calls an Eskiu function through (cabiCallbackThunk).                    *)
(*                                                                         *)
(* A value is the function of its bytes; of an aggregate's bytes it has    *)
(* those that hold data.                                                   *)
(***************************************************************************)
EXTENDS LaidOut

\* Only named struct types are C aggregates.
isCAggregate(t) == t.k = "struct"
IsFp(t) == t.k = "fp"

\* The scalar leaves of an aggregate, <<byte, type>>: a union's are those of every member, a
\* bitfield's the bytes from its first bit through its declared type's width, padding's none.
RECURSIVE cabiLeaves(_, _)
BitBytes(st, s) ==
  LET first == 8 * s.byte + s.bit
      last == first + Greater(8, Width(s.storage))
  IN Made([i \in 1..Greater(0, Lesser((last + 7) \div 8, st.size) - first \div 8) |-> <<first \div 8 + i - 1, IntOf(1)>>])
From(base, leaves) == Made([i \in DOMAIN leaves |-> <<base + leaves[i][1], leaves[i][2]>>])
cabiLeaves(T, t) ==
  LET byOffset == t.slots # <<>> /\ t.slots[1].byOffset
      byHand == t.slots # <<>> /\ \A i \in DOMAIN t.slots : ~t.slots[i].isBits
      under(base, e) == From(base, cabiLeaves(T, e))
  IN CASE t.k = "array" -> FlattenSeq(Made([i \in 1..t.len |-> under((i - 1) * llSize(t.of), t.of)]))
       [] t.k # "array" /\ t.k # "struct" -> <<<<0, t>>>>
       [] t.k = "struct" /\ t.union -> FlattenSeq(Made([i \in DOMAIN t.members |-> cabiLeaves(T, t.members[i])]))
       [] t.k = "struct" /\ ~t.union /\ byOffset ->
            FlattenSeq(Made([i \in DOMAIN t.slots |->
              IF t.slots[i].isBits THEN BitBytes(t, t.slots[i]) ELSE under(t.slots[i].byte, t.slots[i].storage)]))
       [] t.k = "struct" /\ ~t.union /\ ~byOffset /\ byHand ->
            FlattenSeq(Made([i \in DOMAIN t.slots |-> under(t.at[t.slots[i].phys], t.slots[i].storage)]))
       [] OTHER -> FlattenSeq(Made([i \in DOMAIN t.elems |-> under(t.at[i], t.elems[i])]))

\* The bytes unnamed bitfields count as data, <<first, end>>.
RECURSIVE cabiUnnamedData(_)
cabiUnnamedData(t) ==
  LET under(base, e) == LET ds == cabiUnnamedData(e) IN Made([i \in DOMAIN ds |-> <<base + ds[i][1], base + ds[i][2]>>])
      own == IF t.pads /\ t.unnamed = <<>> THEN <<<<0, 0>>>> ELSE t.unnamed
      held == CASE t.union -> [i \in DOMAIN t.members |-> cabiUnnamedData(t.members[i])]
                [] ~t.union /\ t.slots # <<>> ->
                     [i \in DOMAIN t.slots |-> IF t.slots[i].isBits THEN <<>> ELSE under(Address(t, t.slots[i]), t.slots[i].storage)]
                [] OTHER -> [i \in DOMAIN t.elems |-> under(t.at[i], t.elems[i])]
  IN CASE t.k = "array" /\ t.of.k \in {"array", "struct"} ->
            FlattenSeq(Made([i \in 1..t.len |-> under((i - 1) * llSize(t.of), t.of)]))
       [] t.k = "struct" -> own \o FlattenSeq(Made(held))
       [] OTHER -> <<>>

\* A homogeneous floating-point aggregate: one to four leaves of one type, densely packed.
hfaType(T, leaves, size, asArray) ==
  LET base == leaves[1][2]
      n == Cardinality({leaves[i][1] : i \in DOMAIN leaves})
  IN IF \/ leaves = <<>> \/ ~IsFp(base) \/ n > 4 \/ size # n * base.n
        \/ \E i \in DOMAIN leaves : leaves[i][2] # base \/ leaves[i][1] % base.n # 0
     THEN NoType
     ELSE IF asArray THEN ArrayOf(n, base) ELSE StructType(T, Made([i \in 1..n |-> base]), FALSE)

\* The fields of an aggregate for the 32-bit x86 rules; a bitfield struct has no list.
HasFields(t) == t.k = "struct" /\ (t.union \/ \A i \in DOMAIN t.slots : ~t.slots[i].isBits)
x86Fields(t) ==
  CASE t.union -> t.members
    [] ~t.union /\ t.pads -> Made([i \in DOMAIN t.fields |-> t.fields[i].type])
    [] OTHER -> t.elems
RECURSIVE x86RetInRegs(_)
x86RetInRegs(t) ==
  /\ llSize(t) \in {1, 2, 4, 8}
  /\ t.k = "array" => x86RetInRegs(t.of)
  /\ HasFields(t) => \A i \in DOMAIN x86Fields(t) : llSize(x86Fields(t)[i]) # 0 => x86RetInRegs(x86Fields(t)[i])
RECURSIVE only(_)
only(t) == IF t.k = "array" /\ t.len = 1 THEN only(t.of) ELSE t
RECURSIVE x86SingleElement(_)
x86SingleElement(t) ==
  LET fields == SelectSeq(x86Fields(t), LAMBDA f : llSize(f) # 0)
      f == only(fields[1])
      found == IF f.k \in {"struct", "array"} THEN x86SingleElement(f) ELSE f
  IN CASE ~HasFields(t) -> NoType
       [] HasFields(t) /\ Len(fields) # 1 -> NoType
       [] OTHER -> IF found # NoType /\ llSize(found) = llSize(t) THEN found ELSE NoType

-----------------------------------------------------------------------------
\* classifyCAbi: how an argument or a result is passed, and the registers it leaves free.

Direct == [kind |-> "direct", ty |-> NoType, align |-> 0, stackAlign |-> 0, offset |-> 0]
Coerce(t) == [Direct EXCEPT !.kind = "coerce", !.ty = t]
Memory(isReturn, kind, t, align) == [Direct EXCEPT !.kind = IF isReturn THEN "sret" ELSE kind, !.ty = t, !.align = align]
Classed(arg, free) == [arg |-> arg, free |-> free]

HomogeneousAs(T, t, asArray) ==
  IF t.homogeneous THEN hfaType(T, cabiLeaves(T, t), t.size, asArray) ELSE NoType
aarch64Arg(T, t, isReturn, h) ==
  CASE h # NoType ->
         [Coerce(h) EXCEPT !.stackAlign = IF isReturn \/ T.darwin THEN 0 ELSE IF t.calign >= 16 THEN 16 ELSE 8]
    [] h = NoType /\ t.size > 16 -> Memory(isReturn, "indirect", t, t.calign)
    [] h = NoType /\ t.size \in 9..16 -> Coerce(ArrayOf(2, IntOf(8)))
    [] OTHER -> Coerce(IntOf(IF isReturn THEN t.size ELSE 8))

win64Arg(t, isReturn) ==
  IF t.size \in {1, 2, 4, 8} THEN Coerce(IntOf(t.size)) ELSE Memory(isReturn, "indirect", t, t.calign)

arm32Arg(T, t, isReturn, h) ==
  CASE h # NoType -> Coerce(h)
    [] h = NoType /\ isReturn -> IF t.size <= 4 THEN Coerce(IntOf(4)) ELSE Memory(TRUE, "sret", t, t.calign)
    [] h = NoType /\ ~isReturn /\ t.size > 64 -> Memory(FALSE, "byval", t, Lesser(Greater(t.calign, 4), 8))
    [] OTHER -> Coerce(IF t.calign <= 4 THEN ArrayOf((t.size + 3) \div 4, IntOf(4))
                       ELSE ArrayOf((t.size + 7) \div 8, IntOf(8)))

\* SysV: the class of each eightbyte, and the type it is passed as.
Misaligned(T, l) == l[1] % llAlign(T, l[2]) # 0 \/ l[1] \div 8 # (l[1] + llSize(l[2]) - 1) \div 8
\* Mutant of ClassOf: an eightbyte with any FP leaf is FP.
ClassByAnyFloat(leaves, eb) ==
  LET held == {IsFp(leaves[i][2]) : i \in {j \in DOMAIN leaves : leaves[j][1] \div 8 = eb}}
  IN IF held = {} THEN "none" ELSE IF TRUE \in held THEN "sse" ELSE "int"
ClassOf(leaves, eb) ==
  LET held == {IsFp(leaves[i][2]) : i \in {j \in DOMAIN leaves : leaves[j][1] \div 8 = eb}}
  IN IF held = {} THEN "none" ELSE IF FALSE \in held THEN "int" ELSE "sse"
LeafAt(leaves, off) == LET at == SelectSeq(leaves, LAMBDA l : l[1] = off) IN IF at = <<>> THEN NoType ELSE at[1][2]
ExtentAt(leaves, unnamed, o) ==
  Max({0} \cup {leaves[i][1] + llSize(leaves[i][2]) - o : i \in {j \in DOMAIN leaves : leaves[j][1] \div 8 = o \div 8}}
      \cup {Lesser(unnamed[i][2], o + 8) - o :
              i \in {j \in DOMAIN unnamed : Greater(unnamed[j][1], o) < Lesser(unnamed[j][2], o + 8)}})
ebFloat(leaves, o, t0, t1) ==
  CASE t0 = NoType \/ \E i \in DOMAIN leaves : leaves[i] = <<o, FpOf(8)>> -> FpOf(8)
    [] t1 = FpOf(4) -> [k |-> "vec", n |-> 8]
    [] OTHER -> t0
ebInt(size, o, t0, ext) ==
  CASE t0.k = "ptr" \/ t0 = IntOf(8) -> t0
    [] ext \in {1, 2, 4} -> IntOf(ext)
    [] OTHER -> IntOf(Lesser(size - o, 8))
ebType(leaves, unnamed, size, eb) ==
  LET o == 8 * eb
  IN IF ClassOf(leaves, eb) = "sse"
     THEN ebFloat(leaves, o, LeafAt(leaves, o), IF size - o > 4 THEN LeafAt(leaves, o + 4) ELSE NoType)
     ELSE ebInt(size, o, LeafAt(leaves, o), ExtentAt(leaves, unnamed, o))

sysvMemory(t, isReturn, free) ==
  IF ~isReturn /\ free.int = 0 /\ t.calign <= 8 /\ t.size <= 8 THEN Coerce(IntOf(t.size))
  ELSE Memory(isReturn, "byval", t, IF isReturn THEN t.calign ELSE Greater(t.calign, 8))
sysvPair(T, lo, hi, isReturn) ==
  LET wide == IF Up(llSize(lo), llAlign(T, hi)) = 8 THEN lo ELSE IF lo = FpOf(4) THEN FpOf(8) ELSE IntOf(8)
  IN [Coerce(StructType(T, <<wide, hi>>, FALSE)) EXCEPT !.kind = IF isReturn THEN "coerce" ELSE "expand"]
sysvRegs(T, lo, hi, skip, nEb, isReturn) ==
  CASE skip = {0} -> [Coerce(hi) EXCEPT !.offset = 8]
    [] skip = {1} \/ nEb = 1 -> Coerce(lo)
    [] OTHER -> sysvPair(T, lo, hi, isReturn)
\* An unnamed bitfield's own eightbyte is not passed, if the other one is.
sysvSkip(leaves, unnamed, nEb) ==
  LET empty == {eb \in 0..nEb - 1 : ClassOf(leaves, eb) = "none"}
  IN IF unnamed # <<>> /\ nEb = 2 /\ Cardinality(empty) = 1 THEN empty ELSE {}
sysvPassed(T, t, isReturn, free, leaves, unnamed, skip, nEb) ==
  LET passed == (0..nEb - 1) \ skip
      needSSE == Cardinality({eb \in passed : ClassOf(leaves, eb) = "sse"})
      needInt == Cardinality(passed) - needSSE
  IN IF \/ t.size > 16 \/ \E i \in DOMAIN leaves : Misaligned(T, leaves[i])
        \/ ~isReturn /\ (needInt > free.int \/ needSSE > free.sse)
     THEN Classed(sysvMemory(t, isReturn, free), free)
     ELSE Classed(sysvRegs(T, ebType(leaves, unnamed, t.size, 0), ebType(leaves, unnamed, t.size, 1), skip, nEb, isReturn),
                  IF isReturn THEN free ELSE [int |-> free.int - needInt, sse |-> free.sse - needSSE])
sysvLeaves(T, t, isReturn, free, leaves, unnamed, nEb) ==
  sysvPassed(T, t, isReturn, free, leaves, unnamed, sysvSkip(leaves, unnamed, nEb), nEb)
sysvArg(T, t, isReturn, free) ==
  sysvLeaves(T, t, isReturn, free, cabiLeaves(T, t), cabiUnnamedData(t), IF t.size > 8 THEN 2 ELSE 1)

x86Basic(t) == t.k \in {"ptr", "fp"} \/ t \in {IntOf(4), IntOf(8)}
x86Return(T, t, e) ==
  CASE ~T.inRegs \/ ~x86RetInRegs(t) -> Memory(TRUE, "sret", t, t.calign)
    [] e # NoType /\ ((~T.msvc /\ IsFp(e)) \/ e.k = "ptr") -> Coerce(e)
    [] OTHER -> Coerce(IntOf(t.size))
x86Arg(T, t, fields) ==
  IF /\ t.size <= 16 /\ ~t.pads /\ HasFields(t) /\ fields # <<>>
     /\ \A i \in DOMAIN fields : x86Basic(fields[i])
     /\ FoldLeft(LAMBDA sum, f : sum + llSize(f), 0, fields) = t.size
  THEN [Coerce(StructType(T, fields, FALSE)) EXCEPT !.kind = "expand"]
  ELSE Memory(FALSE, "byval", t, 4)

\* A scalar takes its argument register on SysV.
scalarArg(T, t, isReturn, free) ==
  IF T.abi # "sysv" \/ isReturn THEN free
  ELSE IF IsFp(t) THEN [free EXCEPT !.sse = Greater(0, free.sse - 1)] ELSE [free EXCEPT !.int = Greater(0, free.int - 1)]
classifyCAbi(T, t, isReturn, free) ==
  CASE ~isCAggregate(t) -> Classed(Direct, scalarArg(T, t, isReturn, free))
    [] isCAggregate(t) /\ t.size = 0 -> Classed(Direct, free)
    [] isCAggregate(t) /\ t.size > 0 /\ T.abi = "sysv" -> sysvArg(T, t, isReturn, free)
    [] OTHER -> Classed(CASE T.abi = "aarch64" -> aarch64Arg(T, t, isReturn, HomogeneousAs(T, t, ~isReturn))
                          [] T.abi = "win64" -> win64Arg(t, isReturn)
                          [] T.abi = "arm32" -> arm32Arg(T, t, isReturn, IF T.hard THEN HomogeneousAs(T, t, FALSE) ELSE NoType)
                          [] T.abi = "x86" -> IF isReturn THEN x86Return(T, t, x86SingleElement(t)) ELSE x86Arg(T, t, x86Fields(t)), free)

\* The lowered signature: the parameters with their ABI attributes.
Param(t) == [ty |-> t, byval |-> FALSE, sret |-> FALSE, align |-> 0]
loweredParams(T, t, a) ==
  CASE a.kind = "direct" -> <<Param(t)>>
    [] a.kind = "coerce" -> <<[Param(a.ty) EXCEPT !.align = a.stackAlign]>>
    [] a.kind = "expand" -> Made([e \in DOMAIN a.ty.elems |-> Param(a.ty.elems[e])])
    [] a.kind = "byval" -> <<[Param(a.ty) EXCEPT !.byval = TRUE, !.align = a.align]>>
    [] OTHER -> <<Param([Ptr EXCEPT !.n = T.ptr])>>
RECURSIVE classifyParams(_, _, _, _)
classifyParams(T, ts, free, args) ==
  IF ts = <<>> THEN args
  ELSE LET c == classifyCAbi(T, Head(ts), FALSE, free) IN classifyParams(T, Tail(ts), c.free, Append(args, c.arg))
sigOf(T, ret, params, r, args) ==
  [ret |-> r, params |-> args, result |-> ret, types |-> params,
   lowered |-> (IF r.kind = "sret" THEN <<[Param([Ptr EXCEPT !.n = T.ptr]) EXCEPT !.sret = TRUE]>> ELSE <<>>)
                 \o FlattenSeq(Made([i \in DOMAIN params |-> loweredParams(T, params[i], args[i])]))]
sigWith(T, ret, params, r) ==
  sigOf(T, ret, params, r, classifyParams(T, params, [int |-> IF r.kind = "sret" THEN 5 ELSE 6, sse |-> 8], <<>>))
buildCAbiSig(T, ret, params) ==
  sigWith(T, ret, params, IF ret = NoType THEN Direct ELSE classifyCAbi(T, ret, TRUE, [int |-> 6, sse |-> 8]).arg)

-----------------------------------------------------------------------------
\* The values that cross. cabiReinterpret keeps the bytes both types have.

cabiReinterpret(v, size) == [b \in {x \in DOMAIN v : x < size} |-> v[b]]
Moved(v, by) == [b \in {x + by : x \in {y \in DOMAIN v : y + by >= 0}} |-> v[b - by]]
cabiToCoerced(v, a) == cabiReinterpret(Moved(v, 0 - a.offset), llSize(a.ty))
cabiFromCoerced(c, a, t) == cabiReinterpret(Moved(cabiReinterpret(c, llSize(a.ty)), a.offset), llSize(t))

\* An argument's lowered values: one per lowered parameter; `mem` what a pointer points to.
NoBytes == [b \in {} |-> <<>>]
Sent(v) == [val |-> v, mem |-> NoBytes]
sentAs(a, v) ==
  CASE a.kind = "direct" -> <<Sent(v)>>
    [] a.kind = "coerce" -> <<Sent(cabiToCoerced(v, a))>>
    [] a.kind = "expand" -> LET pair == cabiReinterpret(v, llSize(a.ty))
                            IN Made([e \in DOMAIN a.ty.elems |->
                                 Sent(cabiReinterpret(Moved(pair, 0 - a.ty.at[e]), llSize(a.ty.elems[e])))])
    [] a.kind = "byval" -> <<Sent(v)>>
    [] OTHER -> <<[val |-> NoBytes, mem |-> v]>>
emitCAbiCall(sig, args) ==
  (IF sig.ret.kind = "sret" THEN <<Sent(NoBytes)>> ELSE <<>>)
    \o FlattenSeq(Made([i \in DOMAIN args |-> sentAs(sig.params[i], args[i])]))
\* The result of a call: what the caller makes of the value, or of what the pointer holds.
callResult(sig, r) ==
  CASE sig.ret.kind = "sret" -> r.mem
    [] sig.ret.kind = "coerce" -> cabiFromCoerced(r.val, sig.ret, sig.result)
    [] OTHER -> r.val

\* The thunk rebuilds each argument from its lowered values.
RECURSIVE joined(_, _, _, _)
joined(t, vals, e, acc) ==
  IF e > Len(t.elems) THEN acc
  ELSE joined(t, vals, e + 1, acc @@ Moved(cabiReinterpret(vals[e].val, llSize(t.elems[e])), t.at[e]))
receivedAs(a, t, vals) ==
  CASE a.kind = "coerce" -> cabiFromCoerced(vals[1].val, a, t)
    [] a.kind = "expand" -> cabiReinterpret(joined(a.ty, vals, 1, NoBytes), llSize(t))
    [] a.kind = "indirect" -> vals[1].mem
    [] OTHER -> vals[1].val
Lowers(a) == IF a.kind = "expand" THEN Len(a.ty.elems) ELSE 1
RECURSIVE rebuilt(_, _, _, _)
rebuilt(sig, i, vals, args) ==
  IF i > Len(sig.params) THEN args
  ELSE LET n == Lowers(sig.params[i])
       IN rebuilt(sig, i + 1, SubSeq(vals, n + 1, Len(vals)), Append(args, receivedAs(sig.params[i], sig.types[i], SubSeq(vals, 1, n))))
cabiCallbackThunk(sig, vals) == rebuilt(sig, 1, IF sig.ret.kind = "sret" THEN Tail(vals) ELSE vals, <<>>)
\* What the thunk returns, or stores through the pointer it was given.
thunkResult(sig, v) ==
  CASE sig.ret.kind = "sret" -> [val |-> NoBytes, mem |-> v]
    [] sig.ret.kind = "coerce" -> Sent(cabiToCoerced(v, sig.ret))
    [] OTHER -> Sent(v)

-----------------------------------------------------------------------------
\* va_arg on AArch64 outside Darwin: `ap` is the va_list {stack, gr_offs, vr_offs}, the offsets
\* negative while arguments are left in the registers' save areas.
emitVaArg(ap, t) ==
  LET slot == IF IsFp(t) THEN 16 ELSE 8
      offs == IF IsFp(t) THEN ap.vr ELSE ap.gr
      next == IF offs < 0 THEN offs + slot ELSE offs
      stored == IF IsFp(t) THEN [ap EXCEPT !.vr = next] ELSE [ap EXCEPT !.gr = next]
  IN IF offs < 0 /\ next <= 0
     THEN [at |-> <<IF IsFp(t) THEN "fp" ELSE "int", offs \div slot>>, ap |-> stored]
     ELSE [at |-> <<"stack", ap.stack>>, ap |-> [stored EXCEPT !.stack = ap.stack + 8]]
=============================================================================
