----------------------------- MODULE Constants -----------------------------
(***************************************************************************)
(* The values of integer constant expressions, which the compiler computes *)
(* four times over: an #if (PPExprEval, preprocessor.cpp), an array        *)
(* dimension from its text (foldDim, type.cpp), every other constant in    *)
(* the checker (foldConstIntT, typecheck_stmt.cpp), and the code that is   *)
(* generated for it (codegen_expr.cpp), with the types each of them sees.  *)
(*                                                                         *)
(* A text is a sequence of tokens as in Macros; an expression is a record  *)
(* [k, op, n, kids]. The widths are small here and have the code's order:  *)
(* IntBits stands for 32 bits, LongBits for 64, ByteBits for 8.            *)
(***************************************************************************)
EXTENDS Macros, Bitwise

ByteBits == 3
IntBits == 4
LongBits == 7

W == [bool |-> 1, int8 |-> ByteBits, uint8 |-> ByteBits, int |-> IntBits, uint |-> IntBits,
      int64 |-> LongBits, uint64 |-> LongBits]
Literal == [n \in {ToString(v) : v \in 0 .. 2 ^ LongBits} |-> CHOOSE v \in 0 .. 2 ^ LongBits : ToString(v) = n]

\* The consts the expressions may name.
Consts == [K |-> [type |-> "int", init |-> "3"], B |-> [type |-> "uint8", init |-> "5"]]

Lit(n) == [k |-> "lit", op |-> "", n |-> n, kids |-> <<>>]
Neg(n) == [k |-> "neg", op |-> "-", n |-> n, kids |-> <<>>]
Name(n) == [k |-> "name", op |-> "", n |-> n, kids |-> <<>>]
Defined(n) == [k |-> "defined", op |-> "", n |-> n, kids |-> <<>>]
Un(op, x) == [k |-> "un", op |-> op, n |-> "", kids |-> <<x>>]
Bin(op, x, y) == [k |-> "bin", op |-> op, n |-> "", kids |-> <<x, y>>]
Cond(c, x, y) == [k |-> "cond", op |-> "?", n |-> "", kids |-> <<c, x, y>>]
Cast(t, x) == [k |-> "cast", op |-> t, n |-> "", kids |-> <<x>>]

Signed(v, w) == ((v + 2 ^ (w - 1)) % 2 ^ w) - 2 ^ (w - 1)
Abs(v) == IF v < 0 THEN -v ELSE v
Quotient(a, b) == IF (a < 0) = (b < 0) THEN Abs(a) \div Abs(b) ELSE -(Abs(a) \div Abs(b))
Remainder(a, b) == a - b * Quotient(a, b)

Comparisons == {"==", "!=", "<", ">", "<=", ">="}
Compare(op, a, b) ==
  CASE op = "==" -> a = b [] op = "!=" -> a # b [] op = "<" -> a < b
    [] op = ">" -> a > b [] op = "<=" -> a <= b [] op = ">=" -> a >= b
BitsOf(op, a, b) == CASE op = "&" -> a & b [] op = "|" -> a | b [] op = "^" -> a ^^ b
Sum(op, a, b) == CASE op = "+" -> a + b [] op = "-" -> a - b [] op = "*" -> a * b
OneIf(b) == IF b THEN 1 ELSE 0

At(s, p) == IF p \in DOMAIN s THEN s[p] ELSE ""
Punctuators == {"(", ")", "!", "~", "-", "+", "*", "/", "%", "<", ">", "&", "^", "|", "?", ":"}
                 \cup {"||", "&&", "==", "!=", "<=", ">=", "<<", ">>", ",", ""}

-----------------------------------------------------------------------------
\* #if. A value is a word of LongBits bits; skip: a short-circuit leaves the operand unevaluated.
Levels == <<{"||"}, {"&&"}, {"|"}, {"^"}, {"&"}, {"==", "!="}, {"<", ">", "<=", ">="},
            {"<<", ">>"}, {"+", "-"}, {"*", "/", "%"}>>

Read(v, p) == [ok |-> TRUE, v |-> v, p |-> p]
Thrown == [ok |-> FALSE, v |-> 0, p |-> 0]

Fails(op, b, skip) == ~skip /\ ((op \in {"/", "%"} /\ b = 0) \/ (op \in {"<<", ">>"} /\ b \notin 0 .. LongBits - 1))

Applied(op, a, b) ==
  CASE op = "&&" -> OneIf(a # 0 /\ b # 0)
    [] op = "||" -> OneIf(a # 0 \/ b # 0)
    [] op \in Comparisons -> OneIf(Compare(op, a, b))
    [] Fails(op, b, FALSE) -> 0
    [] op \in {"/", "%"} -> Signed(IF op = "/" THEN Quotient(a, b) ELSE Remainder(a, b), LongBits)
    [] op = "<<" -> Signed(a * 2 ^ b, LongBits)
    [] op = ">>" -> a \div 2 ^ b
    [] op \in {"&", "|", "^"} -> Signed(BitsOf(op, a % 2 ^ LongBits, b % 2 ^ LongBits), LongBits)
    [] OTHER -> Signed(Sum(op, a, b), LongBits)
Unary(op, v) ==
  CASE op = "!" -> OneIf(v = 0) [] op = "~" -> -1 - v [] op = "-" -> Signed(-v, LongBits) [] op = "+" -> v

RECURSIVE ternary(_, _, _), level(_, _, _, _), operands(_, _, _, _), unary(_, _, _)
primary(s, p, skip) ==
  LET t == At(s, p)
  IN CASE t = "(" -> LET x == ternary(s, p + 1, skip)
                     IN IF x.ok /\ At(s, x.p) = ")" THEN Read(x.v, x.p + 1) ELSE Thrown
       [] t \in DOMAIN Literal ->
            IF Literal[t] < 2 ^ LongBits THEN Read(Signed(Literal[t], LongBits), p + 1) ELSE Thrown
       [] t \notin Punctuators \cup DOMAIN Literal -> Read(0, p + 1)
       [] OTHER -> Thrown
unary(s, p, skip) ==
  IF At(s, p) \notin {"!", "~", "-", "+"} THEN primary(s, p, skip)
  ELSE LET x == unary(s, p + 1, skip) IN IF x.ok THEN Read(Unary(s[p], x.v), x.p) ELSE Thrown
level(k, s, p, skip) == IF k > Len(Levels) THEN unary(s, p, skip) ELSE operands(k, s, level(k + 1, s, p, skip), skip)
operands(k, s, x, skip) ==
  IF ~x.ok \/ At(s, x.p) \notin Levels[k] THEN x
  ELSE LET op == s[x.p]
           dead == (op = "&&" /\ x.v = 0) \/ (op = "||" /\ x.v # 0)
           y == level(k + 1, s, x.p + 1, skip \/ dead)
       IN operands(k, s, IF ~y.ok \/ Fails(op, y.v, skip) THEN Thrown ELSE Read(Applied(op, x.v, y.v), y.p), skip)
ternary(s, p, skip) ==
  LET c == level(1, s, p, skip)
  IN IF ~c.ok \/ At(s, c.p) # "?" THEN c
     ELSE LET x == ternary(s, c.p + 1, skip \/ c.v = 0)
              y == ternary(s, x.p + 1, skip \/ c.v # 0)
          IN IF ~x.ok \/ At(s, x.p) # ":" \/ ~y.ok THEN Thrown ELSE Read(IF c.v # 0 THEN x.v ELSE y.v, y.p)

\* `defined X` and `defined(X)` become 1 or 0 before anything is expanded; "," starts no operand.
RECURSIVE Asked(_, _)
Asked(t, s) ==
  IF s = <<>> THEN <<>>
  ELSE IF s[1] # "defined" THEN <<s[1]>> \o Asked(t, Tail(s))
  ELSE LET paren == At(s, 2) = "("
           k == IF paren THEN 3 ELSE 2
       IN IF At(s, k) \in Punctuators \/ (paren /\ At(s, k + 1) # ")") THEN <<",">>
          ELSE <<ToString(OneIf(s[k] \in DOMAIN t))>> \o Asked(t, SubSeq(s, IF paren THEN k + 2 ELSE k + 1, Len(s)))

\* <<>> for an error. (An ill formed macro call is one; its tokens stay, and no operand is followed by "(".)
ppEvalIf(t, s) ==
  LET text == ppExpand(t, Asked(t, s))
      x == ternary(text, 1, FALSE)
  IN IF x.ok /\ x.p = Len(text) + 1 THEN <<x.v>> ELSE <<>>

-----------------------------------------------------------------------------
\* ty::CInt: a value with its promoted type. v is negative only if the type is signed.
cintMake(v, w, uns) == [ok |-> TRUE, v |-> IF uns THEN v % 2 ^ w ELSE Signed(v, w), w |-> w, uns |-> uns]
NoValue == [ok |-> FALSE, v |-> 0, w |-> IntBits, uns |-> FALSE]
Truth(b) == cintMake(OneIf(b), IntBits, FALSE)
Word(x) == Signed(x.v, LongBits)

cintLiteral(v) ==
  CASE v < 2 ^ (IntBits - 1) -> cintMake(v, IntBits, FALSE)
    [] v \in 2 ^ (IntBits - 1) .. 2 ^ (LongBits - 1) - 1 -> cintMake(v, LongBits, FALSE)
    [] v \in 2 ^ (LongBits - 1) .. 2 ^ LongBits - 1 -> cintMake(v, LongBits, TRUE)
    [] OTHER -> NoValue

Initial(n) == cintLiteral(Literal[Consts[n].init])

Unsigned(t) == t \in {"uint", "uint8", "uint64", "bool"}
cintCast(t, x) ==
  CASE ~x.ok -> NoValue
    [] x.ok /\ t = "bool" -> Truth(x.v # 0)
    [] x.ok /\ t = "int8" -> cintMake(Signed(x.v, ByteBits), IntBits, FALSE)
    [] x.ok /\ t = "uint8" -> cintMake(x.v % 2 ^ ByteBits, IntBits, FALSE)
    [] OTHER -> cintMake(x.v, W[t], Unsigned(t))

cintUnary(op, x) ==
  CASE ~x.ok -> NoValue
    [] x.ok /\ op = "-" -> cintMake(-x.v, x.w, x.uns)
    [] x.ok /\ op = "~" -> cintMake(-1 - x.v, x.w, x.uns)
    [] x.ok /\ op = "!" -> Truth(x.v = 0)
    [] x.ok /\ op = "+" -> x

\* Mutant of Common: an unsigned operand makes the result unsigned, whatever the ranks.
commonByUnsigned(x, y) == [w |-> IF x.w > y.w THEN x.w ELSE y.w, uns |-> x.uns \/ y.uns]

Common(x, y) == [w |-> IF x.w > y.w THEN x.w ELSE y.w,
                 uns |-> IF x.w = y.w THEN x.uns \/ y.uns ELSE IF x.w > y.w THEN x.uns ELSE y.uns]

cintDivide(op, a, b) ==
  IF b.v = 0 \/ (~a.uns /\ a.v = -(2 ^ (a.w - 1)) /\ b.v = -1) THEN NoValue
  ELSE cintMake(IF op = "/" THEN Quotient(a.v, b.v) ELSE Remainder(a.v, b.v), a.w, a.uns)
cintShift(op, x, y) ==
  IF y.v \notin 0 .. x.w - 1 THEN NoValue
  ELSE cintMake(IF op = "<<" THEN x.v * 2 ^ y.v ELSE x.v \div 2 ^ y.v, x.w, x.uns)
cintMeet(op, a, b) ==
  CASE op \in Comparisons -> Truth(Compare(op, a.v, b.v))
    [] op \in {"/", "%"} -> cintDivide(op, a, b)
    [] op \in {"&", "|", "^"} -> cintMake(BitsOf(op, a.v % 2 ^ a.w, b.v % 2 ^ b.w), a.w, a.uns)
    [] OTHER -> cintMake(Sum(op, a.v, b.v), a.w, a.uns)
cintBinary(op, x, y) ==
  CASE ~x.ok \/ ~y.ok -> NoValue
    [] x.ok /\ y.ok /\ op = "&&" -> Truth(x.v # 0 /\ y.v # 0)
    [] x.ok /\ y.ok /\ op = "||" -> Truth(x.v # 0 \/ y.v # 0)
    [] x.ok /\ y.ok /\ op \in {"<<", ">>"} -> cintShift(op, x, y)
    [] OTHER -> LET t == Common(x, y) IN cintMeet(op, cintMake(x.v, t.w, t.uns), cintMake(y.v, t.w, t.uns))
cintArm(c, x, y) == LET t == Common(x, y) IN cintMake(IF c.v # 0 THEN x.v ELSE y.v, t.w, t.uns)

-----------------------------------------------------------------------------
\* foldDim: an array dimension from its text. A name is what `names` makes of it, and its
\* type is its value's; nothing is short-circuited.
Folded(c, p) == [c |-> c, p |-> p]
ByValue(v) == cintMake(v, IF v \in -(2 ^ (IntBits - 1)) .. 2 ^ (IntBits - 1) - 1 THEN IntBits ELSE LongBits, FALSE)

RECURSIVE dimTernary(_, _, _), dimLevel(_, _, _, _), dimOperands(_, _, _, _), dimUnary(_, _, _)
dimUnary(s, p, names) ==
  LET t == At(s, p)
  IN CASE t \in {"!", "~", "-", "+"} ->
            LET x == dimUnary(s, p + 1, names) IN Folded(cintUnary(t, x.c), x.p)
       [] t = "(" /\ At(s, p + 1) \in DOMAIN W /\ At(s, p + 2) = ")" ->
            LET x == dimUnary(s, p + 3, names) IN Folded(cintCast(s[p + 1], x.c), x.p)
       [] t = "(" /\ ~(At(s, p + 1) \in DOMAIN W /\ At(s, p + 2) = ")") ->
            LET x == dimTernary(s, p + 1, names)
            IN IF At(s, x.p) = ")" THEN Folded(x.c, x.p + 1) ELSE Folded(NoValue, x.p)
       [] t \in DOMAIN Literal -> Folded(cintLiteral(Literal[t]), p + 1)
       [] t \in DOMAIN names -> Folded(ByValue(names[t]), p + 1)
       [] OTHER -> Folded(NoValue, p)
dimLevel(k, s, p, names) ==
  IF k > Len(Levels) THEN dimUnary(s, p, names) ELSE dimOperands(k, s, dimLevel(k + 1, s, p, names), names)
dimOperands(k, s, x, names) ==
  IF ~x.c.ok \/ At(s, x.p) \notin Levels[k] THEN x
  ELSE LET y == dimLevel(k + 1, s, x.p + 1, names)
       IN dimOperands(k, s, Folded(cintBinary(s[x.p], x.c, y.c), y.p), names)
dimTernary(s, p, names) ==
  LET c == dimLevel(1, s, p, names)
  IN IF ~c.c.ok \/ At(s, c.p) # "?" THEN c
     ELSE LET x == dimTernary(s, c.p + 1, names)
              y == dimTernary(s, x.p + 1, names)
          IN IF ~x.c.ok \/ At(s, x.p) # ":" \/ ~y.c.ok THEN Folded(NoValue, y.p)
             ELSE Folded(cintArm(c.c, x.c, y.c), y.p)
foldDim(s, names) ==
  LET x == dimTernary(s, 1, names) IN IF x.p = Len(s) + 1 THEN x.c ELSE NoValue

-----------------------------------------------------------------------------
\* The checker's fold of an expression.
RECURSIVE foldConstIntT(_)
foldLogical(op, x, r) ==
  CASE ~x.ok -> NoValue
    [] x.ok /\ (op = "&&") = (x.v = 0) -> Truth(op = "||")
    [] OTHER -> LET y == foldConstIntT(r) IN IF y.ok THEN Truth(y.v # 0) ELSE NoValue
foldTernary(c, x, y) ==
  CASE ~c.ok -> NoValue
    [] c.ok /\ x.ok /\ y.ok -> cintArm(c, x, y)
    [] OTHER -> IF c.v # 0 THEN x ELSE y
foldConstIntT(e) ==
  CASE e.k = "lit" -> cintLiteral(Literal[e.n])
    [] e.k = "neg" -> cintUnary("-", cintLiteral(Literal[e.n]))
    [] e.k = "name" -> cintCast(Consts[e.n].type, Initial(e.n))
    [] e.k = "un" -> cintUnary(e.op, foldConstIntT(e.kids[1]))
    [] e.k = "bin" /\ e.op \in {"&&", "||"} -> foldLogical(e.op, foldConstIntT(e.kids[1]), e.kids[2])
    [] e.k = "bin" /\ e.op \notin {"&&", "||"} -> cintBinary(e.op, foldConstIntT(e.kids[1]), foldConstIntT(e.kids[2]))
    [] e.k = "cond" -> foldTernary(foldConstIntT(e.kids[1]), foldConstIntT(e.kids[2]), foldConstIntT(e.kids[3]))
    [] e.k = "cast" -> cintCast(e.op, foldConstIntT(e.kids[1]))

\* The dimension as the checker and as the generator fold it: what each makes of a const.
checkArrayDim(s) == foldDim(s, [n \in DOMAIN Consts |-> Word(Initial(n))])
resolveArrayDim(s) == foldDim(s, [n \in DOMAIN Consts |-> Word(cintCast(Consts[n].type, Initial(n)))])

-----------------------------------------------------------------------------
\* The types: the checker's table, and what the generator derives where there is no table
\* (inst: the body of a template's instance).
IntType(v) == IF v \in -(2 ^ (IntBits - 1)) .. 2 ^ (IntBits - 1) - 1 THEN "int"
              ELSE IF v < 2 ^ (LongBits - 1) THEN "int64" ELSE "uint64"
Named(w, uns) == IF w = LongBits THEN (IF uns THEN "uint64" ELSE "int64") ELSE IF uns THEN "uint" ELSE "int"
intPromoted(t) == IF W[t] < IntBits THEN "int" ELSE t
promoteType(a, b) ==
  IF Unsigned(a) = Unsigned(b) THEN Named(IF W[a] > W[b] THEN W[a] ELSE W[b], Unsigned(a))
  ELSE LET wu == IF Unsigned(a) THEN W[a] ELSE W[b]
           ws == IF Unsigned(a) THEN W[b] ELSE W[a]
       IN IF wu >= ws THEN Named(wu, TRUE) ELSE Named(ws, FALSE)

inferBinary(op, a, b) ==
  CASE op \in Comparisons \cup {"&&", "||"} -> "bool"
    [] op \in {"<<", ">>"} -> intPromoted(a)
    [] OTHER -> promoteType(intPromoted(a), intPromoted(b))
\* The generator's own copy of it.
builtinBinaryType(op, l, r) ==
  LET a == intPromoted(l)
      b == intPromoted(r)
  IN IF op \in Comparisons \cup {"&&", "||"} THEN "bool"
     ELSE IF op \in {"<<", ">>"} \/ a = b THEN a ELSE promoteType(a, b)
inferUnary(op, t) == IF op = "!" THEN "bool" ELSE intPromoted(t)
inferArms(a, b) == IF a = b THEN a ELSE promoteType(intPromoted(a), intPromoted(b))

RECURSIVE getExprEskiuType(_, _)
getExprEskiuType(e, inst) ==
  CASE e.k \in {"lit", "neg"} -> IF inst THEN "int" ELSE IntType(IF e.k = "neg" THEN -Literal[e.n] ELSE Literal[e.n])
    [] e.k = "name" -> Consts[e.n].type
    [] e.k = "cast" -> e.op
    [] e.k = "un" -> inferUnary(e.op, getExprEskiuType(e.kids[1], inst))
    [] e.k = "bin" /\ ~inst -> inferBinary(e.op, getExprEskiuType(e.kids[1], inst), getExprEskiuType(e.kids[2], inst))
    [] e.k = "bin" /\ inst -> builtinBinaryType(e.op, getExprEskiuType(e.kids[1], inst), getExprEskiuType(e.kids[2], inst))
    [] e.k = "cond" -> inferArms(getExprEskiuType(e.kids[2], inst), getExprEskiuType(e.kids[3], inst))

\* The checker's errors: a divisor that folds to zero, the overflow of a division, and a
\* shift count out of range, evaluated or not.
truncConstInt(t, v) == IF Unsigned(t) THEN v % 2 ^ W[t] ELSE Signed(v, W[t])
divides(op, t, x, y) ==
  y.ok /\ (truncConstInt(t, y.v) = 0
             \/ (~Unsigned(t) /\ truncConstInt(t, y.v) = -1 /\ x.ok /\ truncConstInt(t, x.v) = -(2 ^ (W[t] - 1))))
errorAt(op, t, x, y) ==
  \/ op \in {"/", "%"} /\ divides(op, t, x, y)
  \/ op \in {"<<", ">>"} /\ y.ok /\ Word(y) \notin 0 .. W[t] - 1
RECURSIVE Rejected(_)
Rejected(e) ==
  \/ \E i \in DOMAIN e.kids : Rejected(e.kids[i])
  \/ e.k = "bin" /\ errorAt(e.op, getExprEskiuType(e, FALSE), foldConstIntT(e.kids[1]), foldConstIntT(e.kids[2]))

-----------------------------------------------------------------------------
\* The generated code: a value is its bits and their width; ok is FALSE where it is undefined.
Bit(b, w) == [ok |-> TRUE, b |-> b % 2 ^ w, w |-> w]
Poison == [ok |-> FALSE, b |-> 0, w |-> IntBits]
emitTruthy(x) == [x EXCEPT !.b = OneIf(x.b # 0), !.w = 1]
Extended(x, w, uns) == [x EXCEPT !.b = (IF uns THEN x.b ELSE Signed(x.b, x.w)) % 2 ^ w, !.w = w]
coerceInt(x, w, uns) ==
  CASE w = x.w -> x
    [] w = 1 /\ x.w # 1 -> emitTruthy(x)
    [] OTHER -> Extended(x, w, uns)
Promote(x, uns) == IF x.w < IntBits THEN Extended(x, IntBits, uns) ELSE x

emitShift(op, x, n, uns) ==
  IF n >= x.w THEN Poison
  ELSE Bit(IF op = "<<" THEN x.b * 2 ^ n ELSE (IF uns THEN x.b ELSE Signed(x.b, x.w)) \div 2 ^ n, x.w)
emitDivide(op, a, b, w) ==
  IF b = 0 \/ (a = -(2 ^ (w - 1)) /\ b = -1) THEN Poison
  ELSE Bit(IF op = "/" THEN Quotient(a, b) ELSE Remainder(a, b), w)
emitMeet(op, a, b, w) ==
  CASE op \in Comparisons -> Bit(OneIf(Compare(op, a, b)), 1)
    [] op \in {"/", "%"} -> emitDivide(op, a, b, w)
    [] op \in {"&", "|", "^"} -> Bit(BitsOf(op, a % 2 ^ w, b % 2 ^ w), w)
    [] OTHER -> Bit(Sum(op, a, b), w)
As(x, uns) == IF uns THEN x.b ELSE Signed(x.b, x.w)
emitWidened(op, x, y, w, xu, yu, uns) ==
  IF x.ok /\ y.ok THEN emitMeet(op, As(Extended(x, w, xu), uns), As(Extended(y, w, yu), uns), w) ELSE Poison
opUnsigned(x, y, xu, yu) == IF xu = yu THEN xu ELSE IF xu THEN x.w >= y.w ELSE y.w >= x.w
emitPromoted(op, x, y, xu, yu) ==
  IF op \in {"<<", ">>"} THEN IF x.ok /\ y.ok THEN emitShift(op, x, y.b % 2 ^ x.w, xu) ELSE Poison
  ELSE emitWidened(op, x, y, IF x.w < y.w THEN y.w ELSE x.w, xu, yu, opUnsigned(x, y, xu, yu))
emitBuiltinBinary(op, x, y, xu, yu) ==
  emitPromoted(op, Promote(x, xu), Promote(y, yu), xu /\ x.w >= IntBits, yu /\ y.w >= IntBits)

emitUnary(op, x, uns) ==
  CASE op = "!" -> [x EXCEPT !.b = OneIf(x.b = 0), !.w = 1]
    [] op = "-" -> LET v == Promote(x, uns) IN [v EXCEPT !.b = (-v.b) % 2 ^ v.w]
    [] op = "~" -> LET v == Promote(x, uns) IN [v EXCEPT !.b = 2 ^ v.w - 1 - v.b]
    [] op = "+" -> Promote(x, uns)

RECURSIVE evaluateExpr(_, _)
emitLogical(op, x, r, inst) ==
  IF ~x.ok \/ (x.b = 0) = (op = "&&") THEN x ELSE emitTruthy(evaluateExpr(r, inst))
emitLit(v) == Bit(v, IF IntType(v) = "int" THEN IntBits ELSE LongBits)
evaluateExpr(e, inst) ==
  LET uns(i) == Unsigned(getExprEskiuType(e.kids[i], inst))
      kid(i) == evaluateExpr(e.kids[i], inst)
  IN CASE e.k = "lit" -> emitLit(Literal[e.n])
       [] e.k = "neg" -> emitLit(-Literal[e.n])
       [] e.k = "name" -> coerceInt(emitLit(Literal[Consts[e.n].init]), W[Consts[e.n].type], FALSE)
       [] e.k = "cast" -> coerceInt(kid(1), W[e.op], uns(1))
       [] e.k = "un" -> emitUnary(e.op, kid(1), uns(1))
       [] e.k = "bin" /\ e.op \in {"&&", "||"} -> emitLogical(e.op, emitTruthy(kid(1)), e.kids[2], inst)
       [] e.k = "bin" /\ e.op \notin {"&&", "||"} -> emitBuiltinBinary(e.op, kid(1), kid(2), uns(1), uns(2))
       [] e.k = "cond" ->
            LET c == emitTruthy(kid(1))
                i == IF c.b # 0 THEN 2 ELSE 3
            IN IF c.ok THEN coerceInt(kid(i), W[getExprEskiuType(e, inst)], uns(i)) ELSE Poison

\* The value of an expression as foldViaCodegen has it: read with its own type.
foldViaCodegen(e, inst) ==
  LET x == evaluateExpr(e, inst)
  IN [ok |-> x.ok, v |-> As(x, Unsigned(getExprEskiuType(e, inst))), w |-> x.w]

-----------------------------------------------------------------------------
\* C. The types an operation has are ordered, an operation has the larger one of its operands',
\* and a value is converted to the one in its type's range that is congruent to it. pp: an #if,
\* where there is the largest type only.
CTypes == <<"int", "uint", "int64", "uint64">>
RankOf(t) == CHOOSE i \in DOMAIN CTypes : CTypes[i] = t
CPromoted(t) == IF \E i \in DOMAIN CTypes : CTypes[i] = t THEN t ELSE "int"
CCommon(a, b) == CTypes[IF RankOf(a) > RankOf(b) THEN RankOf(a) ELSE RankOf(b)]
CRange(t) == IF Unsigned(t) THEN 0 .. 2 ^ W[t] - 1 ELSE -(2 ^ (W[t] - 1)) .. 2 ^ (W[t] - 1) - 1
CIn(v, t) == IF t = "bool" THEN OneIf(v # 0) ELSE CHOOSE u \in CRange(t) : (u - v) % 2 ^ W[t] = 0
CVal(ok, v, t) == [ok |-> ok, v |-> IF ok THEN CIn(v, t) ELSE 0, t |-> t]
CConverted(x, t) == IF x.t = t THEN x ELSE CVal(x.ok, x.v, t)

Digit(v, i) == (v \div 2 ^ i) % 2 = 1
Meets(op, x, y) == CASE op = "&" -> x /\ y [] op = "|" -> x \/ y [] op = "^" -> x # y
CBits(op, a, b, t) ==
  CHOOSE u \in CRange(t) : \A i \in 0 .. W[t] - 1 : Digit(u, i) = Meets(op, Digit(a, i), Digit(b, i))
CQuotient(a, b) == CHOOSE q \in -Abs(a) .. Abs(a) : Abs(a - b * q) < Abs(b) /\ a * (a - b * q) >= 0
CShifted(a, n) == CHOOSE q \in -Abs(a) .. Abs(a) : q * 2 ^ n <= a /\ a < (q + 1) * 2 ^ n

CDefined(op, a, b, t) ==
  CASE op \in {"/", "%"} -> b # 0 /\ CQuotient(a, b) \in CRange(t)
    [] op \in {"<<", ">>"} -> b \in 0 .. W[t] - 1
    [] OTHER -> TRUE
CResult(op, a, b, t) ==
  CASE op \in {"+", "-", "*"} -> Sum(op, a, b)
    [] op = "/" -> CQuotient(a, b)
    [] op = "%" -> a - b * CQuotient(a, b)
    [] op = "<<" -> a * 2 ^ b
    [] op = ">>" -> CShifted(a, b)
    [] op \in {"&", "|", "^"} -> CBits(op, a, b, t)
CTruth(x, b, pp) == CVal(x, OneIf(b), IF pp THEN "int64" ELSE "int")
COperated(op, x, y) ==
  LET ok == x.ok /\ y.ok /\ CDefined(op, x.v, y.v, x.t)
  IN CVal(ok, IF ok THEN CResult(op, x.v, y.v, x.t) ELSE 0, x.t)
CMeet(op, x, y, t, pp) ==
  CASE op \in {"<<", ">>"} -> COperated(op, x, y)
    [] op \in Comparisons -> CTruth(x.ok /\ y.ok, Compare(op, CConverted(x, t).v, CConverted(y, t).v), pp)
    [] OTHER -> COperated(op, CConverted(x, t), CConverted(y, t))
CEither(op, x, y, pp) ==
  CTruth(x.ok /\ (y.ok \/ (x.v # 0) = (op = "||")),
         IF op = "&&" THEN x.v # 0 /\ y.v # 0 ELSE x.v # 0 \/ y.v # 0, pp)
CUnary(op, x, pp) ==
  CASE op = "!" -> CTruth(x.ok, x.v = 0, pp)
    [] op = "~" -> CVal(x.ok, -1 - x.v, x.t)
    [] op = "-" -> CVal(x.ok, -x.v, x.t)
    [] op = "+" -> x
CChosen(c, x, y, t) == LET a == IF c.v # 0 THEN x ELSE y IN CVal(c.ok /\ a.ok, a.v, t)
CLiteral(v, pp) == CVal(TRUE, v, IF pp THEN "int64" ELSE IntType(v))
PPMacros == [P |-> [fn |-> FALSE, params |-> <<>>, body |-> <<"3">>]]

RECURSIVE CValue(_, _)
CValue(e, pp) ==
  LET kid(i) == CValue(e.kids[i], pp)
  IN CASE e.k = "lit" -> CLiteral(Literal[e.n], pp)
       [] e.k = "neg" -> CUnary("-", CLiteral(Literal[e.n], pp), pp)
       [] e.k = "name" /\ ~pp -> CVal(TRUE, Literal[Consts[e.n].init], CPromoted(Consts[e.n].type))
       [] e.k = "name" /\ pp -> CLiteral(IF e.n \in DOMAIN PPMacros THEN Literal[PPMacros[e.n].body[1]] ELSE 0, pp)
       [] e.k = "defined" -> CTruth(TRUE, e.n \in DOMAIN PPMacros, pp)
       [] e.k = "cast" -> CConverted(CConverted(kid(1), e.op), CPromoted(e.op))
       [] e.k = "un" -> CUnary(e.op, kid(1), pp)
       [] e.k = "bin" /\ e.op \in {"&&", "||"} -> CEither(e.op, kid(1), kid(2), pp)
       [] e.k = "bin" /\ e.op \notin {"&&", "||"} ->
            CMeet(e.op, kid(1), kid(2), CCommon(CValue(e.kids[1], pp).t, CValue(e.kids[2], pp).t), pp)
       [] e.k = "cond" -> CChosen(kid(1), kid(2), kid(3), CCommon(CValue(e.kids[2], pp).t, CValue(e.kids[3], pp).t))

\* The text of an expression, with the parentheses C's precedences ask for.
Level(op) == CHOOSE k \in DOMAIN Levels : op \in Levels[k]
Tightness(e) == CASE e.k = "cond" -> 0 [] e.k = "bin" -> Level(e.op) [] OTHER -> Len(Levels) + 1
RECURSIVE Render(_, _)
Plain(e) ==
  LET kid(i, k) == Render(e.kids[i], k)
      top == Len(Levels) + 1
  IN CASE e.k \in {"lit", "name"} -> <<e.n>>
       [] e.k = "neg" -> <<"-", e.n>>
       [] e.k = "defined" -> <<"defined", "(", e.n, ")">>
       [] e.k = "cast" -> <<"(", e.op, ")">> \o kid(1, top)
       [] e.k = "un" -> <<e.op>> \o kid(1, top)
       [] e.k = "bin" -> kid(1, Level(e.op)) \o <<e.op>> \o kid(2, Level(e.op) + 1)
       [] e.k = "cond" -> kid(1, 1) \o <<"?">> \o kid(2, 0) \o <<":">> \o kid(3, 0)
Render(e, k) == IF Tightness(e) < k THEN <<"(">> \o Plain(e) \o <<")">> ELSE Plain(e)

\* What the four make of one expression.
Evaluated(e) ==
  [rejected |-> Rejected(e), fold |-> foldConstIntT(e), type |-> getExprEskiuType(e, FALSE),
   checked |-> checkArrayDim(Render(e, 0)), resolved |-> resolveArrayDim(Render(e, 0)),
   emitted |-> foldViaCodegen(e, FALSE), instance |-> foldViaCodegen(e, TRUE)]

\* In an instance the generator types a literal too wide for an int as an int, and gives a
\* conditional the type of its first arm and a unary plus none: those stay out.
RECURSIVE InInstances(_)
InInstances(e) ==
  /\ e.k \in {"lit", "neg"} => Literal[e.n] < 2 ^ (IntBits - 1)
  /\ e.k # "cond" /\ ~(e.k = "un" /\ e.op = "+")
  /\ \A i \in DOMAIN e.kids : InInstances(e.kids[i])
RECURSIVE AllDefined(_)
AllDefined(e) == CValue(e, FALSE).ok /\ \A i \in DOMAIN e.kids : AllDefined(e.kids[i])

IfAsC(e, res) == LET c == CValue(e, TRUE) IN res = IF c.ok THEN <<c.v>> ELSE <<>>
ValuesAsC(e, res) ==
  LET c == CValue(e, FALSE)
      same(x) == x.ok /\ x.v = c.v /\ x.w = W[c.t] /\ x.uns = Unsigned(c.t)
  IN /\ res.rejected = ~AllDefined(e)
     /\ ~res.rejected =>
          /\ same(res.fold) /\ same(res.checked) /\ same(res.resolved)
          /\ intPromoted(res.type) = c.t
          /\ res.emitted.ok /\ res.emitted.v = c.v
          /\ InInstances(e) => res.instance.ok /\ res.instance.v = c.v
=============================================================================
