------------------------------- MODULE Syntax -------------------------------
(***************************************************************************)
(* The parser (parser.cpp, parse_expr.cpp, parse_stmt.cpp, parse_decl.cpp) *)
(* from tokens to trees. A token is its spelling and a tree a tuple headed *)
(* by its kind. Every parsing function takes a state of the parser and     *)
(* returns a tree and the state after it; a syntax error is a state that   *)
(* is not ok. The state also carries what decides between two readings of  *)
(* the same tokens: the names of types, generics and local variables.      *)
(* Positions, wording, the nesting limits, `asm` and `#pragma` are left    *)
(* out. A production is a tuple that parse interprets, and a function that *)
(* only consumes one production after another is their sequence.           *)
(***************************************************************************)
EXTENDS Integers, Sequences, FiniteSets, SequencesExt, TLC

Prims == {"int", "int64", "uint8", "double", "bool", "char", "string", "void"}
Ints == {"0", "1", "2", "3"}
Floats == {"1.5"}
Strings == {"\"s\"", "\"t\""}
Literals == Ints \cup Floats \cup {"'c'", "true", "false", "null"}
Keywords ==
  {"let", "const", "volatile", "static", "async", "await", "escaping", "must_use", "struct", "packed", "union",
   "interface", "enum", "fn", "if", "else", "while", "do", "for", "in", "switch", "match", "case", "default",
   "break", "continue", "return", "import", "extern", "intrinsic", "sizeof", "alloc_with", "free_closure",
   "thread_create", "thread_join", "try", "catch", "finally", "throw", "defer", "errdefer", "operator"}
Openers == {"(", "[", "{"}
Closers == {")", "]", "}"}
Marks == Openers \cup Closers \cup
  {";", ",", ".", "..", "...", ":", "->", "?", "+", "-", "*", "/", "%", "++", "--", "=", "+=", "-=", "*=", "==", "!=",
   "<", ">", "<=", ">=", "&&", "||", "!", "&", "|", "^", "~", "<<", ">>", "<<=", ">>=", "eof"}
IsIdent(x) == x \notin Prims \cup Literals \cup Strings \cup Keywords \cup Marks

-----------------------------------------------------------------------------
\* The state: the text and the columns of its tokens (tops: those in the first), the
\* position, whether the first > of a >> there has been consumed, what is declared.
Start(text, tops, types, generics, imported) ==
  [t |-> text, tops |-> tops, p |-> 1, half |-> FALSE, ok |-> TRUE, types |-> types, generics |-> generics,
   params |-> <<>>, locals |-> <<>>, noStructLiteral |-> FALSE, imported |-> imported]

Tok(s) == IF s.p > Len(s.t) THEN "eof" ELSE IF s.half THEN ">" ELSE s.t[s.p]
Peek(s, k) == IF s.p + k > Len(s.t) THEN "eof" ELSE s.t[s.p + k]
Is(s, x) == s.ok /\ Tok(s) = x
IsIn(s, X) == s.ok /\ Tok(s) \in X
AtName(s) == s.ok /\ IsIdent(Tok(s))
Step(s) == [s EXCEPT !.p = @ + 1, !.half = FALSE]
Skip(s, n) == [s EXCEPT !.p = @ + n]
Fail(s) == [s EXCEPT !.ok = FALSE]
Need(s, x) == IF Is(s, x) THEN Step(s) ELSE Fail(s)
R(v, s) == [v |-> v, s |-> s]
identifier(s) == R(Tok(s), IF AtName(s) THEN Step(s) ELSE Fail(s))

\* Backtracking to s after the attempt r: the position and a split >> are undone, what
\* the attempt declared globally is not.
Back(s, r) == [s EXCEPT !.types = r.s.types, !.generics = r.s.generics]

isTypeName(s, n) == n \in s.types \/ Contains(s.params, n)
isLocalVar(s, n) == Contains(s.locals, n)

\* Mutant of consumeTemplateClose: a >> closes one list and is gone.
wholeShift(s) == IF Is(s, ">") \/ Is(s, ">>") THEN Step(s) ELSE Fail(s)

\* The > that closes a list of type arguments, also the first half of a >>.
consumeTemplateClose(s) ==
  IF Is(s, ">") THEN Step(s) ELSE IF Is(s, ">>") THEN [s EXCEPT !.half = TRUE] ELSE Fail(s)

-----------------------------------------------------------------------------
\* Productions. Of a sequence the tokens leave no tree.

RECURSIVE parse(_, _)

T(x) == <<"token", x>>
Flag(x) == <<"flag", x>>                           \* x or nothing
Opt(x, rules) == <<"optional", x, rules>>          \* x and what it introduces, or nothing
Many(rule, ends) == <<"many", rule, ends>>         \* up to one of ends
Items(kind) == <<"items", kind>>                   \* one or more, with commas
List(kind, end) == <<"list", kind, end>>           \* any number, and the closing token
Until(end) == <<"until", end>>                     \* an expression or nothing, and end
Plain(kind) == <<kind>>

Name == Plain("name")    Ty == Plain("type")     E == Plain("expression")   U == Plain("unary")
S == Plain("statement")  B == Plain("block")     D == Plain("declaration")  BlockItem == Plain("item")

RECURSIVE Ordered(_, _)
Ordered(rules, s) ==
  IF rules = <<>> THEN R(<<>>, s)
  ELSE LET h == parse(Head(rules), s)
           r == Ordered(Tail(rules), h.s)
       IN R((IF Head(rules)[1] = "token" THEN <<>> ELSE <<h.v>>) \o r.v, r.s)

Node(kind, r) == R(<<kind>> \o r.v, r.s)

RECURSIVE Repeat(_, _, _)
Repeat(rule, ends, s) ==
  IF ~s.ok \/ Tok(s) \in ends \cup {"eof"} THEN R(<<>>, s)
  ELSE LET i == parse(rule, s)
           r == Repeat(rule, ends, i.s)
       IN R(<<i.v>> \o r.v, r.s)

\* Literals and the members of an enum may end in a comma; after `...` there is no parameter.
RECURSIVE Separated(_, _)
Separated(kind, s) ==
  LET e == parse(Plain(kind), s)
      r == Separated(kind, Step(e.s))
  IN IF ~Is(e.s, ",") \/ (kind = "param" /\ Is(s, "...")) THEN R(<<e.v>>, e.s)
     ELSE IF kind \in {"field", "element", "variant", "gvariant"} /\ Is(Step(e.s), "}") THEN R(<<e.v>>, Step(e.s))
     ELSE R(<<e.v>> \o r.v, r.s)

Listed(kind, end, s) ==
  IF Is(s, end) THEN R(<<>>, Step(s)) ELSE LET l == parse(Items(kind), s) IN R(l.v, Need(l.s, end))

OrNothing(end, s) ==
  IF Is(s, end) THEN R(<<>>, Step(s)) ELSE LET e == parse(E, s) IN R(<<e.v>>, Need(e.s, end))

-----------------------------------------------------------------------------
\* Types, as their spelling.

RECURSIVE LeadingStars(_)
LeadingStars(s) ==
  IF ~Is(s, "*") THEN R(<<>>, s)
  ELSE LET q == Peek(s, 1) = "?" /\ Peek(s, 2) = "*"
           r == LeadingStars(IF q THEN Skip(s, 2) ELSE Step(s))
       IN R((IF q THEN <<"*", "?">> ELSE <<"*">>) \o r.v, r.s)

RECURSIVE TrailingStars(_)
TrailingStars(s) ==
  IF ~Is(s, "*") THEN R(<<>>, s)
  ELSE LET const == Peek(s, 1) = "const"
           r == TrailingStars(IF const THEN Skip(s, 2) ELSE Step(s))
       IN R((IF const THEN <<"*", "const">> ELSE <<"*">>) \o r.v, r.s)

RECURSIVE Dimensions(_)
Dimensions(s) ==
  IF ~Is(s, "[") THEN R(<<>>, s)
  ELSE LET ends == {i \in s.p .. Len(s.t) : s.t[i] = "]"}
           e == CHOOSE i \in ends : \A j \in ends : i <= j
           r == Dimensions(Skip(s, e + 1 - s.p))
       IN IF ends = {} THEN R(<<>>, Fail(s)) ELSE R(SubSeq(s.t, s.p, e) \o r.v, r.s)

Commas(ts) == FlattenSeq([i \in DOMAIN ts |-> IF i = 1 THEN ts[i] ELSE <<",">> \o ts[i]])
Instance(name, args) == <<name, "<">> \o Commas(args) \o <<">">>

baseType(s) ==
  LET l == Ordered(<<Items("type"), Plain("close")>>, Skip(s, 2))
  IN IF IsIn(s, Prims) \/ (AtName(s) /\ Peek(s, 1) # "<") THEN R(<<Tok(s)>>, Step(s))
     ELSE IF AtName(s) THEN R(Instance(Tok(s), l.v[1]), l.s)
     ELSE R(<<>>, Fail(s))

\* After the prefix: its `?`, `const` and stars. `?` before `fn` is dropped.
TypeAfter(prefix) ==
  LET fn == Ordered(<<T("fn"), T("("), List("type", ")"), T("->"), Ty>>, prefix.s)
      ty == Ordered(<<Plain("base"), Plain("stars"), Plain("dims")>>, prefix.s)
  IN IF Is(prefix.s, "fn")
     THEN R(prefix.v[2] \o prefix.v[3] \o <<"fn", "(">> \o Commas(fn.v[1]) \o <<")", "->">> \o fn.v[2], fn.s)
     ELSE R(FlattenSeq(prefix.v \o ty.v), ty.s)

parseType(s) == TypeAfter(Ordered(<<Flag("?"), Flag("const"), Plain("leading")>>, s))

parseParameter(s) ==
  IF Is(s, "...") THEN R(<<"...", <<"...">>, <<>>>>, Step(s))
  ELSE LET p == Ordered(<<Flag("escaping"), Ty, Name>>, s) IN R(<<p.v[3], p.v[2], p.v[1]>>, p.s)

\* A type argument that cannot be an expression: an instance, a function type, or a
\* spelling over a primitive or a declared type.
RECURSIVE BareBase(_)
BareBase(t) ==
  IF t = <<>> THEN "" ELSE IF Head(t) \in {"?", "*", "const"} THEN BareBase(Tail(t)) ELSE Head(t)

typeArgIsEvident(s, t) ==
  Contains(t, "<") \/ Contains(t, "(") \/ BareBase(t) \in Prims \/ isTypeName(s, BareBase(t))

-----------------------------------------------------------------------------
\* Expressions.

Compound == [op \in {"+=", "-=", "*=", "<<=", ">>="} |->
  CASE op = "+=" -> "+" [] op = "-=" -> "-" [] op = "*=" -> "*" [] op = "<<=" -> "<<" [] op = ">>=" -> ">>"]

\* Mutant of binaryPrecedence: bit operators bind tighter than the comparisons.
bitsFirst(op) ==
  CASE op = "||" -> 1 [] op = "&&" -> 2 [] op \in {"==", "!="} -> 3 [] op \in {"<", ">", "<=", ">="} -> 4
    [] op = "|" -> 5 [] op = "^" -> 6 [] op = "&" -> 7 [] op \in {"<<", ">>"} -> 8 [] op \in {"+", "-"} -> 9
    [] op \in {"*", "/", "%"} -> 10 [] OTHER -> 0

binaryPrecedence(op) ==
  CASE op = "||" -> 1 [] op = "&&" -> 2 [] op = "|" -> 3 [] op = "^" -> 4 [] op = "&" -> 5
    [] op \in {"==", "!="} -> 6 [] op \in {"<", ">", "<=", ">="} -> 7 [] op \in {"<<", ">>"} -> 8
    [] op \in {"+", "-"} -> 9 [] op \in {"*", "/", "%"} -> 10 [] OTHER -> 0

\* Does a `:` follow position i before the end of the operand? Groups are jumped over.
RECURSIVE ColonFrom(_, _)
ColonFrom(t, i) ==
  IF i > Len(t) \/ t[i] \in Closers \cup {";", ",", "eof"} THEN FALSE
  ELSE IF t[i] = ":" THEN TRUE
  ELSE IF t[i] \notin Openers THEN ColonFrom(t, i + 1)
  ELSE LET Depth(j) == Cardinality({k \in i .. j : t[k] \in Openers}) - Cardinality({k \in i .. j : t[k] \in Closers})
           ends == {j \in i .. Len(t) : Depth(j) = 0}
       IN ends # {} /\ ColonFrom(t, 1 + CHOOSE j \in ends : \A k \in ends : j <= k)

\* Mutant of ternaryColonAhead: any `?` before the end of an operand opens a ternary.
ternaryAlways(s) == Peek(s, 1) \notin Closers \cup {";", ",", "eof"}

ternaryColonAhead(s) == ColonFrom(s.t, s.p + 1)

Assign(op, l, r) == <<"bin", "=", l, IF op = "=" THEN r ELSE <<"bin", Compound[op], l, r>>>>

RECURSIVE parseBinary(_, _)
RECURSIVE Climb(_, _)
Climb(l, min) ==
  LET prec == IF l.s.ok THEN binaryPrecedence(Tok(l.s)) ELSE 0
      r == parseBinary(Step(l.s), prec + 1)
  IN IF prec = 0 \/ prec < min THEN l ELSE Climb(R(<<"bin", Tok(l.s), l.v, r.v>>, r.s), min)

parseBinary(s, min) == Climb(parse(U, s), min)

TernaryAfter(c) ==
  LET r == Ordered(<<T("?"), E, T(":"), Plain("ternary")>>, c.s) IN R(<<"tern", c.v>> \o r.v, r.s)

parseTernary(s) ==
  LET c == parseBinary(s, 1) IN IF Is(c.s, "?") /\ ternaryColonAhead(c.s) THEN TernaryAfter(c) ELSE c

AssignmentAfter(l) ==
  IF ~IsIn(l.s, DOMAIN Compound \cup {"="}) THEN l
  ELSE LET r == parse(E, Step(l.s)) IN R(Assign(Tok(l.s), l.v, r.v), r.s)

parseAssignment(s) == AssignmentAfter(parse(Plain("ternary"), s))

\* Mutant of isShadowed: a local does not hide a type.
neverShadowed(s, n) == FALSE

isShadowed(s, n) == isLocalVar(s, n)

\* At `(*`: a cast unless it is a bare unknown name and no operand follows.
starParenIsCast(s) ==
  LET k == CHOOSE i \in 1 .. Len(s.t) + 1 : Peek(s, i) # "*" /\ \A j \in 1 .. i - 1 : Peek(s, j) = "*"
  IN \/ ~IsIdent(Peek(s, k)) \/ Peek(s, k + 1) # ")" \/ isTypeName(s, Peek(s, k))
     \/ IsIdent(Peek(s, k + 2)) \/ Peek(s, k + 2) \in Literals \cup Strings \cup {"!", "~", "sizeof"}

CastAhead(s) ==
  LET inner == Peek(s, 1)
  IN \/ inner \in Prims
     \/ inner = "*" /\ starParenIsCast(s)
     \/ IsIdent(inner) /\ isTypeName(s, inner) /\ ~isShadowed(s, inner)

\* Does a lambda start at i: a type, a parenthesis without braces, a block?
At(t, i) == IF i > Len(t) THEN "eof" ELSE t[i]
RECURSIVE AfterStars(_, _)
AfterStars(t, i) == IF At(t, i) = "*" THEN AfterStars(t, i + 1) ELSE i
RECURSIVE AfterAngles(_, _, _)
AfterAngles(t, i, d) ==
  IF d = 0 THEN i
  ELSE IF d < 0 \/ ~(At(t, i) \in Prims \cup {"<", ">", ">>", ",", "*", "?"} \/ IsIdent(At(t, i))) THEN 0
  ELSE AfterAngles(t, i + 1, d + (CASE At(t, i) = "<" -> 1 [] At(t, i) = ">" -> -1 [] At(t, i) = ">>" -> -2 [] OTHER -> 0))
RECURSIVE AfterParens(_, _, _)
AfterParens(t, i, d) ==
  IF At(t, i) \in {"{", ";", "eof"} THEN 0
  ELSE LET e == d + (CASE At(t, i) = "(" -> 1 [] At(t, i) = ")" -> -1 [] OTHER -> 0)
       IN IF e = 0 THEN i + 1 ELSE AfterParens(t, i + 1, e)

lambdaAhead(s) ==
  LET b == AfterStars(s.t, IF At(s.t, s.p) = "?" THEN s.p + 1 ELSE s.p)
      a == IF At(s.t, b + 1) = "<" THEN AfterAngles(s.t, b + 2, 1) ELSE b + 1
      o == AfterStars(s.t, a)
  IN /\ IsIdent(At(s.t, b)) \/ At(s.t, b) \in Prims
     /\ a # 0 /\ At(s.t, o) = "("
     /\ AfterParens(s.t, o, 0) # 0 /\ At(s.t, AfterParens(s.t, o, 0)) = "{"

Heads(ts) == [i \in DOMAIN ts |-> ts[i][1]]
Scoped(r, s) == R(r.v, [r.s EXCEPT !.locals = s.locals])
UnderLocals(s, ps) == [s EXCEPT !.locals = @ \o Heads(ps)]

tryParseLambda(s) ==
  LET h == Ordered(<<Ty, T("("), List("param", ")")>>, s)
      b == parse(B, UnderLocals(h.s, h.v[2]))
  IN IF Is(h.s, "{") THEN Scoped(R(<<"lambda", h.v[2], h.v[1], b.v>>, b.s), s) ELSE R(<<>>, Fail(h.s))

Field(s) ==
  IF AtName(s) /\ Peek(s, 1) = ":"
  THEN LET e == parse(E, Skip(s, 2)) IN R(<<Tok(s), e.v>>, e.s)
  ELSE LET e == parse(E, s) IN R(<<"", e.v>>, e.s)

parseStructInit(type, s) ==
  LET l == Ordered(<<T("{"), List("field", "}")>>, s) IN R(<<"init", type>> \o l.v, l.s)

\* Mutant of Templates: what follows a name is a list of types whenever it reads as one.
anyTypes(s, n, args) == TRUE

\* Name<...> is an instance when the name is a known generic or every argument is a type.
Templates(s, n, args) ==
  n \in s.generics \/ isTypeName(s, n) \/ \A i \in DOMAIN args : typeArgIsEvident(s, args[i])

templateUse(n, l) ==
  LET c == IF Templates(l.s, n, l.v) THEN consumeTemplateClose(l.s) ELSE Fail(l.s)
      args == parse(List("expression", ")"), Step(c))
  IN IF Is(c, "(") THEN R(<<"tcall", n, l.v, args.v>>, args.s)
     ELSE IF Is(c, "{") THEN parseStructInit(Instance(n, l.v), c)
     ELSE R(<<>>, Fail(c))

parseSizeof(o) ==
  LET ty == parse(Ty, o)
      e == Ordered(<<E, T(")")>>, Back(o, ty))
      asType == Is(ty.s, ")") /\ (ToSet(ty.v) \cap {"*", "[", "?"} = {} \/ typeArgIsEvident(ty.s, ty.v))
  IN IF asType THEN R(<<"sizeof", ty.v>>, Step(ty.s)) ELSE Node("sizeofe", e)

RECURSIVE StringRun(_)
StringRun(s) ==
  IF ~IsIn(s, Strings) THEN R(<<>>, s) ELSE LET r == StringRun(Step(s)) IN R(<<Tok(s)>> \o r.v, r.s)

\* Mutant of StructFollows: a brace after a name always opens a struct literal.
braceOpensStruct(s) == Is(s, "{")

\* In the subject of a match the brace after a name opens the body.
StructFollows(s) == Is(s, "{") /\ ~s.noStructLiteral

parsePrimary(s) ==
  CASE Is(s, "{") -> Node("array", Ordered(<<T("{"), List("element", "}")>>, s))
    [] IsIn(s, Literals) -> R(<<"lit", <<Tok(s)>>>>, Step(s))
    [] IsIn(s, Strings) -> LET r == StringRun(s) IN R(<<"lit", r.v>>, r.s)
    [] Is(s, "alloc_with") -> Node("alloc_with", Ordered(<<T("("), E, T(","), Ty, T(","), E, T(")")>>, Step(s)))
    [] Is(s, "sizeof") -> parseSizeof(Need(Step(s), "("))
    [] IsIn(s, {"free_closure", "thread_create"}) -> Node(Tok(s), Ordered(<<T("("), E, T(")")>>, Step(s)))
    [] IsIn(s, Prims) /\ Peek(s, 1) = "(" -> tryParseLambda(s)
    [] AtName(s) /\ StructFollows(Step(s)) -> parseStructInit(<<Tok(s)>>, Step(s))
    [] AtName(s) /\ ~StructFollows(Step(s)) -> R(<<"id", Tok(s)>>, Step(s))
    [] Is(s, "(") -> LET r == Ordered(<<T("("), E, T(")")>>, s) IN R(r.v[1], r.s)
    [] OTHER -> R(<<>>, Fail(s))

HasPostfix(s) == IsIn(s, {"(", "[", ".", "++", "--"}) \/ (Is(s, "?") /\ ~ternaryColonAhead(s))

memberName(s) == R(Tok(s), IF AtName(s) \/ IsIn(s, Prims \cup Keywords) THEN Step(s) ELSE Fail(s))

PostfixOp(e) ==
  LET rules == CASE Is(e.s, "(") -> <<T("("), List("expression", ")")>>
                 [] Is(e.s, "[") -> <<T("["), E, Opt("..", <<E>>), T("]")>>
                 [] Is(e.s, ".") -> <<T("."), Plain("memberName")>>
                 [] OTHER -> <<T(Tok(e.s))>>
      kind == CASE Is(e.s, "(") -> "call" [] Is(e.s, "[") -> "index" [] Is(e.s, ".") -> "member"
                [] Is(e.s, "?") -> "?" [] OTHER -> "post" \o Tok(e.s)
      r == Ordered(rules, e.s)
  IN R(<<kind, e.v>> \o r.v, r.s)

RECURSIVE Postfixes(_), AfterTemplate(_, _)
AfterTemplate(e, u) == IF u.s.ok THEN Postfixes(u) ELSE R(e.v, Back(e.s, u))
Postfixes(e) ==
  IF Is(e.s, "<") /\ e.v[1] = "id" THEN AfterTemplate(e, templateUse(e.v[2], parse(Items("type"), Step(e.s))))
  ELSE IF HasPostfix(e.s) THEN Postfixes(PostfixOp(e)) ELSE e

parsePostfix(s) == Postfixes(parsePrimary(s))

UnaryOf(s) ==
  LET cast == Ordered(<<T("("), Ty, T(")"), U>>, s)
      isCast == Is(s, "(") /\ CastAhead(s)
      u == parse(U, Step(s))
  IN IF Is(s, "-") /\ Peek(s, 1) \in Ints \cup Floats THEN R(<<"lit", <<"-", Peek(s, 1)>>>>, Skip(s, 2))
     ELSE IF IsIn(s, {"++", "--", "!", "-", "+", "&", "*", "~", "await"}) THEN R(<<"un", Tok(s), u.v>>, u.s)
     ELSE IF isCast /\ cast.s.ok THEN Node("cast", cast)
     ELSE parsePostfix(IF isCast THEN Back(s, cast) ELSE s)

parseUnary(s) ==
  LET l == tryParseLambda(s)
      tried == (~s.noStructLiteral \/ IsIn(s, Prims)) /\ lambdaAhead(s)
  IN IF tried /\ l.s.ok THEN l ELSE UnaryOf(IF tried THEN Back(s, l) ELSE s)

-----------------------------------------------------------------------------
\* Statements.

isVar(d) == d[1] = "var"
Declared(r) == IF isVar(r.v) THEN R(r.v, [r.s EXCEPT !.locals = Append(@, r.v[2])]) ELSE r

\* Mutant of localTimes: a name before a star is a type.
starDeclares(s) == FALSE

\* `a * b;` with a variable a is a product.
localTimes(s) == AtName(s) /\ Peek(s, 1) = "*" /\ isLocalVar(s, Tok(s))

\* d, or the other reading when it is not a declaration but could be a statement.
OrStatement(s, d, rule) ==
  IF d.s.ok THEN Declared(d) ELSE IF AtName(s) \/ Is(s, "*") THEN parse(rule, Back(s, d)) ELSE d

parseBlockItem(s) ==
  IF ~localTimes(s) /\ (AtName(s) \/ IsIn(s, Prims \cup {"const", "volatile", "static", "?", "fn", "let", "*"}))
  THEN OrStatement(s, parse(D, s), S)
  ELSE parse(S, s)

parseBlockStatement(s) == Scoped(Node("block", Ordered(<<T("{"), Many(BlockItem, {"}"}), T("}")>>, s)), s)

Condition == <<T("("), E, T(")")>>

\* The loop over a range: `for (x in a..b)` counts x up to a bound with a name of its
\* own. A bound that reads x is computed before x is declared.
RECURSIVE freshName(_, _, _)
freshName(base, used, k) ==
  LET n == IF k = 0 THEN base ELSE base \o "_" \o ToString(k)
  IN IF n \in used THEN freshName(base, used, k + 1) ELSE n

\* Mutant of BoundFirst: the variable is always declared first.
variableFirst(x, names) == FALSE

BoundFirst(x, names) == x \in names

RangeLoop(label, x, a, b, body, names, used) ==
  LET bound == freshName("__end_" \o x, used \cup {x}, 0)
      xd == <<"var", x, <<"int">>, <<a>>, {}>>
      bd == <<"var", bound, <<"int">>, <<b>>, {}>>
      id == <<"id", x>>
  IN <<"for", label, <<"block", IF BoundFirst(x, names) THEN <<bd, xd>> ELSE <<xd, bd>>>>,
       <<<<"bin", "<", id, <<"id", bound>>>>>>, <<<<"bin", "=", id, <<"bin", "+", id, <<"lit", <<"1">>>>>>>>>>, body>>

NamedIn(s, from, to) == {s.t[i] : i \in from .. to - 1}
spanned(s) == LET e == parse(E, s) IN R(<<e.v, s.p, e.s.p>>, e.s)

parseForIn(label, s) ==
  LET r == Ordered(<<Name, T("in"), E, Opt("..", <<Plain("spanned")>>), T(")"), S>>, s)
      b == r.v[3][1]
  IN IF r.v[3] = <<>> THEN R(<<"forin", label>> \o <<r.v[1], r.v[2], r.v[4]>>, r.s)
     ELSE R(RangeLoop(label, r.v[1], r.v[2], b[1], r.v[4], NamedIn(s, b[2], b[3]), NamedIn(s, s.p, r.s.p)), r.s)

ForInit(s) ==
  LET i == OrStatement(s, parse(D, s), Plain("expressionStatement"))
  IN IF Is(s, ";") THEN R(<<>>, Step(s)) ELSE R(IF i.s.ok /\ isVar(i.v) THEN <<"block", <<i.v>>>> ELSE i.v, i.s)

parseFor(label, s) ==
  IF AtName(s) /\ Peek(s, 1) = "in" THEN parseForIn(label, s)
  ELSE LET r == Ordered(<<Plain("init"), Until(";"), Until(")"), S>>, s) IN R(<<"for", label>> \o r.v, r.s)

parseLoop(label, s) ==
  CASE Is(s, "for") -> parseFor(label, Need(Step(s), "("))
    [] Is(s, "while") -> LET r == Ordered(<<T("while")>> \o Condition \o <<S>>, s) IN R(<<"while", label>> \o r.v, r.s)
    [] OTHER -> LET r == Ordered(<<T("do"), S, T("while")>> \o Condition \o <<T(";")>>, s) IN R(<<"do", label>> \o r.v, r.s)

parseCatch(s) ==
  IF Is(s, "catch") THEN Ordered(<<T("catch"), T("("), Ty, Name, T(")"), B>>, s) ELSE R(<<>>, s)

RECURSIVE Catches(_)
Catches(s) ==
  LET c == parseCatch(s)
      r == Catches(c.s)
  IN IF Is(s, "catch") THEN R(<<c.v>> \o r.v, r.s) ELSE R(<<>>, s)

parseArm(s) ==
  IF Tok(s) = "_" /\ Peek(s, 1) # "->" THEN R(<<>>, Fail(Step(s)))
  ELSE Ordered(<<Name, Opt("(", <<List("name", ")")>>), T("->"), S>>, s)

subject(s) ==
  LET e == parse(E, [s EXCEPT !.noStructLiteral = TRUE])
  IN R(e.v, [e.s EXCEPT !.noStructLiteral = s.noStructLiteral])

parseMatch(s) ==
  Node("match", Ordered(<<T("match"), Plain("subject"), T("{"), Many(Plain("arm"), {"}"}), T("}")>>, s))

parseCase(s) ==
  LET body == <<T(":"), Many(BlockItem, {"case", "default", "}"})>>
  IN IF Is(s, "case") THEN Node("case", Ordered(<<T("case"), E>> \o body, s))
     ELSE Node("default", Ordered(<<T("default")>> \o body, s))

parseSwitch(s) ==
  Scoped(Node("switch", Ordered(<<T("switch")>> \o Condition \o <<T("{"), Many(Plain("case"), {"}"}), T("}")>>, s)), s)

jumpLabel(s) == IF AtName(s) THEN R(Tok(s), Step(s)) ELSE R("", s)

parseStatement(s) ==
  LET loops == {"for", "while", "do"}
      Is1(X) == IsIn(s, X)
  IN CASE AtName(s) /\ Peek(s, 1) = ":" /\ Peek(s, 2) \in loops -> parseLoop(Tok(s), Skip(s, 2))
       [] Is1({"{"}) -> parse(B, s)
       [] Is1({"if"}) -> Node("if", Ordered(<<T("if")>> \o Condition \o <<S, Opt("else", <<S>>)>>, s))
       [] Is1(loops) -> parseLoop("", s)
       [] Is1({"switch"}) -> parseSwitch(s)
       [] Is1({"match"}) -> parseMatch(s)
       [] Is1({"return"}) -> Node("return", Ordered(<<T("return"), Until(";")>>, s))
       [] Is1({"break", "continue"}) -> Node(Tok(s), Ordered(<<T(Tok(s)), Plain("label"), T(";")>>, s))
       [] Is1({"throw"}) -> Node("throw", Ordered(<<T("throw"), E, T(";")>>, s))
       [] Is1({"defer", "errdefer"}) -> Node(Tok(s), Ordered(<<T(Tok(s)), S>>, s))
       [] Is1({"try"}) -> Node("try", Ordered(<<T("try"), B, Plain("catches"), Opt("finally", <<B>>)>>, s))
       [] Is1({"thread_join"}) -> Node("thread_join", Ordered(<<T("thread_join")>> \o Condition \o <<T(";")>>, s))
       [] OTHER -> parse(Plain("expressionStatement"), s)

-----------------------------------------------------------------------------
\* Declarations.

RECURSIVE Bounds(_, _)
Bounds(sep, s) ==
  IF ~Is(s, sep) THEN R(<<>>, s)
  ELSE LET n == identifier(Step(s))
           r == Bounds("+", n.s)
       IN R(<<n.v>> \o r.v, r.s)

parseTypeParams(s) ==
  IF Is(s, "<") THEN LET l == Ordered(<<T("<"), Items("tparam"), T(">")>>, s) IN R(l.v[1], l.s) ELSE R(<<>>, s)

Overloadable ==
  {"+", "-", "*", "/", "%", "==", "!=", "<", ">", "<=", ">=", "&", "|", "^", "<<", ">>", "!", "~"}
parseOperatorToken(s) ==
  IF Is(s, "[") THEN R("[]", Need(Step(s), "]")) ELSE R(Tok(s), IF IsIn(s, Overloadable) THEN Step(s) ELSE Fail(s))

\* The name and the type parameters, which make it the name of a generic.
Generic(r) == R(r.v, IF r.s.ok THEN [r.s EXCEPT !.generics = @ \cup {r.v[1]}] ELSE r.s)
fnName(s) ==
  LET r == Ordered(<<Name, Plain("tparams")>>, s)
      o == parseOperatorToken(Step(s))
  IN IF Is(s, "operator") THEN R(<<o.v, <<>>>>, o.s) ELSE IF r.v[2] = <<>> THEN r ELSE Generic(r)

\* A prototype, or a body parsed with the type parameters and the parameters in scope.
FunctionBody(h) ==
  LET tps == h.v[2][2]
      b == parse(B, [h.s EXCEPT !.params = @ \o Heads(tps), !.locals = @ \o Heads(h.v[3])])
      d(body) == <<"fn", h.v[2][1], h.v[1], h.v[3], tps, body>>
  IN IF Is(h.s, ";") THEN R(d(<<>>), Step(h.s))
     ELSE R(d(<<b.v>>), [b.s EXCEPT !.params = h.s.params, !.locals = h.s.locals])

Ended(r) == IF r.s.ok THEN FunctionBody(r) ELSE r
parseFunctionDecl(s) == Ended(Ordered(<<Ty, Plain("fnName"), T("("), List("param", ")")>>, s))

\* An external or intrinsic function, or an external variable.
parseExternDecl(kind, s) ==
  LET h == Ordered(<<Ty, Name>>, s)
      ps == IF kind = "intrinsic" \/ Is(h.s, "(") THEN <<T("("), List("param", ")")>> ELSE <<>>
      r == Ordered(ps \o <<T(";")>>, h.s)
  IN R(<<kind>> \o h.v \o r.v, r.s)

width(s) == R(Tok(s), IF IsIn(s, Ints) THEN Step(s) ELSE Fail(s))

\* After the type of a member: an unnamed bitfield or a field, in a struct also a
\* bitfield with a name.
MemberAfter(kind, ty) ==
  LET pad == Ordered(<<T(":"), Plain("width"), T(";")>>, ty.s)
      f == Ordered(IF kind = "struct" THEN <<Name, Opt(":", <<Plain("width")>>), T(";")>> ELSE <<Name, T(";")>>, ty.s)
  IN IF Is(ty.s, ":") THEN R(<<"pad", ty.v>> \o pad.v, pad.s) ELSE R(<<"field", ty.v>> \o f.v, f.s)

\* A name and a parenthesis after the type make a method.
Member(s, ty) ==
  IF AtName(ty.s) /\ Peek(ty.s, 1) = "(" THEN parse(Plain("function"), s) ELSE MemberAfter("struct", ty)

\* Mutant of Declare: the name is a type before the body is read, and left out after.
forgetType(s, n) == s

\* What a type declaration makes known, once it has been read.
Declare(s, n) == IF s.ok THEN [s EXCEPT !.types = @ \cup {n}] ELSE s

StructBody(kind, member, h) ==
  LET b == Ordered(<<T("{"), Many(Plain(member), {"}"}), T("}")>>, [h.s EXCEPT !.params = @ \o Heads(h.v[2])])
      end == IF kind = "interface" THEN b.s ELSE Declare(b.s, h.v[1])
  IN R(<<kind>> \o h.v \o b.v, [end EXCEPT !.params = h.s.params])

parseStructDecl(s) == StructBody("struct", "member", Ordered(<<Name, Plain("tparams")>>, s))
parseUnion(s) == StructBody("union", "ufield", Ordered(<<Name, Plain("none")>>, s))
parseInterface(s) == StructBody("interface", "signature", Ordered(<<Name, Plain("none")>>, s))

payload(s) ==
  IF Is(s, "(") THEN Node("types", Ordered(<<T("("), List("type", ")")>>, s))
  ELSE IF Is(s, "=") THEN Node("value", Ordered(<<T("="), E>>, s)) ELSE R(<<>>, s)

\* The variants of a generic enum are generic constructors.
EnumBody(h) ==
  LET vs == Ordered(<<T("{"), List(IF h.v[2] = <<>> THEN "variant" ELSE "gvariant", "}")>>, h.s)
  IN R(<<"enum">> \o h.v \o vs.v, Declare(vs.s, h.v[1]))

parseEnumDecl(s) == EnumBody(Ordered(<<Name, Opt("<", <<Items("name"), T(">")>>)>>, s))

parseTypeAlias(s) ==
  LET r == Ordered(<<Ty, T(";")>>, Skip(s, 3)) IN R(<<"type", Peek(s, 1)>> \o r.v, Declare(r.s, Peek(s, 1)))

\* Mutant of bindingConst: any const in the type fixes the variable.
anyConst(t) == Contains(t, "const")

\* May the variable itself not be assigned: a const value, or a pointer whose last
\* level is const.
bindingConst(t) ==
  \/ Len(t) > 1 /\ Last(t) = "const" /\ t[Len(t) - 1] = "*"
  \/ t # <<>> /\ Head(t) = "const" /\ ~Contains(t, "*")

\* The type without the qualifiers that the binding carries.
storedType(t) ==
  LET keep(i) == t[i] = "const" => (i = 1 \/ t[i - 1] # "*") /\ (i > 1 \/ Contains(t, "*"))
  IN FlattenSeq([i \in DOMAIN t |-> IF keep(i) THEN <<t[i]>> ELSE <<>>])

\* The initializer and the end of a declaration of n.
Variable(quals, n, ty, s) ==
  LET i == Ordered(<<Opt("=", <<E>>), T(";")>>, s)
  IN R(<<"var", n, storedType(ty), i.v[1], quals \cup (IF bindingConst(ty) THEN {"const"} ELSE {})>>, i.s)

parseLet(quals, s) == LET h == Ordered(<<Name, T(":"), Ty>>, s) IN Variable(quals, h.v[1], h.v[2], h.s)

\* A type, then a name: a function when a ( or a < follows, or a variable.
Typed(quals, s, h) ==
  IF Is(h.s, "operator") \/ (AtName(h.s) /\ Peek(h.s, 1) \in {"(", "<"}) THEN parse(Plain("function"), s)
  ELSE IF AtName(h.s) /\ Peek(h.s, 1) \in {";", "="} THEN Variable(quals, Tok(h.s), h.v, Step(h.s))
  ELSE R(<<>>, Fail(h.s))

RECURSIVE Qualified(_, _)
Qualified(quals, s) ==
  IF IsIn(s, {"volatile", "static"}) THEN Qualified(quals \cup {Tok(s)}, Step(s))
  ELSE IF Is(s, "let") THEN parseLet(quals, Step(s))
  ELSE IF Is(s, "const") /\ Peek(s, 1) = "let" THEN parseLet(quals \cup {"const"}, Skip(s, 2))
  ELSE IF AtName(s) \/ IsIn(s, Prims \cup {"const", "*", "fn", "?"}) THEN Typed(quals, s, parse(Ty, s))
  ELSE R(<<>>, Fail(s))

FunctionLike == {"fn", "async", "must_use", "deprecated"}
Marked(mark, d) == R(<<mark, d.v>>, d.s)
Deprecated(d) == IF d.s.ok /\ d.v[1] \notin FunctionLike THEN R(<<>>, Fail(d.s)) ELSE Marked("deprecated", d)

\* Words that are only reserved where they begin a declaration.
IsDeprecated(s) == Is(s, "deprecated") /\ Peek(s, 1) = "(" /\ Peek(s, 2) \in Strings /\ Peek(s, 3) = ")"
IsAlias(s) == Is(s, "type") /\ IsIdent(Peek(s, 1)) /\ Peek(s, 2) = "="

parseDeclaration(s) ==
  CASE IsIn(s, {"extern", "intrinsic"}) -> parseExternDecl(Tok(s), Step(s))
    [] IsIn(s, {"async", "must_use"}) -> Marked(Tok(s), parse(Plain("function"), Step(s)))
    [] IsDeprecated(s) -> Deprecated(parse(D, Skip(s, 4)))
    [] Is(s, "struct") -> parseStructDecl(Step(s))
    [] Is(s, "packed") -> Marked("packed", parse(Plain("struct"), Need(Step(s), "struct")))
    [] Is(s, "union") -> parseUnion(Step(s))
    [] Is(s, "interface") -> parseInterface(Step(s))
    [] Is(s, "enum") -> parseEnumDecl(Step(s))
    [] IsAlias(s) -> parseTypeAlias(s)
    [] OTHER -> Qualified({}, s)

-----------------------------------------------------------------------------
\* The productions by name.

parsePart(k, s) ==
  CASE k = "name" -> identifier(s)
    [] k = "none" -> R(<<>>, s)
    [] k = "type" -> parseType(s)
    [] k = "base" -> baseType(s)
    [] k = "leading" -> LeadingStars(s)
    [] k = "stars" -> TrailingStars(s)
    [] k = "dims" -> Dimensions(s)
    [] k = "close" -> R("", consumeTemplateClose(s))
    [] k = "param" -> parseParameter(s)
    [] k = "field" -> Field(s)
    [] k \in {"expression", "element"} -> parseAssignment(s)
    [] k = "ternary" -> parseTernary(s)
    [] k = "unary" -> parseUnary(s)
    [] k = "memberName" -> memberName(s)
    [] k = "spanned" -> spanned(s)
    [] k = "subject" -> subject(s)
    [] k = "label" -> jumpLabel(s)
    [] k = "block" -> parseBlockStatement(s)
    [] k = "item" -> parseBlockItem(s)
    [] k = "statement" -> parseStatement(s)
    [] k = "expressionStatement" -> Node("expr", Ordered(<<E, T(";")>>, s))
    [] k = "init" -> ForInit(s)
    [] k = "catches" -> Catches(s)
    [] k = "arm" -> parseArm(s)
    [] k = "case" -> parseCase(s)
    [] k = "declaration" -> parseDeclaration(s)
    [] k = "function" -> parseFunctionDecl(s)
    [] k = "fnName" -> fnName(s)
    [] k = "tparams" -> parseTypeParams(s)
    [] k = "tparam" -> LET n == identifier(s) IN LET b == Bounds(":", n.s) IN R(<<n.v, b.v>>, b.s)
    [] k = "struct" -> parseStructDecl(s)
    [] k = "member" -> Member(s, parse(Ty, s))
    [] k = "ufield" -> MemberAfter("union", parse(Ty, s))
    [] k = "signature" -> Ordered(<<Ty, Name, T("("), List("param", ")"), T(";")>>, s)
    [] k = "width" -> width(s)
    [] k = "payload" -> payload(s)
    [] k = "variant" -> Ordered(<<Name, Plain("payload")>>, s)
    [] k = "gvariant" -> Generic(Ordered(<<Name, Plain("payload")>>, s))

parse(rule, s) ==
  CASE ~s.ok -> R(<<>>, s)
    [] rule[1] = "token" -> R(<<>>, Need(s, rule[2]))
    [] rule[1] = "flag" -> IF Is(s, rule[2]) THEN R(<<rule[2]>>, Step(s)) ELSE R(<<>>, s)
    [] rule[1] = "optional" -> IF Is(s, rule[2]) THEN Ordered(rule[3], Step(s)) ELSE R(<<>>, s)
    [] rule[1] = "many" -> Repeat(rule[2], rule[3], s)
    [] rule[1] = "items" -> Separated(rule[2], s)
    [] rule[1] = "list" -> Listed(rule[2], rule[3], s)
    [] rule[1] = "until" -> OrNothing(rule[2], s)
    [] OTHER -> parsePart(rule[1], s)

-----------------------------------------------------------------------------
\* A file, with the files it imports; each is parsed once, where it is first imported.

DeclStarts == Prims \cup {"struct", "packed", "union", "interface", "enum", "extern", "intrinsic", "import", "async",
                          "must_use", "const", "static", "volatile", "let", "*", "?", "fn"}
StartsDecl(s, i) == i \in s.tops /\ (s.t[i] \in DeclStarts \/ IsIdent(s.t[i]))

\* Mutant of skipToNextDecl: recovery skips the token the error is at.
skipPastError(s, e) ==
  LET next == {i \in e.p + 1 .. Len(s.t) : StartsDecl(s, i)}
  IN IF next = {} THEN Len(s.t) + 1 ELSE CHOOSE i \in next : \A j \in next : i <= j

\* Where parsing resumes after an error at e in the declaration that starts at s: the
\* token of the error itself may start the next one.
skipToNextDecl(s, e) ==
  LET next == {i \in (IF e.p > s.p THEN e.p ELSE e.p + 1) .. Len(s.t) : StartsDecl(s, i)}
  IN IF next = {} THEN Len(s.t) + 1 ELSE CHOOSE i \in next : \A j \in next : i <= j

\* The text of a file read so far: its declarations, its errors, the parser after them.
\* An error at e is reported, and the rest of the file is parsed.
Failed(g, e) == [g EXCEPT !.errs = @ + 1, !.s = [Back(g.s, R(<<>>, e)) EXCEPT !.p = skipToNextDecl(g.s, e)]]
Taken(g, d) == IF d.s.ok THEN [g EXCEPT !.decls = Append(@, d.v), !.s = d.s] ELSE Failed(g, d.s)

Opened(file, s) ==
  [decls |-> <<>>, errs |-> 0, s |-> Start(file.text, file.tops, s.types, s.generics, s.imported)]

\* The declarations of a file with an error are dropped, its errors are not.
Imported(g, sub, end) ==
  [decls |-> g.decls \o (IF sub.errs = 0 THEN sub.decls ELSE <<>>), errs |-> g.errs + sub.errs,
   s |-> [end EXCEPT !.types = sub.s.types, !.generics = sub.s.generics, !.imported = sub.s.imported]]

RECURSIVE parseProgram(_, _)

\* `import` of a name in place of the file's path: end is the parser after its `;`.
importFile(fs, g, f, end) ==
  IF ~end.ok THEN Failed(g, end)
  ELSE IF f \in g.s.imported THEN [g EXCEPT !.s = end]
  ELSE IF f \notin DOMAIN fs THEN Failed([g EXCEPT !.s.imported = @ \cup {f}], end)
  ELSE Imported(g, parseProgram(fs, Opened(fs[f], [g.s EXCEPT !.imported = @ \cup {f}])), end)

parseProgram(fs, g) ==
  IF Is(g.s, "eof") THEN g
  ELSE parseProgram(fs, IF Is(g.s, "import") THEN importFile(fs, g, Peek(g.s, 1), Need(Skip(g.s, 2), ";"))
                        ELSE Taken(g, parse(D, g.s)))

\* A program is its files by name; the root's declarations and the number of errors.
parseFiles(fs, root) ==
  LET g == parseProgram(fs, Opened(fs[root], [types |-> {}, generics |-> {}, imported |-> {root}]))
  IN [decls |-> IF g.errs = 0 THEN g.decls ELSE <<>>, errs |-> g.errs]
=============================================================================
