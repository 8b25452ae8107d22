------------------------------ MODULE MCSyntax ------------------------------
(* Syntax.tla with programs written by Grammar.tla: pairs of operators, one  *)
(* expression inside another, the readings that names decide, statements,    *)
(* declarations, imports, and declarations with an error in them.            *)
EXTENDS Integers, Sequences, FiniteSets, SequencesExt

LOCAL INSTANCE Grammar

Id(n) == <<"id", n>>
One == <<"lit", <<"1">>>>
Neg == <<"lit", <<"-", "1">>>>
Bin(op, l, r) == <<"bin", op, l, r>>
CallOf(f, args) == <<"call", Id(f), args>>
Do(e) == <<"expr", e>>
Return(e) == <<"return", <<e>>>>
Block(items) == <<"block", items>>
Local(n, ty, e) == <<"var", n, ty, <<e>>, {}>>
Param(n, ty) == <<n, ty, <<>>>>
Lambda(ty, e) == <<"lambda", <<Param("k", <<"int">>)>>, ty, Block(<<Return(e)>>)>>

Fn(n, ty, ps, tps, body) == <<"fn", n, ty, ps, tps, <<Block(body)>>>>
IntParams(ns) == [i \in DOMAIN ns |-> Param(ns[i], <<"int">>)]
M(body) == Fn("m", <<"int">>, IntParams(<<"a", "b", "c">>) \o <<Param("q", <<"P", "*">>)>>, <<>>, body)
H(body) == Fn("h", <<"T">>, <<Param("x", <<"T">>)>>, <<<<"T", <<>>>>>>, body)

\* struct P, struct Box<T>, enum Opt<T>, type N, and a generic function.
Prelude ==
  <<<<"struct", "P", <<>>, <<<<"field", <<"int">>, "f", <<>>>>>>>>,
    <<"struct", "Box", <<<<"T", <<>>>>>>, <<<<"field", <<"T">>, "v", <<>>>>>>>>,
    <<"enum", "Opt", <<<<"T">>>>, <<<<"Some", <<"types", <<<<"T">>>>>>>>, <<"None", <<>>>>>>>>,
    <<"type", "N", <<"int", "*">>>>,
    <<"fn", "id", <<"T">>, <<Param("x", <<"T">>)>>, <<<<"T", <<>>>>>>, <<>>>>>>

-----------------------------------------------------------------------------
Ops == {"=", "||", "&&", "|", "^", "&", "==", "<", ">", "<<", ">>", "-", "+", "*"}
OpPairs ==
  {Bin(o, Bin(p, Id("a"), Id("b")), Id("c")) : o \in Ops, p \in Ops}
    \cup {Bin(o, Id("a"), Bin(p, Id("b"), Id("c"))) : o \in Ops, p \in Ops}

\* An expression with e inside it.
Around(k, e) ==
  CASE k = "left" -> Bin("+", e, Id("b"))
    [] k = "right" -> Bin("*", Id("b"), e)
    [] k = "assigned" -> Bin("=", Id("b"), e)
    [] k = "less" -> Bin("<", Id("b"), e)
    [] k = "asked" -> <<"tern", e, Id("b"), Id("c")>>
    [] k = "then" -> <<"tern", Id("b"), e, Id("c")>>
    [] k = "else" -> <<"tern", Id("b"), Id("c"), e>>
    [] k \in {"-", "*", "++", "await"} -> <<"un", k, e>>
    [] k = "cast" -> <<"cast", <<"P">>, e>>
    [] k = "castp" -> <<"cast", <<"*", "int">>, e>>
    [] k = "called" -> <<"call", e, <<>>>>
    [] k = "argument" -> CallOf("g", <<e, Id("b")>>)
    [] k = "indexed" -> <<"index", e, One, <<>>>>
    [] k = "slice" -> <<"index", Id("b"), Id("c"), <<e>>>>
    [] k = "member" -> <<"member", e, "f">>
    [] k = "?" -> <<"?", e>>
    [] k = "post++" -> <<"post++", e>>
    [] k = "init" -> <<"init", <<"P">>, <<<<"f", e>>>>>>
    [] k = "array" -> <<"array", <<Id("b"), e>>>>
    [] k = "sizeofe" -> <<"sizeofe", Bin("+", e, One)>>
    [] k = "lambda" -> Lambda(<<"int">>, e)
    [] k = "tcall" -> <<"tcall", "id", <<<<"Box", "<", "int", ">">>>>, <<e>>>>
Kinds == {"left", "right", "assigned", "less", "asked", "then", "else", "-", "*", "++", "await", "cast", "castp", "called",
          "argument", "indexed", "slice", "member", "?", "post++", "init", "array", "sizeofe", "lambda", "tcall"}
Nested == {Around(j, Around(k, e)) : j \in Kinds, k \in Kinds, e \in {Id("a"), CallOf("g", <<>>), Neg}}

-----------------------------------------------------------------------------
\* The readings that depend on what a name is.
P1 == Local("P", <<"int">>, One)
Ambiguous ==
  {<<P1, Return(Bin("-", Id("P"), One))>>, <<Return(<<"cast", <<"P">>, Neg>>)>>,
   <<Block(<<P1>>), Return(<<"cast", <<"P">>, Neg>>)>>, <<Do(Bin("*", Id("a"), Id("b")))>>,
   <<<<"var", "r", <<"P", "*">>, <<>>, {}>>, Do(Bin("*", Id("r"), Id("b")))>>,
   <<Do(CallOf("g", <<Bin("<", Id("a"), Id("b")), Bin(">", Id("c"), Bin("+", Id("a"), One))>>))>>,
   <<Return(<<"tcall", "g", <<<<"P">>, <<"int">>>>, <<Id("a")>>>>)>>,
   <<Return(<<"tcall", "id", <<<<"Box", "<", "Box", "<", "Box", "<", "int", ">", ">", ">">>>>, <<Id("a")>>>>)>>,
   <<<<"var", "x", <<"Box", "<", "Box", "<", "P", ">", ">">>, <<>>, {}>>, Return(Bin(">>", Id("a"), Id("b")))>>,
   <<Return(<<"init", <<"Box", "<", "int", ">">>, <<<<"v", One>>>>>>)>>,
   <<Return(<<"tcall", "Some", <<<<"int">>>>, <<Id("a")>>>>)>>,
   <<Return(<<"cast", <<"P", "*">>, Id("q")>>)>>, <<Return(<<"cast", <<"*", "P">>, Id("q")>>)>>,
   <<Return(<<"cast", <<"Box", "<", "int", ">">>, Id("a")>>)>>, <<Return(<<"cast", <<"N">>, <<"un", "*", Id("q")>>>>)>>,
   <<Return(Bin("-", <<"un", "*", Id("q")>>, One))>>, <<Return(<<"call", <<"un", "*", Id("q")>>, <<Id("a")>>>>)>>,
   <<Return(Lambda(<<"P">>, One))>>, <<Return(Lambda(<<"*", "P">>, One))>>, <<Return(Lambda(<<"Box", "<", "int", ">">>, One))>>,
   <<Return(<<"sizeof", <<"a">>>>)>>, <<Return(<<"sizeof", <<"*", "P">>>>)>>, <<Return(<<"sizeofe", <<"un", "*", Id("q")>>>>)>>,
   <<Return(<<"sizeof", <<"int", "[", "2", "]">>>>)>>, <<Return(<<"sizeofe", <<"index", Id("a"), One, <<>>>>>>)>>,
   <<Return(<<"lit", <<"\"s\"", "\"t\"">>>>)>>, <<Return(<<"alloc_with", <<"un", "&", Id("a")>>, <<"P">>, One>>)>>,
   <<Do(<<"call", <<"member", Id("a"), "int">>, <<Id("b")>>>>)>>, <<Do(Bin("=", <<"un", "*", Id("q")>>, Id("a")))>>,
   <<Do(Bin("=", <<"index", Id("a"), Id("b"), <<>>>>, Bin("+", <<"index", Id("a"), Id("b"), <<>>>>, One)))>>,
   <<Do(<<"free_closure", Id("a")>>), Do(<<"un", "++", Id("a")>>), Do(<<"post--", Id("a")>>), Do(<<"?", CallOf("g", <<>>)>>)>>,
   <<<<"var", "F", <<"fn", "(", "int", ",", "P", "*", ")", "->", "int">>, <<Id("g")>>, {}>>>>,
   <<<<"var", "x", <<"?", "*", "P">>, <<<<"lit", <<"null">>>>>>, {}>>, <<"thread_join", Id("a")>>>>}

InGeneric ==
  {<<Return(<<"cast", <<"T">>, Id("x")>>)>>, <<Return(<<"cast", <<"*", "T">>, Id("x")>>)>>,
   <<Return(<<"tcall", "g", <<<<"T">>>>, <<Id("x")>>>>)>>, <<Return(<<"sizeof", <<"T", "*">>>>)>>}

Incr(n) == Bin("=", Id(n), Bin("+", Id(n), One))
Body == Block(<<Do(CallOf("g", <<Id("i")>>))>>)
Zero == <<"lit", <<"0">>>>
RangeOf(b, body) == <<"range", "", "i", Zero, b, body>>
StatementLists ==
  {<<<<"for", "", Block(<<Local("i", <<"int">>, Zero)>>), <<Bin("<", Id("i"), Id("a"))>>, <<Incr("i")>>, Body>>>>,
   <<<<"for", "", <<>>, <<Id("a")>>, <<>>, <<"break", "">>>>>>,
   <<<<"for", "out", <<>>, <<>>, <<>>, Block(<<<<"while", "in1", Id("a"), Block(<<<<"continue", "out">>, <<"break", "in1">>>>)>>>>)>>>>,
   <<<<"do", "", Block(<<Do(CallOf("g", <<>>))>>), Id("a")>>, <<"forin", "", "e", CallOf("g", <<>>), Block(<<>>)>>>>,
   <<RangeOf(Id("a"), Body)>>, <<RangeOf(Bin("+", Id("i"), One), Body)>>, <<RangeOf(Id("__end_i"), Body)>>,
   <<RangeOf(Id("a"), Block(<<Do(CallOf("g", <<Id("__end_i"), Id("__end_i_1")>>))>>))>>,
   <<RangeOf(Bin("*", Id("i"), Id("__end_i")), Block(<<>>)), Return(Id("i"))>>,
   <<<<"if", Id("a"), Do(Incr("b")), <<<<"if", Id("b"), Block(<<>>), <<Do(Incr("c"))>>>>>>>>>>,
   <<<<"switch", Id("a"), <<<<"case", One, <<Local("x", <<"int">>, One), <<"break", "">>>>>>,
                           <<"case", <<"tern", Id("a"), Id("b"), Id("c")>>, <<>>>>, <<"default", <<Do(Incr("x"))>>>>>>>>>>,
   <<<<"match", CallOf("g", <<Id("a")>>), <<<<"Some", <<<<"x">>>>, Return(Id("x"))>>, <<"None", <<>>, Block(<<>>)>>>>>>>>,
   <<<<"match", Id("a"), <<<<"Some", <<<<"x", "y">>>>, Return(<<"init", <<"P">>, <<<<"", Id("x")>>>>>>)>>, <<"_", <<>>, Body>>>>>>>>,
   <<<<"match", <<"?", CallOf("g", <<>>)>>, <<<<"_", <<>>, Block(<<>>)>>>>>>, Do(Incr("a"))>>,
   <<<<"try", Block(<<<<"throw", Id("a")>>>>), <<<<<<"int">>, "e", Body>>, <<<<"string">>, "s", Block(<<>>)>>>>, <<Block(<<>>)>>>>>>,
   <<<<"try", Body, <<>>, <<Body>>>>, <<"defer", Do(CallOf("g", <<>>))>>, <<"errdefer", Body>>, <<"return", <<>>>>>>,
   <<<<"var", "x", <<"int">>, <<One>>, {"const"}>>, <<"var", "y", <<"P", "*">>, <<Id("q")>>, {"const", "static"}>>,
     <<"var", "z", <<"const", "int", "*">>, <<>>, {"volatile"}>>, <<"var", "w", <<"int", "[", "2", "]">>, <<<<"array", <<One>>>>>>, {}>>>>}

-----------------------------------------------------------------------------
Members == <<<<"field", <<"uint8">>, "x", <<"3">>>>, <<"pad", <<"int">>, "0">>,
             Fn("get", <<"int">>, <<>>, <<>>, <<Return(<<"cast", <<"P", "*">>, Id("x")>>)>>), <<"field", <<"P", "*">>, "y", <<>>>>>>
Declarations ==
  {<<"var", "x", <<"int">>, <<One>>, {}>>, <<"var", "y", <<"P", "*">>, <<>>, {"const"}>>,
   <<"fn", "f", <<"void">>, <<Param("n", <<"int">>), <<"g", <<"fn", "(", ")", "->", "int">>, <<"escaping">>>>, <<"...", <<"...">>, <<>>>>>>, <<>>, <<>>>>,
   Fn("f", <<"P">>, <<>>, <<<<"T", <<"A", "B">>>>, <<"U", <<>>>>>>, <<>>),
   <<"async", Fn("f", <<"int">>, <<>>, <<>>, <<Return(<<"un", "await", CallOf("g", <<>>)>>)>>)>>,
   <<"must_use", Fn("f", <<"int">>, <<>>, <<>>, <<>>)>>, <<"deprecated", <<"async", Fn("f", <<"int">>, <<>>, <<>>, <<>>)>>>>,
   Fn("+", <<"P">>, <<Param("x", <<"P">>), Param("y", <<"P">>)>>, <<>>, <<Return(Id("x"))>>),
   Fn("[]", <<"int">>, <<Param("x", <<"P">>), Param("i", <<"int">>)>>, <<>>, <<Return(Id("i"))>>),
   Fn("<<", <<"P">>, <<Param("x", <<"P">>), Param("y", <<"P">>)>>, <<>>, <<>>),
   <<"extern", <<"int">>, "puts", <<Param("s", <<"string">>)>>>>, <<"extern", <<"const", "int">>, "errno">>,
   <<"intrinsic", <<"int">>, "popcount", <<Param("x", <<"int64">>)>>>>,
   <<"struct", "S", <<<<"T", <<"A">>>>>>, <<<<"field", <<"T">>, "x", <<>>>>>>>>, <<"struct", "S", <<>>, Members>>,
   <<"packed", <<"struct", "S", <<>>, Members>>>>, <<"union", "S", <<>>, <<<<"field", <<"int">>, "i">>, <<"pad", <<"int">>, "3">>>>>>,
   <<"interface", "S", <<>>, <<<<<<"int">>, "area", <<>>>>, <<<<"void">>, "grow", <<Param("n", <<"int">>)>>>>>>>>,
   <<"enum", "S", <<>>, <<<<"R", <<>>>>, <<"G", <<"value", Bin("+", One, One)>>>>, <<"B", <<"value", Neg>>>>>>>>,
   <<"enum", "S", <<<<"T", "U">>>>, <<<<"L", <<"types", <<<<"T">>, <<"Box", "<", "Box", "<", "U", ">", ">">>>>>>>>, <<"E", <<>>>>>>>>,
   <<"type", "S", <<"*", "?", "*", "P">>>>}
\* What follows sees the types and generics that the declaration makes known.
Uses == {Return(<<"cast", <<"S">>, Neg>>), Return(<<"tcall", "f", <<<<"int">>>>, <<Id("a")>>>>),
         Return(<<"tcall", "L", <<<<"int">>>>, <<>>>>), Return(Id("a"))}
UsesOf(d) == {u \in Uses : u[2][1][1] = "cast" => (d[1] \notin {"interface", "var"} /\ (d[2] = "S" \/ d[1] = "packed"))}

Missing == <<<<"import", "missing", ";">>, {}>>
\* An error that ends with its declaration, and where a second declaration starts in it.
Broken ==
  {<<<<"int", "f", "(", "int", "{", "}">>, {}>>, <<<<"int", "f", "(", ")", "{", "a", "=", ";", "}">>, {}>>,
   <<<<"int", "fn", "=", "1", ";">>, {}>>, <<<<"let", "x", "int", ";">>, {}>>, <<<<"enum", "{", "A", "}">>, {}>>,
   <<<<"struct", "X", "{", "int", "1", ";", "int", "y", ";", "}">>, {}>>, <<<<")", ";">>, {}>>, <<<<"int", "x", "=", "1">>, {}>>,
   <<<<"int", "f", "(", ")", "{", "if", "a", "{", "}", "}">>, {}>>, <<<<"int", "x", "int", "y", ";">>, {3}>>,
   <<<<"import", ";">>, {}>>, Missing}
\* A file that cannot be opened is reported at its first import.
Errors(b, b2) == IF b = Missing /\ b2 = Missing THEN 1 ELSE 2

-----------------------------------------------------------------------------
\* A file: its declarations' texts one after another, each at the start of a line.
RECURSIVE File(_)
File(texts) ==
  IF texts = <<>> THEN [text |-> <<>>, tops |-> {}]
  ELSE LET f == File(Front(texts)) IN
       [text |-> f.text \o Last(texts)[1], tops |-> f.tops \cup {Len(f.text) + i : i \in {1} \cup Last(texts)[2]}]
Texts(decls, full) == [i \in DOMAIN decls |-> <<Written(decls[i], full), {}>>]
Import(f) == <<<<"import", f, ";">>, {}>>

Job(files, decls, errs) == [pass |-> "parse", files |-> files, decls |-> decls, errs |-> errs]
OneFile(decls, full) == Job([f \in {"main"} |-> File(Texts(decls, full))], decls, 0)

Bodies == {M(<<Return(e)>>) : e \in OpPairs \cup Nested} \cup {M(b) : b \in Ambiguous \cup StatementLists}
            \cup {H(b) : b \in InGeneric}

D1 == M(<<Return(<<"cast", <<"P">>, Neg>>)>>)
D2 == <<"struct", "Q", <<>>, <<<<"field", <<"P">>, "p", <<>>>>>>>>
Lib == Texts(Prelude, FALSE)
Sources(main, lib, util) == [f \in {"main", "lib", "util"} |-> CASE f = "main" -> main [] f = "lib" -> lib [] f = "util" -> util]
ImportJobs ==
  {Job(Sources(File(<<Import("lib"), Import(x), Import("util")>> \o Texts(<<D1>>, FALSE)), File(Lib),
             File(<<Import("lib")>> \o Texts(<<D2>>, FALSE))), Prelude \o <<D2, D1>>, 0) : x \in {"lib", "util", "main"}}
    \cup {Job(Sources(File(<<Import("util"), Import("lib")>> \o Texts(<<D1>>, FALSE)), File(Lib),
             File(<<Import("main"), Import("lib")>> \o Texts(<<D2>>, FALSE))), Prelude \o <<D2, D1>>, 0)}
    \cup {Job(Sources(File(<<Import("lib"), Import("util")>> \o Texts(<<D1>>, FALSE)), File(Lib \o <<b>>), File(<<b2>>)), <<>>, Errors(b, b2)) :
             b \in Broken, b2 \in Broken}
ErrorJobs ==
  {Job([f \in {"main"} |-> File(Lib \o <<b>> \o Texts(<<D1>>, FALSE) \o <<b2>>)], <<>>, Errors(b, b2)) : b \in Broken, b2 \in Broken}

\* The expression that starts a `for` has to start with a name or a star.
ForFrom == M(<<<<"for", "", Do(Bin("=", Id("a"), One)), <<>>, <<>>, Body>>>>)

SyntaxJobs ==
  {OneFile(Append(Prelude, ForFrom), FALSE)} \cup
  {OneFile(Prelude \o <<b>>, full) : b \in Bodies, full \in BOOLEAN}
    \cup UNION {{OneFile(Prelude \o <<d, M(<<u>>)>>, full) : u \in UsesOf(d), full \in BOOLEAN} : d \in Declarations}
    \cup ImportJobs \cup ErrorJobs
=============================================================================
