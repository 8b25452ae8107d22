--------------------------- MODULE MCPreprocessor ---------------------------
(* The inputs of Preprocessor, Macros and Constants. *)
EXTENDS Constants

\* Preprocessor: every file of six lines of conditionals, definitions and code, and files
\* that import each other.
Line(d, m, want) == [d |-> d, m |-> m, want |-> want]
Txt == Line("text", "", TRUE)

Raw == {Line("ifdef", "X", TRUE), Line("ifndef", "X", FALSE), Line("elif", "Y", TRUE),
        Line("elif", "X", FALSE), Line("else", "", TRUE), Line("endif", "", TRUE),
        Line("define", "X", TRUE), Txt}

\* One file whose first lines are free and whose last ones show what is active.
OneFile == {[f \in {"a", "b"} |-> IF f = "b" THEN <<>> ELSE s \o <<Txt, Line("endif", "", TRUE)>>] : s \in [1 .. 4 -> Raw]}

If(m, want, body) == <<Line("ifdef", m, want)>> \o body \o <<Line("endif", "", TRUE)>>
Imp(f) == <<Line("import", f, TRUE)>>
Def(m) == <<Line("define", m, TRUE)>>

Guarded == {If("G", FALSE, Def("G") \o <<Txt>>), <<Txt>> \o Imp("a"), <<Line("undef", "X", TRUE), Txt>>,
            If("X", TRUE, Imp("c")) \o <<Txt>>, <<Line("error", "", TRUE)>>,
            If("X", FALSE, <<Line("error", "", TRUE)>>) \o Def("Y")}
Roots == {Def("X") \o Imp("b") \o <<Txt>> \o Imp("c"), Imp("b") \o Def("X") \o Imp("b") \o <<Txt>>,
          If("Y", TRUE, Imp("b")) \o Imp("c") \o <<Txt>>, Imp("none") \o Imp("c") \o Imp("b") \o <<Txt>>}

Three == {[f \in {"a", "b", "c"} |-> CASE f = "a" -> r [] f = "b" -> x [] f = "c" -> y] :
            r \in Roots, x \in Guarded, y \in Guarded}

MCPrograms == OneFile \cup Three
MCInputs == <<"a", "b">>

-----------------------------------------------------------------------------
\* Macros: two object-like macros and a function-like one of one parameter, or one of two,
\* whose replacements name each other.
Object(body) == [fn |-> FALSE, params |-> <<>>, body |-> body]
Call(f, arg) == <<f, "(">> \o arg \o <<")">>

Bodies == {<<>>, <<"a">>, <<"X">>, <<"Y">>, <<"F">>, <<"X", "b">>, <<"Y", "F">>, Call("F", <<"Y">>)}
FBodies == {<<"p">>, <<"X", "p">>, <<"p", "F">>, <<"Y", "p", "p">>, <<"F">>, <<>>, Call("p", <<"a">>), Call("F", <<"p">>)}

Table(x, y, f) == [m \in {"X", "Y", "F"} |-> CASE m = "X" -> Object(x) [] m = "Y" -> Object(y) [] m = "F" -> f]
Objects(x, y) == [m \in {"X", "Y"} |-> IF m = "X" THEN Object(x) ELSE Object(y)]

MCTables ==
  {Table(x, y, [fn |-> TRUE, params |-> <<"p">>, body |-> f]) : x \in Bodies, y \in Bodies, f \in FBodies}
    \cup {Table(x, y, [fn |-> TRUE, params |-> <<"p", "q">>, body |-> <<"q", "X", "p">>]) : x \in Bodies, y \in Bodies}
    \cup {Objects(x, y) : x \in Bodies, y \in Bodies}

MCTexts ==
  {<<"X">>, <<"Y", "X">>, <<"F">>, Call("F", <<"X">>), Call("F", <<"F">>), Call("F", <<>>), <<"F", "(", "a">>,
   Call("F", Call("F", <<"Y">>)), Call("X", <<"a">>), Call("F", <<"a", ",", "X">>),
   Call("F", Call("F", <<"a", ",", "b">>) \o <<",", "Y">>), Call("X", <<"a">>) \o <<"(", "Y", ")">>,
   Call("F", <<"a">>) \o <<"(", "X", ")">>, <<"F", "X">>}

-----------------------------------------------------------------------------
\* Constants: each operator on its boundaries, each pair of operators in both shapes,
\* conditionals, and texts that are no expression.
BinaryOps == UNION {Levels[k] : k \in DOMAIN Levels}
UnaryOps == {"!", "~", "-", "+"}

\* Around the limits of every type: 7 and 8, 63 and 64, 127.
Limits == {Lit("0"), Lit("1"), Lit("7"), Lit("8"), Lit("63"), Lit("64"), Lit("127"), Neg("1"), Neg("63"),
           Name("B"), Cast("uint", Lit("9")), Cast("int8", Lit("7")), Cast("bool", Lit("2")), Cast("uint64", Lit("5"))}
Few == {Name("K"), Neg("1"), Cast("uint", Lit("9")), Name("B")}
Triples == {<<Lit("3"), Lit("2"), Lit("1")>>, <<Neg("7"), Lit("2"), Lit("0")>>, <<Cast("uint", Lit("2")), Lit("3"), Neg("1")>>,
            <<Cast("int8", Lit("7")), Name("B"), Lit("40")>>, <<Lit("0"), Lit("70"), Cast("int8", Lit("4"))>>}
Pairs(t) == {Bin(p, t[1], Bin(q, t[2], t[3])) : p \in BinaryOps, q \in BinaryOps}
              \cup {Bin(p, Bin(q, t[1], t[2]), t[3]) : p \in BinaryOps, q \in BinaryOps}
Typed ==
  {Bin(op, x, y) : op \in BinaryOps, x \in Limits, y \in Limits}
    \cup UNION {Pairs(t) : t \in Triples}
    \cup {Un(u, Bin(op, x, Lit("1"))) : u \in UnaryOps, op \in BinaryOps, x \in Few}
    \cup {Bin(op, Un(u, x), Lit("2")) : u \in UnaryOps, op \in BinaryOps, x \in {Name("B"), Cast("uint", Lit("9"))}}
    \cup {Cast(t, Bin(op, x, y)) : t \in DOMAIN W, op \in {"-", "*", "<"}, x \in Few, y \in Few}
    \cup {Bin(op, Cast(t, x), Lit("1")) : t \in DOMAIN W, op \in {"+", ">>", "<"}, x \in Limits}
    \cup {Cond(c, x, y) : c \in {Lit("0"), Cast("bool", Neg("1"))}, x \in Limits, y \in Limits}
    \cup {Bin(op, Cond(Lit("1"), x, y), Lit("1")) : op \in {"+", "<", "/", ">>"}, x \in Few, y \in Limits}
    \cup {Cond(Cond(Lit("0"), Lit("0"), Lit("2")), x, Cond(Lit("0"), y, Lit("1"))) : x \in Few, y \in Few}

\* What has no value, in an operand that is evaluated or not.
Undefined == {Bin("/", Lit("1"), Lit("0")), Bin("%", Lit("1"), Bin("-", Lit("3"), Lit("3"))), Bin("<<", Lit("1"), Lit("7")),
              Bin(">>", Lit("1"), Neg("1"))}
Partial == {Bin(op, c, x) : op \in {"&&", "||", "+"}, c \in {Lit("0"), Lit("3")}, x \in Undefined}
             \cup {Bin(op, x, Lit("1")) : op \in {"&&", "||"}, x \in Undefined}
             \cup {Cond(c, x, y) : c \in {Lit("0"), Lit("1")}, x \in Undefined \cup {Lit("2")}, y \in Undefined \cup {Lit("2")}}
             \cup {Bin("&&", Bin("||", Lit("1"), x), Lit("2")) : x \in Undefined}

\* #if: "P" is a macro, "Q" is not defined.
Asks == {Defined("P"), Defined("Q"), Name("P"), Name("Q")}
RECURSIVE InIf(_)
InIf(e) == /\ e.k # "cast" /\ e.n \notin {"K", "B"}
           /\ e.k \in {"lit", "neg"} => Literal[e.n] < 2 ^ (LongBits - 1)
           /\ \A i \in DOMAIN e.kids : InIf(e.kids[i])
Conditions ==
  {e \in Typed \cup Partial : InIf(e)}
    \cup {Bin(op, x, y) : op \in BinaryOps, x \in Asks, y \in Asks \cup {Lit("3")}}
    \cup {Un(u, x) : u \in {"!", "~"}, x \in Asks} \cup {Cond(x, y, Lit("4")) : x \in Asks, y \in Asks}
NoCondition ==
  {<<>>, <<"1", "+">>, <<"(", "1">>, <<"1", "1">>, <<"1", "?", "1">>, <<"defined">>, <<"defined", "(", "X">>, <<"*">>, <<")">>,
   <<"1", "||", "(">>, <<"1", "||", "128">>, <<"1", ":", "2">>, <<"1", "?", ":", "2">>}

ConstantJobs ==
  [pass : {"const"}, expr : Typed \cup Partial]
    \cup [pass : {"if"}, expr : Conditions] \cup [pass : {"bad if"}, text : NoCondition]
=============================================================================
