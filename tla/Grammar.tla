------------------------------ MODULE Grammar ------------------------------
(***************************************************************************)
(* The grammar of docs/lang/grammar.md, as the text of a tree: every       *)
(* operand is put in parentheses where its level is too loose for its      *)
(* place, and nowhere else unless `full`, which puts them everywhere. The  *)
(* trees are those of Syntax.tla; <<"range", label, x, a, b, body>> is     *)
(* `for (x in a..b) body`.                                                 *)
(***************************************************************************)
EXTENDS Integers, Sequences, SequencesExt

\* Loosest first; an assignment is level 0, the ternary 1, these 2 to 11, a prefix 12, a
\* postfix 13, a primary 14.
Binaries == <<{"||"}, {"&&"}, {"|"}, {"^"}, {"&"}, {"==", "!="}, {"<", ">", "<=", ">="}, {"<<", ">>"}, {"+", "-"},
              {"*", "/", "%"}>>
BinaryLevel(op) == IF op = "=" THEN 0 ELSE 1 + CHOOSE i \in DOMAIN Binaries : op \in Binaries[i]

IsNumber(e) == e[1] = "lit" /\ e[2][1] \in {"0", "1", "2", "3", "1.5"}
Level(e) ==
  CASE e[1] = "bin" -> BinaryLevel(e[2])
    [] e[1] = "tern" -> 1
    [] e[1] \in {"un", "cast", "lambda"} -> 12
    [] e[1] = "lit" /\ e[2][1] = "-" -> 12
    [] e[1] \in {"call", "index", "member", "?", "post++", "post--"} -> 13
    [] OTHER -> 14

Joined(texts, sep) == FlattenSeq([i \in DOMAIN texts |-> IF i = 1 THEN texts[i] ELSE sep \o texts[i]])
Comma(texts) == Joined(texts, <<",">>)
Parens(text) == <<"(">> \o text \o <<")">>
Braces(text) == <<"{">> \o text \o <<"}">>

\* A type; the lexer joins the > that close nested lists.
RECURSIVE TypeText(_)
TypeText(t) ==
  IF t = <<>> THEN <<>>
  ELSE IF Len(t) > 1 /\ t[1] = ">" /\ t[2] = ">" THEN <<">>">> \o TypeText(SubSeq(t, 3, Len(t)))
  ELSE <<t[1]>> \o TypeText(Tail(t))
Params(ps) == Parens(Comma([i \in DOMAIN ps |->
  IF ps[i][1] = "..." THEN <<"...">> ELSE ps[i][3] \o TypeText(ps[i][2]) \o <<ps[i][1]>>]))
TypeParams(tps) ==
  IF tps = <<>> THEN <<>>
  ELSE <<"<">> \o Comma([i \in DOMAIN tps |->
         <<tps[i][1]>> \o FlattenSeq([j \in DOMAIN tps[i][2] |-> <<IF j = 1 THEN ":" ELSE "+", tps[i][2][j]>>])]) \o <<">">>
Label(l) == IF l = "" THEN <<>> ELSE <<l, ":">>
Target(l) == IF l = "" THEN <<>> ELSE <<l>>

\* c.full: parentheses everywhere; c.colon: a `:` follows in the same group, before which
\* a postfix `?` takes parentheses (docs/lang/spec.md:752-754).
RECURSIVE Text(_, _)
In(e, level, c) ==
  IF Level(e) < level \/ (c.full /\ level > 0) \/ (e[1] = "?" /\ c.colon)
  THEN Parens(Text(e, [c EXCEPT !.colon = FALSE])) ELSE Text(e, c)
Alone(e, c) == Text(e, [c EXCEPT !.colon = FALSE])
All(es, c) == [i \in DOMAIN es |-> Alone(es[i], c)]

\* `l op= r` is how `l = l op r` is written.
IsCompound(e) == e[4][1] = "bin" /\ e[4][2] \in {"+", "-", "*", "<<", ">>"} /\ e[4][3] = e[3]
BinaryText(e, c) ==
  LET n == BinaryLevel(e[2])
  IN IF e[2] # "=" THEN In(e[3], n, c) \o <<e[2]>> \o In(e[4], n + 1, c)
     ELSE IF IsCompound(e) /\ ~c.full THEN In(e[3], 1, c) \o <<e[4][2] \o "=">> \o In(e[4][4], 0, c)
     ELSE In(e[3], 1, c) \o <<"=">> \o In(e[4], 0, c)

\* -1 is one literal, and *int (..) {..} a function that returns a pointer.
Glued(op, e) == (op = "-" /\ IsNumber(e)) \/ (op = "*" /\ e[1] = "lambda")

Before(c) == [c EXCEPT !.colon = TRUE]
ExpressionText(e, c) ==
  CASE e[1] = "lit" -> e[2]
    [] e[1] = "id" -> <<e[2]>>
    [] e[1] = "bin" -> BinaryText(e, c)
    [] e[1] = "tern" -> In(e[2], 2, Before(c)) \o <<"?">> \o In(e[3], 0, Before(c)) \o <<":">> \o In(e[4], 1, c)
    [] e[1] = "un" -> <<e[2]>> \o (IF Glued(e[2], e[3]) THEN Parens(Alone(e[3], c)) ELSE In(e[3], 12, c))
    [] e[1] = "cast" -> Parens(TypeText(e[2])) \o In(e[3], 12, c)
    [] e[1] = "call" -> In(e[2], 13, c) \o Parens(Comma(All(e[3], c)))
    [] e[1] = "tcall" -> TypeText(<<e[2], "<">> \o Comma(e[3]) \o <<">">>) \o Parens(Comma(All(e[4], c)))
    [] e[1] = "index" -> In(e[2], 13, c) \o <<"[">> \o Alone(e[3], c)
                           \o (IF e[4] = <<>> THEN <<>> ELSE <<"..">> \o Alone(e[4][1], c)) \o <<"]">>
    [] e[1] = "member" -> In(e[2], 13, c) \o <<".", e[3]>>
    [] e[1] = "?" -> In(e[2], 13, c) \o <<"?">>
    [] e[1] = "post++" -> In(e[2], 13, c) \o <<"++">>
    [] e[1] = "post--" -> In(e[2], 13, c) \o <<"--">>
    [] e[1] = "init" -> TypeText(e[2]) \o Braces(Comma([i \in DOMAIN e[3] |->
                          (IF e[3][i][1] = "" THEN <<>> ELSE <<e[3][i][1], ":">>) \o Alone(e[3][i][2], c)]))
    [] e[1] = "array" -> Braces(Comma(All(e[2], c)) \o (IF c.full /\ e[2] # <<>> THEN <<",">> ELSE <<>>))
    [] e[1] = "sizeof" -> <<"sizeof">> \o Parens(TypeText(e[2]))
    [] e[1] = "sizeofe" -> <<"sizeof">> \o Parens(Alone(e[2], c))
    [] e[1] = "alloc_with" -> <<"alloc_with">> \o Parens(Comma(<<Alone(e[2], c), TypeText(e[3]), Alone(e[4], c)>>))
    [] e[1] \in {"free_closure", "thread_create"} -> <<e[1]>> \o Parens(Alone(e[2], c))
    [] e[1] = "lambda" -> TypeText(e[3]) \o Params(e[2]) \o Alone(e[4], c)

Maybe(es, c) == IF es = <<>> THEN <<>> ELSE Alone(es[1], c)
Items(es, c) == FlattenSeq(All(es, c))
CatchText(k, c) == <<"catch">> \o Parens(TypeText(k[1]) \o <<k[2]>>) \o Alone(k[3], c)
ArmText(a, c) ==
  <<a[1]>> \o (IF a[2] = <<>> THEN <<>> ELSE Parens(Comma([i \in DOMAIN a[2][1] |-> <<a[2][1][i]>>])))
    \o <<"->">> \o Alone(a[3], c)

StatementText(s, c) ==
  CASE s[1] = "expr" -> Alone(s[2], c) \o <<";">>
    [] s[1] = "block" -> Braces(Items(s[2], c))
    [] s[1] = "if" -> <<"if">> \o Parens(Alone(s[2], c)) \o Alone(s[3], c)
                        \o (IF s[4] = <<>> THEN <<>> ELSE <<"else">> \o Alone(s[4][1], c))
    [] s[1] = "while" -> Label(s[2]) \o <<"while">> \o Parens(Alone(s[3], c)) \o Alone(s[4], c)
    [] s[1] = "do" -> Label(s[2]) \o <<"do">> \o Alone(s[3], c) \o <<"while">> \o Parens(Alone(s[4], c)) \o <<";">>
    [] s[1] = "for" -> Label(s[2]) \o <<"for", "(">>
                         \o (IF s[3] = <<>> THEN <<";">> ELSE IF s[3][1] = "block" THEN Items(s[3][2], c) ELSE Alone(s[3], c))
                         \o Maybe(s[4], c) \o <<";">> \o Maybe(s[5], c) \o <<")">> \o Alone(s[6], c)
    [] s[1] = "forin" -> Label(s[2]) \o <<"for", "(", s[3], "in">> \o Alone(s[4], c) \o <<")">> \o Alone(s[5], c)
    [] s[1] = "range" -> Label(s[2]) \o <<"for", "(", s[3], "in">> \o Alone(s[4], c) \o <<"..">> \o Alone(s[5], c)
                           \o <<")">> \o Alone(s[6], c)
    [] s[1] = "switch" -> <<"switch">> \o Parens(Alone(s[2], c)) \o Braces(Items(s[3], c))
    [] s[1] = "case" -> <<"case">> \o In(s[2], 0, Before(c)) \o <<":">> \o Items(s[3], c)
    [] s[1] = "default" -> <<"default", ":">> \o Items(s[2], c)
    [] s[1] = "match" -> <<"match">> \o Alone(s[2], c) \o Braces(FlattenSeq([i \in DOMAIN s[3] |-> ArmText(s[3][i], c)]))
    [] s[1] = "return" -> <<"return">> \o Maybe(s[2], c) \o <<";">>
    [] s[1] \in {"break", "continue"} -> <<s[1]>> \o Target(s[2]) \o <<";">>
    [] s[1] = "throw" -> <<"throw">> \o Alone(s[2], c) \o <<";">>
    [] s[1] \in {"defer", "errdefer"} -> <<s[1]>> \o Alone(s[2], c)
    [] s[1] = "try" -> <<"try">> \o Alone(s[2], c) \o FlattenSeq([i \in DOMAIN s[3] |-> CatchText(s[3][i], c)])
                         \o (IF s[4] = <<>> THEN <<>> ELSE <<"finally">> \o Alone(s[4][1], c))
    [] s[1] = "thread_join" -> <<"thread_join">> \o Parens(Alone(s[2], c)) \o <<";">>

\* A const binding is written before the type of a value, after the stars of a pointer,
\* or before `let`.
VarText(d, c) ==
  LET const == "const" \in d[5]
      stars == Contains(d[3], "*")
      quals == (IF "static" \in d[5] THEN <<"static">> ELSE <<>>) \o (IF "volatile" \in d[5] THEN <<"volatile">> ELSE <<>>)
      typed == (IF const /\ ~stars THEN <<"const">> ELSE <<>>) \o TypeText(d[3])
                 \o (IF const /\ stars THEN <<"const">> ELSE <<>>) \o <<d[2]>>
      named == (IF const THEN <<"const">> ELSE <<>>) \o <<"let", d[2], ":">> \o TypeText(d[3])
  IN quals \o (IF c.full THEN named ELSE typed) \o (IF d[4] = <<>> THEN <<>> ELSE <<"=">> \o Alone(d[4][1], c)) \o <<";">>

NameText(n) ==
  IF n = "[]" THEN <<"operator", "[", "]">>
  ELSE IF n \in {"!", "~"} \cup UNION ToSet(Binaries) THEN <<"operator", n>> ELSE <<n>>
VariantText(v, c) ==
  <<v[1]>> \o (IF v[2] = <<>> THEN <<>>
               ELSE IF v[2][1] = "value" THEN <<"=">> \o Alone(v[2][2], c)
               ELSE Parens(Comma([i \in DOMAIN v[2][2] |-> TypeText(v[2][2][i])])))

DeclarationText(d, c) ==
  CASE d[1] = "var" -> VarText(d, c)
    [] d[1] = "fn" -> TypeText(d[3]) \o NameText(d[2]) \o TypeParams(d[5]) \o Params(d[4])
                        \o (IF d[6] = <<>> THEN <<";">> ELSE Alone(d[6][1], c))
    [] d[1] \in {"extern", "intrinsic"} -> <<d[1]>> \o TypeText(d[2]) \o <<d[3]>>
                                             \o (IF Len(d) = 3 THEN <<>> ELSE Params(d[4])) \o <<";">>
    [] d[1] = "struct" -> <<"struct", d[2]>> \o TypeParams(d[3]) \o Braces(Items(d[4], c))
    [] d[1] = "union" -> <<"union", d[2]>> \o Braces(Items(d[4], c))
    [] d[1] = "field" -> TypeText(d[2]) \o <<d[3]>>
                           \o (IF Len(d) = 3 \/ d[4] = <<>> THEN <<>> ELSE <<":", d[4][1]>>) \o <<";">>
    [] d[1] = "pad" -> TypeText(d[2]) \o <<":", d[3], ";">>
    [] d[1] = "interface" -> <<"interface", d[2]>> \o Braces(FlattenSeq([i \in DOMAIN d[4] |->
                               TypeText(d[4][i][1]) \o <<d[4][i][2]>> \o Params(d[4][i][3]) \o <<";">>]))
    [] d[1] = "enum" -> <<"enum", d[2]>>
                          \o (IF d[3] = <<>> THEN <<>> ELSE <<"<">> \o Comma([i \in DOMAIN d[3][1] |-> <<d[3][1][i]>>]) \o <<">">>)
                          \o Braces(Comma([i \in DOMAIN d[4] |-> VariantText(d[4][i], c)]))
    [] d[1] = "type" -> <<"type", d[2], "=">> \o TypeText(d[3]) \o <<";">>
    [] d[1] \in {"async", "must_use", "packed"} -> <<d[1]>> \o Alone(d[2], c)
    [] d[1] = "deprecated" -> <<"deprecated", "(", "\"s\"", ")">> \o Alone(d[2], c)

Expressions == {"lit", "id", "bin", "tern", "un", "cast", "call", "tcall", "index", "member", "?", "post++", "post--",
                "init", "array", "sizeof", "sizeofe", "alloc_with", "free_closure", "thread_create", "lambda"}
Statements == {"expr", "block", "if", "while", "do", "for", "forin", "range", "switch", "case", "default", "match",
               "return", "break", "continue", "throw", "defer", "errdefer", "try", "thread_join"}
Text(e, c) ==
  IF e[1] \in Expressions THEN ExpressionText(e, c)
  ELSE IF e[1] \in Statements THEN StatementText(e, c) ELSE DeclarationText(e, c)

Written(e, full) == Text(e, [full |-> full, colon |-> FALSE])
Mentioned(e) == ToSet(Written(e, FALSE))

\* `for (x in a..b)`: x runs from a up to b, which is evaluated once and before x exists,
\* under a name that nothing in the loop mentions.
IsRangeLoop(got, r) ==
  LET bound(d) == d[2] # r[3] /\ d = <<"var", d[2], <<"int">>, <<r[5]>>, {}>>
                    /\ d[2] \notin Mentioned(r[4]) \cup Mentioned(r[5]) \cup Mentioned(r[6])
      x == <<"var", r[3], <<"int">>, <<r[4]>>, {}>>
      id == <<"id", r[3]>>
      ds == got[3][2]
      Loop(d) == got = <<"for", r[2], <<"block", ds>>, <<<<"bin", "<", id, <<"id", d[2]>>>>>>,
                        <<<<"bin", "=", id, <<"bin", "+", id, <<"lit", <<"1">>>>>>>>>>, r[6]>>
  IN /\ got[1] = "for" /\ got[3] # <<>> /\ got[3][1] = "block" /\ Len(got[3][2]) = 2
     /\ \/ ds[2] = x /\ bound(ds[1]) /\ Loop(ds[1])
        \/ ds[1] = x /\ bound(ds[2]) /\ Loop(ds[2]) /\ r[3] \notin Mentioned(r[5])

\* The same declaration, with the range loops of a function's own statements.
SameStatement(got, e) == IF e[1] = "range" THEN IsRangeLoop(got, e) ELSE got = e
SameDeclaration(got, d) ==
  IF d[1] = "fn" /\ d[6] # <<>> /\ \E i \in DOMAIN d[6][1][2] : d[6][1][2][i][1] = "range"
  THEN /\ SubSeq(got, 1, 5) = SubSeq(d, 1, 5)
       /\ Len(got[6][1][2]) = Len(d[6][1][2])
       /\ \A i \in DOMAIN d[6][1][2] : SameStatement(got[6][1][2][i], d[6][1][2][i])
  ELSE got = d

\* What a parse of the program has to give: as many errors as were written into it, and
\* without one its declarations.
ReadsAs(got, decls, errs) ==
  /\ got.errs = errs
  /\ errs = 0 => /\ Len(got.decls) = Len(decls)
                 /\ \A i \in DOMAIN decls : SameDeclaration(got.decls[i], decls[i])
=============================================================================
