------------------------------ MODULE MCAsync ------------------------------
(* AsyncLowering over families of bodies: expressions around an await, loops  *)
(* and jumps through cleanups, tries, names and closures. Left out are the    *)
(* bodies the code is known to lower differently (README.md, disagreements).  *)
EXTENDS AsyncLowering

Call(f, es) == Expr("call", <<f>>, es)
C(f) == Call(f, <<>>)
Cond(f, es) == Expr("cond", <<f>>, es)
May(f) == Expr("may", <<f>>, <<>>)
Await(e) == Expr("await", <<>>, <<e>>)
A(f) == Await(C(f))
Bin(op, l, r) == Expr("bin", <<op>>, <<l, r>>)
Tern(c, a, b) == Expr("tern", <<>>, <<c, a, b>>)
Index(i) == Expr("index", <<>>, <<Var(<<"a">>), i>>)
V(x) == Var(<<x>>)
LetV(x, e) == Let(<<x>>, <<e>>)
Lam(x) == Expr("lam", <<x>>, <<>>)
RunIt(f) == ExprStmt(Expr("run", <<>>, <<V(f)>>))

Do(e) == ExprStmt(e)
Use(x) == Do(Call("use", <<V(x)>>))
Return(e) == Stmt("return", <<e>>, <<>>)
Break == Stmt("break", <<>>, <<>>)
Skip == Block(<<>>)
When(f, s) == If(Cond(f, <<>>), s, Skip)
Loop(c, body) == Stmt("while", <<c>>, <<Block(body)>>)
DoLoop(body, c) == Stmt("do", <<c>>, <<Block(body)>>)
For(init, c, step, body) == Stmt("for", <<c, step>>, <<init, Block(body)>>)
ForIn(x, e, body) == Node("forin", <<x>>, <<e>>, <<Block(body)>>)
Case(v, ss) == Stmt("case", IF v = "" THEN <<>> ELSE <<Val(<<v>>)>>, ss)
Switch(e, cases) == Stmt("switch", <<e>>, cases)
OnVariant(v, x, body) == Node("arm", <<v>>, IF x = "" THEN <<>> ELSE <<V(x)>>, <<Block(body)>>)
Match(e, arms) == Stmt("match", <<e>>, arms)
Throw(t) == Stmt("throw", <<Val(<<t>>)>>, <<>>)
Catch(t, x, body) == Node("catch", <<t>>, IF x = "" THEN <<>> ELSE <<V(x)>>, <<Block(body)>>)
Try(body, catches, fin) == Stmt("try", <<>>, <<Block(body)>> \o catches \o <<IF fin = <<>> THEN None ELSE Block(fin)>>)
Defer(ss) == Stmt("defer", <<>>, <<Block(ss)>>)

\* An await between effects, in every kind of operand.
Expressions ==
  {A("f"), Bin("+", C("g"), A("f")), Bin("+", A("f"), C("g")), Bin("+", Bin("+", C("g"), A("f")), C("h")),
   Bin("+", C("g"), Bin("+", A("f"), A("h"))), Call("c", <<C("g"), A("f"), C("h")>>), Await(Call("f", <<C("g"), A("h")>>)),
   Call("c", <<A("f"), Call("d", <<C("g"), A("h")>>)>>),
   Bin("&&", Cond("p", <<>>), Cond("q", <<A("f")>>)), Bin("||", Cond("p", <<A("f")>>), Cond("q", <<A("h")>>)),
   Bin("&&", Bin("||", Cond("p", <<>>), Cond("q", <<A("f")>>)), Cond("r", <<A("h")>>)),
   Call("c", <<C("g"), Bin("&&", Cond("p", <<>>), Cond("q", <<A("f")>>))>>),
   Tern(Cond("p", <<>>), A("f"), C("g")), Tern(Cond("p", <<A("f")>>), C("g"), C("h")),
   Tern(Cond("p", <<A("f")>>), Bin("+", C("g"), A("h")), C("t"))}
Assignments ==
  {Assign(V("x"), Bin("+", C("g"), A("f"))), Assign(Index(C("g")), A("f")), Assign(Index(A("f")), C("g")),
   Assign(Index(C("g")), Bin("+", May("t"), A("f"))), Assign(Index(Bin("+", C("g"), A("f"))), A("h"))}

ExpressionBodies ==
  {<<Return(e)>> : e \in Expressions}
    \cup {<<Defer(<<Do(C("d"))>>), LetV("x", e), Use("x")>> : e \in Expressions}
    \cup {<<LetV("x", C("g")), Do(e), Use("x")>> : e \in Expressions \cup Assignments}
    \cup {<<If(Cond("b", <<e>>), Do(C("k")), Return(e))>> : e \in {A("f"), Bin("+", C("g"), A("f"))}}

\* What a body may do between two cleanups.
Steps == {Do(A("f")), Do(May("t")), When("p", Return(C("r")))}
Cleanups == {Defer(<<Do(C("d"))>>), Defer(<<Do(A("e"))>>)}
Jumps == {Break, Stmt("continue", <<>>, <<>>), Return(C("r"))}

LoopBodies ==
  LET inner(c, j) == <<c, Do(A("f")), When("p", j), Do(C("k"))>>
      stepped(c, j) == {For(LetV("i", C("g")), Cond("w", <<>>), Call("s", <<V("i")>>), inner(c, j)),
                        ForIn("x", Expr("list", <<"l">>, <<>>), <<Use("x")>> \o inner(c, j))}
      tested(c, j) == {Loop(Cond("w", <<A("h")>>), <<c, When("p", j), Do(C("k"))>>),
                       DoLoop(<<c, When("p", j)>>, Cond("w", <<A("h")>>)),
                       For(None, Cond("w", <<A("h")>>), None, <<c, When("p", j)>>),
                       For(LetV("i", A("g")), Cond("w", <<>>), Call("s", <<A("h")>>), <<c, When("p", j)>>)}
      all(c, j) == {Loop(Cond("w", <<>>), inner(c, j)), DoLoop(inner(c, j), Cond("w", <<>>))} \cup stepped(c, j)
                     \cup IF stmtHasAwait(c) \/ ~stmtHasReturn(j) THEN tested(c, j) ELSE {}
  IN {<<Defer(<<Do(C("o"))>>), l, Do(C("z"))>> : l \in UNION {all(c, j) : c \in Cleanups, j \in Jumps}}

\* Switch and match, falling through and leaving.
SwitchBodies ==
  LET on(e, j) == {Switch(e, <<Case("true", <<Do(A("f"))>>), Case("false", <<When("p", j), Do(C("k"))>>), Case("", <<Do(C("z"))>>)>>),
                   Switch(e, <<Case("", <<When("p", j)>>), Case("true", <<Do(A("f")), Break>>)>>),
                   Match(e, <<OnVariant("true", "x", <<LetV("y", A("f")), When("p", j)>>), OnVariant("false", "", <<Do(C("k"))>>)>>)}
  IN {<<Loop(Cond("w", <<>>), <<LetV("v", e), s, Do(C("m"))>>)>> :
        e \in {Cond("u", <<>>), Cond("u", <<A("h")>>)}, s \in UNION {on(V("v"), j) : j \in Jumps}}

\* A try: what its body, its handler and its finally do.
TryBodies ==
  LET ends == {Do(C("k")), Do(A("h")), Return(C("r"))}
      fins == {<<>>, <<Do(C("n"))>>, <<Do(A("n"))>>}
  IN {<<Defer(<<Do(C("o"))>>), Try(<<c, s, Do(A("g"))>>, <<Catch("A", "x", <<Use("x"), e>>), Catch("B", "", <<e>>)>>, fin), Do(C("z"))>> :
        c \in Cleanups, s \in Steps, e \in ends, fin \in fins}
     \cup {<<Try(<<Try(<<s, Do(A("g")), Do(May("u"))>>, <<Catch("A", "x", <<c, Do(A("h")), e>>)>>, fin)>>,
                 <<Catch("B", "", <<Do(C("k"))>>), Catch("A", "", <<Do(A("m"))>>)>>, fin2)>> :
        c \in Cleanups, s \in Steps \ {Do(A("f"))}, e \in {Do(C("v")), Throw("B")}, fin \in fins \ {<<>>}, fin2 \in {<<>>, <<Do(C("n"))>>}}
     \cup {<<Loop(Cond("w", <<>>), <<Try(<<Defer(<<Do(C("d"))>>), Do(A("g")), When("p", j), Do(May("t"))>>, <<Catch("B", "", <<j>>)>>, fin)>>)>> :
        j \in Jumps, fin \in fins}

\* Names declared again, and closures over them.
NameBodies ==
  {<<LetV("x", A("f")), Block(<<LetV("x", Bin("+", V("x"), A("g"))), Use("x")>>), Use("x")>>,
   <<Block(<<LetV("x", A("f")), Use("x")>>), Block(<<LetV("x", C("g")), Do(A("h")), Use("x")>>)>>,
   <<LetV("x", C("g")), For(LetV("x", A("f")), Cond("w", <<>>), Call("s", <<V("x")>>), <<LetV("x", A("h")), Use("x")>>), Use("x")>>,
   <<LetV("x", C("g")), ForIn("x", Expr("list", <<"l">>, <<>>), <<Do(A("f")), Use("x")>>), Use("x")>>,
   <<LetV("x", C("g")), Try(<<Do(May("t")), Do(A("f"))>>, <<Catch("A", "x", <<Do(A("h")), Use("x")>>)>>, <<>>), Use("x")>>,
   <<LetV("x", C("g")), Match(A("f"), <<OnVariant("value", "x", <<Do(A("h")), Use("x")>>)>>), Use("x")>>,
   <<LetV("p", C("g")), Use("p"), Block(<<LetV("p", A("f")), Use("p")>>)>>}
ClosureBodies ==
  {<<LetV("x", A("f")), LetV("k", Lam("x")), Do(Assign(V("x"), C("g"))), RunIt("k"), Do(A("h")), RunIt("k")>>,
   <<LetV("x", C("g")), LetV("k", Lam("x")), Loop(Cond("w", <<>>), <<Do(Assign(V("k"), Lam("x"))), Do(Assign(V("x"), A("f"))), RunIt("k")>>), RunIt("k")>>,
   <<LetV("x", C("g")), Loop(Cond("w", <<>>), <<LetV("k", Lam("x")), Do(A("f")), RunIt("k"), When("p", Return(C("r")))>>)>>,
   <<LetV("x", C("g")), LetV("k", Lam("x")), Defer(<<RunIt("k")>>), Do(A("f")), Block(<<LetV("x", C("h")), LetV("k", Lam("x")), Do(A("m")), RunIt("k")>>)>>,
   <<Try(<<LetV("x", A("f")), LetV("k", Lam("x")), Do(May("t")), RunIt("k")>>, <<Catch("A", "x", <<LetV("k", Lam("x")), Do(A("g")), RunIt("k")>>)>>, <<Do(A("n"))>>)>>}

AsyncBodies == ExpressionBodies \cup LoopBodies \cup SwitchBodies \cup TryBodies \cup NameBodies \cup ClosureBodies
=============================================================================
