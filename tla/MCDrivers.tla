----------------------------- MODULE MCDrivers -----------------------------
(* The inputs of Packages, LineReader and Repl. *)
EXTENDS Integers, Sequences

\* Packages: a needs b at v1 and later b at its default branch, which moves; b is at two
\* URLs; a local package u needs b and the root.
Dep(n, u, r) == [name |-> n, url |-> u, rev |-> r]

MCDepsOf == [c \in {"a1", "a2", "b1", "b2", "../u"} |->
               CASE c = "a1" -> <<Dep("b", "ub", "v1")>>
                 [] c = "a2" -> <<Dep("b", "ub", "HEAD")>>
                 [] c = "../u" -> <<Dep("app", "path", "."), Dep("b", "ub", "b1")>>
                 [] OTHER -> <<>>]

Revs(h, v) == [r \in {"HEAD", "v1"} |-> IF r = "HEAD" THEN h ELSE v]
Remote1(a, b) == [u \in {"ua", "ub", "ub2"} |-> IF u = "ua" THEN Revs(a, "a1") ELSE Revs(b, "b1")]

MCUpstreams == <<Remote1("a1", "b1"), Remote1("a2", "b2")>>

MCRank == [n \in {"a", "app", "b", "u"} |-> CASE n = "a" -> 1 [] n = "app" -> 2 [] n = "b" -> 3 [] OTHER -> 4]

MCAdds == {Dep("a", "ua", "HEAD"), Dep("b", "ub", "HEAD"), Dep("b", "ub2", "v1"), Dep("u", "path", "../u")}

-----------------------------------------------------------------------------
\* LineReader: scripts of up to three statements in every layout.
Line(first, depth, last) == [first |-> first, depth |-> depth, last |-> last, hash |-> 0]
Hash(n) == [Line("#", 0, "") EXCEPT !.hash = n]
Blank == Line("blank", 0, "")
Plain == Line("x", 0, "")
Closes == Line("}", -1, "")

Statements ==
  {<<Plain>>, <<Blank>>, <<Line("op", 0, "")>>, <<Line("cmd", 0, "")>>,
   <<Line("x", 0, "operator"), Plain>>, <<Line("if", 0, "")>>,
   <<Line("if", 1, ""), Blank, Plain, Closes>>,
   <<Line("if", 1, ""), Line("}", 0, ""), Closes>>,
   <<Line("if", 1, ""), Closes, Line("else", 1, ""), Closes>>,
   <<Line("if", 0, "header"), Line("{", 1, ""), Closes, Line("else", 0, "header"), Line("{", 1, ""), Closes>>,
   <<Line("if", 0, ""), Line("else", 0, "operator"), Plain>>,
   <<Line("try", 1, ""), Closes, Line("catch", 1, ""), Closes, Line("finally", 1, ""), Closes>>,
   <<Line("int", 0, "header"), Line("{", 1, ""), Line("if", 1, ""), Closes, Blank, Closes>>,
   <<Line("do", 1, ""), Plain, Closes, Line("while", 0, "")>>,
   <<Hash(1), Plain, Hash(-1)>>}

MCScripts == UNION {[1 .. n -> Statements] : n \in 1 .. 3}

-----------------------------------------------------------------------------
\* Repl: a type A with a method, a type B that holds an A, variables of both kinds of
\* types, functions over them, and generic functions that call each other.
MCHolds == [t \in {"A", "B"} |-> IF t = "B" THEN {"A"} ELSE {}]
MCMethod == [t \in {"A", "B"} |-> IF t = "A" THEN "A_m" ELSE "B_m"]
MCUnder == [d \in {"A", "B", "x", "n", "f", "g", "h"} |->
              CASE d = "A" -> {"A_m"} [] d = "B" -> {"B_m"} [] d = "h" -> {"h"} [] OTHER -> {}]

Decl(n, is, vs, cs) == [name |-> n, is |-> is, vars |-> vs, calls |-> cs]
Type(t) == Decl(t, "type", {}, {})
Decls1(ds) == [kind |-> "decls", decls |-> ds]
Stmts(lets, vs, cs) == [kind |-> "stmts", lets |-> lets, vars |-> vs, calls |-> cs]
Let(n, t) == [name |-> n, type |-> t]

MCInputs ==
  {Decls1({Type("A")}), Decls1({Type("B")}), Decls1({Type("A"), Type("B")}),
   Decls1({Decl("f", "fun", {"x"}, {})}), Decls1({Decl("f", "fun", {"x", "n"}, {})}),
   Decls1({Decl("g", "fun", {"n"}, {"f"})}), Decls1({Decl("g", "fun", {}, {"h"})}),
   Decls1({Decl("g", "generic", {}, {"h"})}),
   Decls1({Decl("h", "generic", {"x"}, {})}), Decls1({Decl("h", "generic", {}, {}), Type("A")}),
   Stmts({Let("x", "A")}, {}, {}), Stmts({Let("x", "int")}, {}, {}), Stmts({Let("n", "int")}, {}, {"f"}),
   Stmts({Let("n", "int"), Let("x", "A")}, {}, {}), Stmts({}, {"x"}, {"g"}), Stmts({}, {}, {"h"})}
=============================================================================
