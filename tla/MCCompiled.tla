----------------------------- MODULE MCCompiled -----------------------------
(* Compiled.tla over families of small programs, one per question: the exits *)
(* of loops, switches and matches through cleanups; try with catch and       *)
(* finally; null tests; unassigned variables.                                *)
EXTENDS Integers, Sequences

None == [k |-> "none"]

\* Builders
Leaf(k) == [k |-> k]
Call == Leaf("call")  Skip == [k |-> "block", items |-> <<>>]
Block(ss) == [k |-> "block", items |-> ss]
If(c, s, e) == [k |-> "if", c |-> c, then |-> s, else |-> e]
Unk == Leaf("any")
May(s) == If(Unk, s, None)
Return(call) == [k |-> "return", call |-> call]
Break(l) == [k |-> "break", label |-> l]
Continue(l) == [k |-> "continue", label |-> l]
Defer(i, s) == [k |-> "defer", id |-> i, isErr |-> FALSE, body |-> s]
ErrDefer(i, s) == [k |-> "defer", id |-> i, isErr |-> TRUE, body |-> s]
Loop(form, l, c, s) ==
  [k |-> "loop", form |-> form, label |-> l, c |-> c, init |-> <<>>, body |-> s,
   step |-> IF form = "for" THEN <<Call>> ELSE <<>>]
Switch(cs, d) == [k |-> "switch", cases |-> cs, default |-> d]
Match(as) == [k |-> "match", arms |-> as]
Finally(s) == [k |-> "finally", body |-> s]
Try(i, s, cs, f) == [k |-> "try", id |-> i, body |-> s, catches |-> cs, finally |-> f]
Set(v, to) == [k |-> "set", v |-> v, to |-> to]
Use(v) == [k |-> "use", v |-> v]
AddrOfVar(v) == [k |-> "addr", v |-> v]
Not(c) == [k |-> "not", c |-> c]
And(l, r) == [k |-> "and", l |-> l, r |-> r]
Or(l, r) == [k |-> "or", l |-> l, r |-> r]
On(k, v) == [k |-> k, v |-> v]

Leaving == {Return(FALSE), Return(TRUE), Leaf("question")}
Jumps == {Break(""), Continue(""), Break("L"), Continue("L")}
Cleanup(i) == {Defer(i, Call), ErrDefer(i, Call)}

\* The ways to hold x between cleanups i and i + 1.
Nest(i, x) ==
  {Block(<<Defer(i, Call), May(x)>>),
   Loop("while", "", Unk, Block(<<Defer(i, Call), x>>)),
   Loop("do", "", Unk, Block(<<Defer(i, Call), May(x), ErrDefer(i + 1, Call)>>)),
   Switch(<<<<Defer(i, Call), May(x), Call>>, <<Call>>>>, FALSE),
   Switch(<<<<x>>, <<Defer(i, Call), Call>>>>, TRUE),
   Match(<<Block(<<Defer(i, Call), x>>), Call>>),
   Try(i, Block(<<Defer(i + 1, Call), May(x)>>), <<x>>, None),
   Try(i, Block(<<Call, May(x)>>), <<Call>>, Finally(Skip))}

\* A loop in a scope with a cleanup; in the loop a cleanup, and one or two nests
\* that an exit leaves early.
LoopBodies ==
  LET one == UNION {Nest(3, x) : x \in Leaving \cup Jumps}
      two == UNION {Nest(3, y) : y \in UNION {Nest(5, x) : x \in {Leaf("question")} \cup Jumps}}
  IN {Block(<<Defer(1, Call), Loop(f, "L", Unk, Block(<<e, n, Call>>)), Call>>) :
        f \in {"while", "for", "do"}, e \in Cleanup(2), n \in one}
     \cup {Block(<<Defer(1, Call), Loop("for", "L", Unk, Block(<<n, Call>>)), Call>>) : n \in two}

\* Handlers and finally. An exit from the body of a try whose finally may throw
\* is left out, here and below (see the README).
TryBodies ==
  LET exits == Leaving \cup {Break(""), Continue("")}
      quiet(x) == Try(2, Block(<<Defer(3, Call), May(x), Call>>), <<Block(<<Defer(4, Call), x>>)>>,
                      Finally(Skip))
      loud(x) == Try(2, Block(<<Defer(3, Call), Call>>), <<Block(<<May(x), Call>>), Call>>, Finally(Call))
      nofin(x) == Try(2, Block(<<Defer(3, Call), Call, x>>), <<Block(<<Defer(4, Call), May(x)>>)>>, None)
      nested(x) == Try(2, Block(<<Try(3, Block(<<Call, May(x)>>), <<Leaf("throw")>>, Finally(Skip)), Call>>),
                       <<May(x)>>, Finally(Skip))
      rethrown == Try(2, Block(<<Leaf("throw")>>), <<Block(<<Defer(4, Call), Leaf("throw")>>)>>, Finally(Call))
      inDefer == Defer(2, Try(5, Call, <<Call>>, None))
  IN {Block(<<Defer(1, Call), Loop("while", "", Unk, Block(<<t, Call>>)), Call>>) :
        t \in UNION {{quiet(x), loud(x), nofin(x), nested(x)} : x \in exits}}
     \cup {Block(<<Defer(1, Call), t, Call>>) :
             t \in UNION {{quiet(x), loud(x), nofin(x), nested(x)} : x \in Leaving \cup {Leaf("throw")}}
                     \cup {rethrown}}
     \cup {Block(<<Defer(1, Call), inDefer, x>>) : x \in Leaving \cup {Call}}

\* Null tests of a local p and a global g.
NullBodies ==
  LET tests(v) == {On("nz", v), On("ez", v), And(On("nz", v), Unk), Or(On("ez", v), Unk),
                   And(On("nz", v), Leaf("call")), And(On("nz", v), On("use", v)), Or(On("ez", v), On("use", v)),
                   And(On("nz", v), On("set", v)), And(Unk, On("addr", v)), Not(Or(On("ez", v), Leaf("call")))}
      acts(v) == {Use(v), Set(v, "null"), Set(v, "addr"), AddrOfVar(v), Call, Return(FALSE),
                  Block(<<Call, Use(v)>>), May(Return(FALSE))}
      line(v) == {<<If(c, t, e), n, Use(v)>> : c \in tests(v), t \in acts(v),
                    e \in {None, Use(v), Return(FALSE), Set(v, "null")}, n \in {Call, Use(v), Set(v, "addr")}}
      again(v) == {<<Loop(f, "", c, Block(<<t, u>>)), Use(v)>> : f \in {"while", "for", "do"},
                     c \in tests(v), t \in acts(v) \cup {May(Break("")), If(On("ez", v), Continue(""), None)},
                     u \in {Use(v), Set(v, "null")}}
      held == {<<If(On("ez", "p"), Return(FALSE), None), Loop("while", "", Unk, Block(<<t, u>>)), Use("p")>> :
                 t \in acts("p"), u \in acts("p")}
  IN {Block(ss) : ss \in line("p") \cup line("g") \cup again("p") \cup again("g") \cup held}

\* A number x assigned on some paths.
UninitBodies ==
  LET acts == {Set("x", "ok"), Use("x"), Return(FALSE), Skip, Break(""), Break("L"), Continue(""), May(Set("x", "ok"))}
      plain == {Set("x", "ok"), Use("x"), Return(FALSE), Skip, May(Return(FALSE))}
      loops == {<<Loop(f, "L", c, Block(<<If(d, a, b), e>>)), Use("x")>> : f \in {"while", "for", "do"},
                  c \in {Unk, Leaf("true"), On("set", "x"), And(Unk, On("set", "x")), Or(Unk, On("set", "x"))},
                  d \in {Unk, Or(On("set", "x"), Unk)}, a \in acts, b \in acts, e \in {Skip, Set("x", "ok")}}
      ifs == {<<May(a), If(Unk, b, e), Use("x")>> : a \in plain, b \in plain, e \in plain}
      switches == {<<Switch(<<<<a>>, <<b, Break("")>>, <<e>>>>, d), Use("x")>> :
                     a \in plain, b \in plain, e \in plain, d \in BOOLEAN}
      defers == {<<Block(<<Defer(1, a), May(b), e>>), Use("x")>> : a \in {Use("x"), Set("x", "ok")},
                   b \in plain \cup {Leaf("question")}, e \in plain}
  IN {Block(<<Call, May(Call)>> \o ss) : ss \in ifs \cup switches \cup loops \cup defers}

UninitTries ==
  LET acts == {Set("x", "ok"), Call, Return(FALSE), Leaf("throw"), May(Set("x", "ok"))}
  IN {Block(<<Call, May(Call), Try(1, Block(<<a, b>>), <<c>>, f), Use("x")>>) :
        a \in acts, b \in acts, c \in acts, f \in {None, Finally(Skip), Finally(Set("x", "ok"))}}

\* A finally with a jump of its own, on the way out of a try body.
FinallyJumps ==
  {[body |-> Block(<<Loop("while", "", Unk, Block(<<Try(1, Block(<<Call, May(x)>>), <<Call>>, Finally(May(j)))>>))>>),
    eh |-> TRUE, vars |-> {}] : x \in {Leaf("throw"), Return(FALSE)}, j \in {Break(""), Continue("")}}
=============================================================================
