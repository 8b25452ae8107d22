----------------------------- MODULE AsyncRuns -----------------------------
(***************************************************************************)
(* What an async function does: its body as it is written, and the states  *)
(* of AsyncLowering run by the resume function, on the same answers. The   *)
(* answers decide what a condition gives, what a call throws, and whether  *)
(* an await is ready (0), parks and is resumed (1), or is dropped (2). A   *)
(* run is the log of its calls, stores, drops and of its end.              *)
(***************************************************************************)
EXTENDS AsyncLowering

\* ctl: how the last statement ended; val: the last value; env: the locals; fr: the frame;
\* envs: the closures' environments; stage: what the resume function returned for; last:
\* what the end of the frame releases.
NoNames == [x \in {} |-> <<>>]
Start(answers, params, fuel) ==
  [ctl |-> "next", val |-> <<>>, log |-> <<>>, answers |-> answers, env |-> params, fr |-> NoNames, envs |-> <<>>,
   st |-> 1, wake |-> 0, stage |-> "run", dropping |-> FALSE, last |-> <<>>, fuel |-> fuel]

Get(f, x) == IF x \in DOMAIN f THEN f[x] ELSE <<"?">>
Field(f, x) == IF x \in DOMAIN f THEN f[x] ELSE <<>>
Put(f, x, v) == (x :> v) @@ f
Log(m, event) == [m EXCEPT !.log = Append(@, event)]
Gives(m, v) == [m EXCEPT !.val = v]
Ends(m, ctl) == IF m.ctl = "next" THEN [m EXCEPT !.ctl = ctl] ELSE m
Answer(m) == IF m.answers = <<>> THEN 0 ELSE m.answers[1]
Answered(m) == [m EXCEPT !.answers = IF @ = <<>> THEN <<>> ELSE Tail(@)]
IsTrue(m) == m.val = <<"true">>
Bool(b) == IF b THEN <<"true">> ELSE <<"false">>

\* A closure is its environment's number; no number is a field that was never bound.
Env(v) == IF v = <<>> THEN 0 ELSE CHOOSE i \in 1..20 : ToString(i) = v[2]
Closed(m, x) == [m EXCEPT !.envs = Append(@, [val |-> Get(m.env, x), live |-> TRUE]),
                          !.val = <<"env", ToString(Len(m.envs) + 1)>>]
Called(m, i) == IF m.envs[i].live THEN Log(m, <<"run">> \o m.envs[i].val) ELSE Log(m, <<"dead closure">>)
Freed(m, i) ==
  IF i = 0 THEN m ELSE IF m.envs[i].live THEN [m EXCEPT !.envs[i].live = FALSE] ELSE Log(m, <<"freed twice">>)

\* What a named call answers: a value, a condition, or an exception.
Calls(k, f, m) ==
  CASE k = "call" -> Gives(m, f)
    [] k = "cond" -> Gives(Answered(m), Bool(Answer(m) > 0))
    [] k = "list" -> Gives(m, <<"p", "q">>)
    [] k = "may" -> IF Answer(m) = 0 THEN Gives(Answered(m), f)
                    ELSE [Answered(m) EXCEPT !.ctl = "throw", !.val = <<IF Answer(m) = 1 THEN "A" ELSE "B">>]

\* The language's await: drop is a way out that runs cleanups and no handler; nobody can
\* drop a future whose cleanup runs.
Dropped(m, future) == [Log(Answered(m), <<"drop">> \o future) EXCEPT !.ctl = "cancel", !.dropping = TRUE]
Awaited(m) ==
  IF Answer(m) = 2 /\ ~m.dropping THEN Dropped(m, m.val) ELSE Gives(Answered(m), <<"value">> \o m.val)

\* The resume function's: parked, it returns.
Parks(m, s) ==
  IF Answer(m) = 0 THEN Answered(m)
  ELSE IF Answer(m) = 2 /\ ~m.dropping
  THEN [Log(Answered(m), <<"drop">> \o Field(m.fr, s.e[1].x)) EXCEPT !.ctl = "return", !.stage = "drop"]
  ELSE [Answered(m) EXCEPT !.ctl = "return", !.wake = s.n, !.stage = "parked"]

Operator(op, a, b) ==
  CASE op = "+" -> a \o b
    [] op = "<" -> Bool(Len(a) < Len(b))
    [] op = "==" -> Bool(a = b)

Declared(ss) == {ss[i].x : i \in {j \in DOMAIN ss : ss[j].k = "let"}}
\* Leaving a scope: its names mean again what they meant outside.
Outside(m, env, names) == [m EXCEPT !.env = [x \in names \cap DOMAIN env |-> env[x]] @@ m.env]
\* A cleanup that ends normally leaves the way out as it was.
Resumes(after, m) == IF after.ctl = "next" THEN [after EXCEPT !.ctl = m.ctl, !.val = m.val] ELSE after
Cleaning(m) == [m EXCEPT !.ctl = "next"]
Catching(m, c) == IF c.e = <<>> THEN Cleaning(m) ELSE [Cleaning(m) EXCEPT !.env = Put(m.env, c.e[1].x, m.val)]
Catches(s, m) ==
  IF m.ctl # "throw" THEN {}
  ELSE {i \in 2..(Len(s.s) - 1) : s.s[i].x = <<"*">> \/ s.s[i].x = <<m.val[1]>>}
\* A try's finally; the lowering's runs on unwinding only (s.n = 1).
RunsFinally(s, m) == Last(s.s).k # "none" /\ m.ctl # "stuck" /\ (s.n = 1 => m.ctl = "throw")

RECURSIVE Does(_, _), Args(_, _), Items(_, _, _), Close(_, _), Loop(_, _), Each(_, _, _)
Then(m, v) == Gives(m, v \o m.val)
Joined(m, es) == IF m.ctl = "next" THEN Then(Args(Tail(es), m), m.val) ELSE m
Args(es, m) == IF es = <<>> THEN Gives(m, <<>>) ELSE Joined(Does(Head(es), m), es)

Binary(op, m, right) == IF right.ctl = "next" THEN Gives(right, Operator(op, m.val, right.val)) ELSE right
Place(e, m) == IF e.k \in {"var", "field"} THEN Gives(m, e.x) ELSE Args(e.e, m)
Stored(e, at, m) ==
  IF m.ctl # "next" THEN m
  ELSE CASE e.k = "var" -> [m EXCEPT !.env = Put(m.env, e.x, m.val)]
         [] e.k = "field" -> [m EXCEPT !.fr = Put(m.fr, e.x, m.val)]
         [] OTHER -> Log(m, <<"store">> \o at \o m.val)
Storing(s, m) == IF m.ctl = "next" THEN Stored(s.e[1], m.val, Does(s.e[2], m)) ELSE m

\* `test`: the machine after the condition; `m`: after the body.
Tested(s, test, then, else) == IF test.ctl # "next" THEN test ELSE Does(IF IsTrue(test) THEN then ELSE else, test)
EndLoop(m) == IF m.ctl \in {"break", "continue"} THEN Cleaning(m) ELSE m
Step(s, m) == IF s.k = "for" THEN Does(s.e[2], m) ELSE m
Again(s, m) == IF m.ctl \in {"next", "continue"} THEN Loop(s, Step(s, EndLoop(m))) ELSE EndLoop(m)
Iterate(s, test) == IF test.ctl = "next" /\ IsTrue(test) THEN Again(s, Does(Last(s.s), test)) ELSE test
Loop(s, m) ==
  IF m.ctl # "next" THEN m
  ELSE IF m.fuel = 0 THEN Ends(m, "stuck")
  ELSE Iterate(s, Does(s.e[1], [m EXCEPT !.fuel = @ - 1]))
Each(s, list, m) ==
  IF list = <<>> \/ m.ctl \notin {"next", "continue"} THEN EndLoop(m)
  ELSE Each(s, Tail(list), Does(s.s[1], [Cleaning(m) EXCEPT !.env = Put(m.env, s.x, <<Head(list)>>)]))

Close(pend, m) ==
  IF pend = <<>> \/ m.ctl = "stuck" THEN m ELSE Close(Tail(pend), Resumes(Does(Head(pend), Cleaning(m)), m))
Items(ss, m, pend) ==
  IF ss = <<>> \/ m.ctl # "next" THEN Close(pend, m)
  ELSE IF Head(ss).k = "defer" THEN Items(Tail(ss), m, Head(ss).s \o pend)
  ELSE Items(Tail(ss), Does(Head(ss), m), pend)

\* The case that is selected, and those after it up to a break.
Selected(cases, v) ==
  Min({i \in DOMAIN cases : cases[i].e # <<>> /\ cases[i].e[1].x = v} \cup
      (IF \A i \in DOMAIN cases : cases[i].e = <<>> \/ cases[i].e[1].x # v
       THEN {i \in DOMAIN cases : cases[i].e = <<>>} ELSE {}) \cup {Len(cases) + 1})
EndSwitch(m) == IF m.ctl = "break" THEN Cleaning(m) ELSE m
Switched(s, m) ==
  IF m.ctl # "next" THEN m
  ELSE EndSwitch(Items(FlattenSeq([i \in DOMAIN s.s |-> IF i < Selected(s.s, m.val) THEN <<>> ELSE s.s[i].s]), m, <<>>))
Arms(s, v) == {i \in DOMAIN s.s : s.s[i].x = <<v[1]>>}
Holding(m, arm) == IF arm.e = <<>> THEN m ELSE [m EXCEPT !.env = Put(m.env, arm.e[1].x, Tail(m.val))]
Matched(s, m) ==
  IF m.ctl # "next" \/ Arms(s, m.val) = {} THEN m
  ELSE LET arm == s.s[Min(Arms(s, m.val))]
       IN Outside(Does(arm.s[1], Holding(m, arm)), m.env, Binders(<<arm>>))

Handled(s, m) ==
  IF Catches(s, m) = {} THEN m
  ELSE LET c == s.s[Min(Catches(s, m))] IN Outside(Does(c.s[1], Catching(m, c)), m.env, Binders(<<c>>))
Finally(s, m) == IF RunsFinally(s, m) THEN Resumes(Does(Last(s.s), Cleaning(m)), m) ELSE m

Does(s, m) ==
  CASE m.ctl # "next" \/ s.k = "none" -> m
    [] s.k = "val" -> Gives(m, s.x)
    [] s.k = "var" -> Gives(m, Get(m.env, s.x))
    [] s.k = "field" -> Gives(m, Field(m.fr, s.x))
    [] s.k \in {"call", "cond", "list", "may"} ->
         LET a == Args(s.e, m) IN IF a.ctl = "next" THEN Calls(s.k, s.x, Log(a, s.x \o a.val)) ELSE a
    [] s.k = "bin" /\ s.x[1] \in {"&&", "||"} ->
         Tested(s, Does(s.e[1], m), IF s.x = <<"&&">> THEN s.e[2] ELSE True, IF s.x = <<"&&">> THEN False ELSE s.e[2])
    [] s.k = "bin" -> LET l == Does(s.e[1], m) IN Binary(s.x[1], l, Does(s.e[2], l))
    [] s.k = "tern" -> Tested(s, Does(s.e[1], m), s.e[2], s.e[3])
    [] s.k = "assign" -> Storing(s, Place(s.e[1], m))
    [] s.k = "index" -> LET it == Does(s.e[1], m) i == Does(s.e[2], it)
                        IN IF i.ctl = "next" THEN Gives(i, <<it.val[Len(i.val) + 1]>>) ELSE i
    [] s.k = "await" -> LET a == Does(s.e[1], m) IN IF a.ctl = "next" THEN Awaited(a) ELSE a
    [] s.k = "lam" -> Closed(m, s.x)
    [] s.k = "run" -> Called(m, Env(Does(s.e[1], m).val))
    [] s.k = "free" -> Freed(m, Env(Does(s.e[1], m).val))
    [] s.k = "let" -> IF s.e = <<>> THEN m ELSE Stored(Var(s.x), <<>>, Does(s.e[1], m))
    [] s.k = "expr" -> Does(s.e[1], m)
    [] s.k = "block" -> Outside(Items(s.s, m, <<>>), m.env, Declared(s.s))
    [] s.k = "if" -> Tested(s, Does(s.e[1], m), s.s[1], s.s[2])
    [] s.k = "while" -> Loop(s, m)
    [] s.k = "do" -> Again(s, Does(s.s[1], m))
    [] s.k = "for" -> Outside(Loop(s, Does(s.s[1], m)), m.env, Declared(s.s))
    [] s.k = "forin" -> LET it == Does(s.e[1], m) IN Outside(IF it.ctl = "next" THEN Each(s, it.val, it) ELSE it, m.env, {s.x})
    [] s.k = "switch" -> Outside(Switched(s, Does(s.e[1], m)), m.env, UNION {Declared(s.s[i].s) : i \in DOMAIN s.s})
    [] s.k = "match" -> Matched(s, Does(s.e[1], m))
    [] s.k \in {"break", "continue"} -> Ends(m, s.k)
    [] s.k = "return" -> Ends(IF s.e = <<>> THEN Gives(m, <<>>) ELSE Does(s.e[1], m), "return")
    [] s.k = "throw" -> Ends(Does(s.e[1], m), "throw")
    [] s.k = "try" -> Finally(s, Handled(s, Does(s.s[1], m)))
    [] s.k = "goto" -> [m EXCEPT !.st = s.n]
    [] s.k = "park" -> Parks(m, s)
    [] s.k = "extract" -> [m EXCEPT !.fr = Put(m.fr, s.e[1].x, <<"value">> \o Field(m.fr, s.e[2].x))]
    [] s.k = "freeExc" -> [m EXCEPT !.fr = Put(m.fr, s.e[1].x, <<>>)]
    [] s.k = "excFree" -> Items(m.last, m, <<>>)
    [] s.k = "publish" -> [Log(m, <<"done">> \o Field(m.fr, <<"ret">>)) EXCEPT !.ctl = "return", !.stage = "over"]
    [] s.k = "leave" -> [m EXCEPT !.ctl = "return", !.stage = "over"]

-----------------------------------------------------------------------------
\* The body as it is written.

Ending(m) ==
  CASE m.ctl \in {"next", "return"} -> Log(m, <<"done">> \o (IF m.ctl = "next" THEN <<>> ELSE m.val))
    [] m.ctl = "throw" -> Log(m, <<"uncaught">> \o m.val)
    [] m.ctl = "stuck" -> Log(m, <<"stuck">>)
    [] OTHER -> m
AsWritten(items, m) == Ending(Items(items, m, <<>>)).log

-----------------------------------------------------------------------------
\* The resume function, and its caller, which wakes or drops it.

Leaks(m) == (\E i \in DOMAIN m.envs : m.envs[i].live) \/ \E x \in DOMAIN m.fr : x[1] = "exc" /\ m.fr[x] # <<>>
Over(m) == IF Leaks(m) THEN Log(m, <<"leak">>) ELSE m

RECURSIVE Resume(_, _)
OnDrop(mach, m) ==
  LET at == {i \in DOMAIN mach.drops : mach.drops[i].parked = m.st}
  IN IF at = {} THEN Over(Items(m.last, Cleaning(m), <<>>))
     ELSE Resume(mach, [m EXCEPT !.st = mach.drops[Min(at)].cleanup, !.dropping = TRUE, !.stage = "run"])
Returned(mach, m) ==
  CASE m.stage = "over" -> Over(m)
    [] m.stage = "parked" -> Resume(mach, [m EXCEPT !.st = m.wake, !.stage = "run"])
    [] m.stage = "drop" -> OnDrop(mach, m)
    [] OTHER -> Log(m, <<"lost">>)
After(mach, m) ==
  CASE m.ctl \in {"next", "continue"} -> Resume(mach, m)
    [] m.ctl = "return" -> Returned(mach, m)
    [] m.ctl = "throw" -> Log(m, <<"uncaught">> \o m.val)
    [] OTHER -> Log(m, <<m.ctl>>)
Resume(mach, m) ==
  IF m.fuel = 0 THEN Log(m, <<"stuck">>)
  ELSE After(mach, Does(mach.states[m.st], [m EXCEPT !.ctl = "next", !.env = NoNames, !.fuel = @ - 1]))

AsLowered(mach, m) == Resume(mach, [m EXCEPT !.fr = m.env, !.last = mach.excFree]).log

\* On every answer the states do what the body says.
AnswersTo(n) == [1..n -> 0..2]
SameRuns(items, params, mach, n, fuel) ==
  \A a \in AnswersTo(n) : AsWritten(items, Start(a, params, fuel)) = AsLowered(mach, Start(a, params, fuel))
=============================================================================
