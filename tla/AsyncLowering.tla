--------------------------- MODULE AsyncLowering ---------------------------
(***************************************************************************)
(* The lowering of an async function to a state machine                    *)
(* (sema/async_transform.cpp): every await becomes a `let` of its own, the *)
(* locals become fields of a frame, and the body is cut into states that a *)
(* resume function dispatches on; cleanups are emitted at every exit, and  *)
(* the states of a try are wrapped in its handlers.                        *)
(*                                                                         *)
(* A node is a record [k, x, e, s, n]: its kind, its name or label, its    *)
(* expressions, its statements, a number. A name and a value are sequences *)
(* of strings; `+` is concatenation, and a number is its unary sequence.   *)
(* The labels of a body are distinct, so a name made of the labels of an   *)
(* expression is fresh. State 0 is "never" and region 0 "none".            *)
(***************************************************************************)
EXTENDS Integers, Sequences, FiniteSets, SequencesExt, TLC

Node(k, x, e, s) == [k |-> k, x |-> x, e |-> e, s |-> s, n |-> 0]
Expr(k, x, e) == Node(k, x, e, <<>>)
Stmt(k, e, s) == Node(k, <<>>, e, s)

None == Node("none", <<>>, <<>>, <<>>)
Val(v) == Expr("val", v, <<>>)
Var(x) == Expr("var", x, <<>>)
fr(x) == Expr("field", x, <<>>)
True == Val(<<"true">>)
False == Val(<<"false">>)
Zero == Val(<<>>)

Let(x, init) == Node("let", x, init, <<>>)
Block(ss) == Stmt("block", <<>>, ss)
ExprStmt(e) == Stmt("expr", <<e>>, <<>>)
Assign(place, v) == Expr("assign", <<>>, <<place, v>>)
Set(place, v) == ExprStmt(Assign(place, v))
If(c, a, b) == Stmt("if", <<c>>, <<a, b>>)
Goto(n) == [Stmt("goto", <<>>, <<>>) EXCEPT !.n = n]
Free(e) == Stmt("free", <<e>>, <<>>)

\* The sequence with its elements computed.
Made(s) == <<>> \o s

RECURSIVE Labels(_), hasAwait(_), hasSideEffects(_), stmtHasReturn(_), escapesIn(_, _), stmtTerminates(_), Nodes(_)
Labels(e) == e.x \o FlattenSeq(Made([i \in DOMAIN e.e |-> Labels(e.e[i])]))
Fresh(base, e) == <<base>> \o Labels(e)

hasAwait(n) ==
  \/ n.k = "await"
  \/ \E i \in DOMAIN n.e : hasAwait(n.e[i])
  \/ \E i \in DOMAIN n.s : hasAwait(n.s[i])
stmtHasAwait(s) == hasAwait(s)

hasSideEffects(e) ==
  \/ e.k \in {"call", "cond", "list", "may", "run", "assign", "await"}
  \/ \E i \in DOMAIN e.e : hasSideEffects(e.e[i])

stmtHasReturn(s) == s.k = "return" \/ (s.k # "defer" /\ \E i \in DOMAIN s.s : stmtHasReturn(s.s[i]))

\* A break or a continue of a loop around s; a switch captures only the break.
escapesIn(s, contOnly) ==
  \/ s.k = "continue" \/ (s.k = "break" /\ ~contOnly)
  \/ /\ s.k \in {"block", "if", "case", "match", "arm", "try", "catch"}
     /\ \E i \in DOMAIN s.s : escapesIn(s.s[i], contOnly)
  \/ s.k = "switch" /\ \E i \in DOMAIN s.s : escapesIn(s.s[i], TRUE)

stmtTerminates(s) ==
  \/ s.k \in {"return", "throw"}
  \/ s.k = "block" /\ \E i \in DOMAIN s.s : stmtTerminates(s.s[i])
  \/ s.k = "if" /\ \A i \in DOMAIN s.s : stmtTerminates(s.s[i])

Nodes(n) ==
  <<n>> \o FlattenSeq(Made([i \in DOMAIN n.e |-> Nodes(n.e[i])])) \o FlattenSeq(Made([i \in DOMAIN n.s |-> Nodes(n.s[i])]))

-----------------------------------------------------------------------------
\* ShadowRenamer: a name that is declared again takes a spelling of its own.

RECURSIVE Renamed(_, _), Unused(_, _), Rename(_, _), RenameAll(_, _)
lookup(x, now) == IF x \in DOMAIN now THEN now[x] ELSE x
Renamed(e, now) ==
  [e EXCEPT !.x = IF e.k \in {"var", "lam"} THEN lookup(e.x, now) ELSE e.x,
            !.e = Made([i \in DOMAIN e.e |-> Renamed(e.e[i], now)])]
Unused(x, seen) == IF x \in seen THEN Unused(Append(x, "s"), seen) ELSE x

\* r: the names seen, the spelling of each name now, and the node renamed last.
declareAs(x, nn, r) == [r EXCEPT !.seen = @ \cup {nn}, !.now = (x :> nn) @@ r.now, !.out = Var(nn)]
declare(x, r) == declareAs(x, Unused(x, r.seen), r)

RenameAll(ss, r) ==
  IF ss = <<>> THEN [r EXCEPT !.out = <<>>]
  ELSE LET h == Rename(Head(ss), r) t == RenameAll(Tail(ss), h) IN [t EXCEPT !.out = <<h.out>> \o @]

Leave(r, now, node) == [r EXCEPT !.now = now, !.out = node]
Rename(s, r) ==
  LET es(now) == Made([i \in DOMAIN s.e |-> Renamed(s.e[i], now)])
      own == CASE s.k \in {"arm", "catch"} /\ s.e # <<>> -> declare(s.e[1].x, r)
               [] s.k = "forin" -> declare(s.x, r)
               [] OTHER -> r
      in == RenameAll(s.s, own)
  IN CASE s.k = "let" -> LET d == declare(s.x, r) IN [d EXCEPT !.out = [s EXCEPT !.x = d.out.x, !.e = es(r.now)]]
       [] s.k = "case" -> [in EXCEPT !.out = [s EXCEPT !.e = es(r.now), !.s = in.out]]
       [] s.k = "for" -> Leave(in, r.now, [s EXCEPT !.e = es(in.now), !.s = in.out])
       [] s.k = "forin" -> Leave(in, r.now, [s EXCEPT !.x = own.out.x, !.e = es(r.now), !.s = in.out])
       [] s.k \in {"arm", "catch"} -> Leave(in, r.now, [s EXCEPT !.e = es(own.now), !.s = in.out])
       [] OTHER -> Leave(in, r.now, [s EXCEPT !.e = es(r.now), !.s = in.out])

UniqueNames(items, params) ==
  RenameAll(items, [seen |-> params, now |-> [p \in params |-> p], out |-> <<>>]).out

-----------------------------------------------------------------------------
\* Hoisting: h.pre are the statements that run first, h.e is what is left of the
\* expression (of the expressions, for a list).

H(pre, e) == [pre |-> pre, e |-> e]
Bound(base, e, pre) == H(Append(pre, Let(Fresh(base, e), <<e>>)), Var(Fresh(base, e)))
spill(c) == Bound("sp", c, <<>>)

\* Mutant of rval: what runs before an await stays in the expression.
RECURSIVE hoist(_)
rvalKept(c) == IF hasAwait(c) THEN hoist(c) ELSE H(<<>>, c)
rval(c) == IF hasAwait(c) THEN hoist(c) ELSE IF hasSideEffects(c) THEN spill(c) ELSE H(<<>>, c)

MayHoist(e) == IF hasAwait(e) THEN hoist(e) ELSE H(<<>>, e)
\* A part of an assignment target, held when a later await follows.
Sub(c, spillParts) == IF hasAwait(c) THEN hoist(c) ELSE IF spillParts /\ hasSideEffects(c) THEN spill(c) ELSE H(<<>>, c)

List(hs) == H(FlattenSeq(Made([i \in DOMAIN hs |-> hs[i].pre])), Made([i \in DOMAIN hs |-> hs[i].e]))
Around(node, h) == H(h.pre, [node EXCEPT !.e = h.e])
place(e, spillParts) ==
  IF e.k = "var" THEN H(<<>>, e)
  ELSE Around(e, List(Made([i \in DOMAIN e.e |-> Sub(e.e[i], spillParts)])))

\* Operands before the last one that awaits are held; those after it run after it.
Operands(es) ==
  LET last == Max({0} \cup {i \in DOMAIN es : hasAwait(es[i])})
  IN List(Made([i \in DOMAIN es |-> IF i < last THEN rval(es[i]) ELSE IF i = last THEN hoist(es[i]) ELSE H(<<>>, es[i])]))

ShortCircuit(e, l, r) ==
  LET t == Var(Fresh("sc", e))
      setTrue == Block(<<Set(t, True)>>)
      right == Block(Append(r.pre, If(r.e, setTrue, Block(<<>>))))
      first == <<Let(t.x, <<False>>)>>
  IN H(l.pre \o first \o <<IF e.x = <<"&&">> THEN If(l.e, right, Block(<<>>)) ELSE If(l.e, setTrue, right)>>, t)

Arm(t, h) == Block(Append(h.pre, Set(t, h.e)))
Choice(e, t, c) ==
  H(c.pre \o <<Let(t.x, <<>>), If(c.e, Arm(t, MayHoist(e.e[2])), Arm(t, MayHoist(e.e[3])))>>, t)

AssignHoisted(l, r) == H(l.pre \o r.pre, Assign(l.e, r.e))
hoist(e) ==
  CASE e.k = "await" -> LET o == MayHoist(e.e[1]) IN Bound("aw", [e EXCEPT !.e = <<o.e>>], o.pre)
    [] e.k = "lam" -> H(<<>>, e)
    [] e.k = "bin" /\ e.x[1] \in {"&&", "||"} /\ hasAwait(e.e[2]) -> ShortCircuit(e, MayHoist(e.e[1]), hoist(e.e[2]))
    [] e.k = "assign" -> AssignHoisted(place(e.e[1], hasAwait(e.e[2])), MayHoist(e.e[2]))
    [] e.k = "tern" /\ (hasAwait(e.e[2]) \/ hasAwait(e.e[3])) -> Choice(e, Var(Fresh("tn", e)), MayHoist(e.e[1]))
    [] OTHER -> Around(e, Operands(e.e))

-----------------------------------------------------------------------------
\* Every await the whole initializer of a let; loops that await in their test or step
\* run these at the top of each pass.

RECURSIVE desugarStmt(_), desugarItems(_)
WithPre(pre, s) == IF pre = <<>> THEN s ELSE Block(Append(pre, s))
Hoisted(s) == LET h == MayHoist(s.e[1]) IN WithPre(h.pre, [s EXCEPT !.e[1] = h.e])

\* The await of a let stays where it is: only its operand is hoisted.
LetItem(d) ==
  IF d.e = <<>> \/ ~hasAwait(d.e[1]) THEN <<d>>
  ELSE IF d.e[1].k = "await" THEN LET o == MayHoist(d.e[1].e[1]) IN Append(o.pre, [d EXCEPT !.e[1].e[1] = o.e])
  ELSE LET h == hoist(d.e[1]) IN Append(h.pre, [d EXCEPT !.e[1] = h.e])

desugarItems(its) ==
  FlattenSeq(Made([i \in DOMAIN its |-> IF its[i].k = "let" THEN LetItem(its[i]) ELSE <<desugarStmt(its[i])>>]))

\* `await E;` discards the value; what is left of another expression is evaluated.
Evaluated(h) == IF h.e.k = "var" THEN h.pre ELSE Append(h.pre, ExprStmt(h.e))

breakUnless(c) == If(c, Block(<<>>), Block(<<Stmt("break", <<>>, <<>>)>>))
Test(h) == Append(h.pre, breakUnless(h.e))
While(c, body) == Stmt("while", <<c>>, <<body>>)
Once(first, rest) == If(Var(first), Block(<<Set(Var(first), False)>>), Block(rest))
\* A while (true) whose first pass skips `rest`.
FirstSkips(first, rest, test, body) ==
  <<Let(first, <<True>>), While(True, Block(<<Once(first, rest)>> \o test \o <<body>>))>>

desugarFor(f, init, body) ==
  IF ~hasAwait(f.e[1]) /\ ~hasAwait(f.e[2]) THEN [f EXCEPT !.s = <<init, body>>]
  ELSE LET step == IF f.e[2].k = "none" THEN <<>> ELSE Evaluated(MayHoist(f.e[2]))
           test == IF f.e[1].k = "none" THEN <<>> ELSE Test(MayHoist(f.e[1]))
       IN Block(<<init>> \o FirstSkips(Fresh("first", f.e[1]) \o Labels(f.e[2]), step, test, body))

\* for (x in it): a counted loop; an iterable that is not a variable is held.
desugarForIn(f, h) ==
  LET idx == Var(<<"i">> \o f.x)
      held == h.e.k # "var"
      it == IF held THEN Var(<<"it">> \o f.x) ELSE h.e
      init == Block((IF held THEN <<Let(it.x, <<h.e>>)>> ELSE <<>>) \o <<Let(idx.x, <<Zero>>)>>)
      body == Block(<<Let(f.x, <<Expr("index", <<>>, <<it, idx>>)>>), desugarStmt(f.s[1])>>)
  IN WithPre(h.pre, Stmt("for", <<Expr("bin", <<"<">>, <<idx, it>>),
                                  Assign(idx, Expr("bin", <<"+">>, <<idx, Val(<<"1">>)>>))>>, <<init, body>>))

desugarStmt(s) ==
  LET inside == [s EXCEPT !.s = Made([i \in DOMAIN s.s |-> desugarStmt(s.s[i])])]
  IN CASE s.k = "expr" /\ hasAwait(s) -> Block(Evaluated(hoist(s.e[1])))
       [] s.k \in {"return", "throw", "if", "switch", "match"} /\ s.e # <<>> -> Hoisted(inside)
       [] s.k = "let" -> Block(LetItem(s))
       [] s.k = "block" -> Block(desugarItems(s.s))
       [] s.k = "case" -> [s EXCEPT !.s = <<Block(desugarItems(s.s))>>]
       [] s.k = "while" /\ hasAwait(s.e[1]) -> While(True, Block(Test(hoist(s.e[1])) \o inside.s))
       [] s.k = "do" /\ hasAwait(s.e[1]) ->
            Block(FirstSkips(Fresh("first", s.e[1]), Test(hoist(s.e[1])), <<>>, inside.s[1]))
       [] s.k = "for" -> desugarFor(s, IF s.s[1].k = "let" THEN Block(LetItem(s.s[1])) ELSE inside.s[1], inside.s[2])
       [] s.k = "forin" -> desugarForIn(s, MayHoist(s.e[1]))
       [] OTHER -> inside

-----------------------------------------------------------------------------
\* Closure locals that own the env of the lambda bound to them (OwnedClosureScan).

IsLam(e) == e.k = "lam"
Rebinds(s) == s.k = "expr" /\ s.e[1].k = "assign" /\ s.e[1].e[1].k = "var" /\ IsLam(s.e[1].e[2])
Bindings(ns, x) ==
  {i \in DOMAIN ns : \/ ns[i].k = "let" /\ ns[i].x = x /\ ns[i].e # <<>> /\ IsLam(ns[i].e[1])
                     \/ Rebinds(ns[i]) /\ ns[i].e[1].e[1].x = x}
owned(ns) ==
  LET uses(x) == Cardinality({i \in DOMAIN ns : ns[i].k \in {"var", "lam"} /\ ns[i].x = x})
      allowed(x) == Cardinality({i \in DOMAIN ns : \/ ns[i].k = "run" /\ ns[i].e[1].x = x
                                                   \/ Rebinds(ns[i]) /\ ns[i].e[1].e[1].x = x})
      bad == {ns[i].x : i \in {j \in DOMAIN ns : ns[j].k = "let" /\ ns[j].e # <<>> /\ ~IsLam(ns[j].e[1])}}
               \cup {ns[i].s[1].x : i \in {j \in DOMAIN ns : ns[j].k = "for"}}
  IN {x \in {ns[i].x : i \in DOMAIN ns} \ bad : Bindings(ns, x) # {} /\ uses(x) = allowed(x)}

RECURSIVE freeBeforeRebind(_, _)
BeforeItem(s, own) ==
  IF s.k = "let" THEN (IF s.e # <<>> /\ s.x \in own THEN <<Free(Var(s.x))>> ELSE <<>>) \o <<s>>
  ELSE <<freeBeforeRebind(s, own)>>
freeBeforeRebind(s, own) ==
  CASE Rebinds(s) /\ s.e[1].e[1].x \in own -> Block(<<Free(s.e[1].e[1]), s>>)
    [] s.k = "for" -> [s EXCEPT !.s[2] = freeBeforeRebind(s.s[2], own)]
    [] OTHER -> [s EXCEPT !.s = FlattenSeq(Made([i \in DOMAIN s.s |-> BeforeItem(s.s[i], own)]))]

-----------------------------------------------------------------------------
(***************************************************************************)
(* The state graph. b.states, and for each state its region, whether it is *)
(* part of a cancelled future's cleanup, and the frames of cleanups        *)
(* pending in it; b.at is the state being filled, 0 when control has left; *)
(* b.frames holds one frame of cleanups per split block or finally.        *)
(***************************************************************************)
Builder(vars) ==
  [states |-> <<>>, reg |-> <<>>, cancels |-> <<>>, pend |-> <<>>, regions |-> <<>>, cur |-> 0, frames |-> <<>>,
   brk |-> <<>>, cont |-> <<>>, cancel |-> FALSE, sites |-> <<>>, drops |-> <<>>, excs |-> {}, vars |-> vars,
   at |-> 0, out |-> <<>>]

Times(n, x) == Made([i \in 1..n |-> x])
Allocate(b, n, region, depth) ==
  [b EXCEPT !.states = @ \o Times(n, <<>>), !.reg = @ \o Times(n, region), !.cancels = @ \o Times(n, b.cancel),
            !.pend = @ \o Times(n, SubSeq(b.frames, 1, Min({depth, Len(b.frames)})))]
newStateIn(b, region, depth) == Allocate(b, 1, region, depth)
newStates(b, n) == Allocate(b, n, b.cur, Len(b.frames))
newState(b) == newStates(b, 1)
Size(b) == Len(b.states)

At(b, st) == [b EXCEPT !.at = st]
Emit(b, ss) == [b EXCEPT !.states[b.at] = @ \o ss]
goTo(b, target) == IF b.at = 0 THEN b ELSE At(Emit(b, <<Goto(target)>>), 0)
\* Continue in a new state of the region.
Continue(b, region, depth) == At(goTo(newStateIn(b, region, depth), Size(b) + 1), Size(b) + 1)

cleanupAwaits(frames, from, to) ==
  \E f \in from + 1..Min({to, Len(frames)}) : \E i \in DOMAIN frames[f] : stmtHasAwait(frames[f][i])
\* The cleanups of the frames above `from`, innermost first.
Pending(frames, from, to) == FlattenSeq(Made([i \in 1..to - from |-> Reverse(frames[to + 1 - i])]))
emitDefers(b, downTo) == Pending(b.frames, downTo, Len(b.frames))

publish == <<Stmt("excFree", <<>>, <<>>), Stmt("publish", <<>>, <<>>)>>
Result(v) == Set(fr(<<"ret">>), v)
completeInto(b, v) == <<Result(v)>> \o emitDefers(b, 0) \o publish

RECURSIVE rewrite(_, _), rewritePlain(_, _)
rewrite(e, vars) ==
  IF e.k = "var" THEN (IF e.x \in vars THEN fr(e.x) ELSE e)
  ELSE [e EXCEPT !.e = Made([i \in DOMAIN e.e |-> rewrite(e.e[i], vars)])]
Value(s, b) == IF s.e = <<>> THEN Zero ELSE rewrite(s.e[1], b.vars)
initField(d, b) == Set(fr(d.x), rewrite(d.e[1], b.vars))

rewritePlain(s, b) ==
  CASE s.k = "let" -> IF s.e = <<>> THEN None ELSE initField(s, b)
    [] s.k = "return" -> Block(completeInto(b, Value(s, b)))
    [] OTHER -> [s EXCEPT !.e = IF s.k \in {"arm", "catch"} THEN @ ELSE Made([i \in DOMAIN s.e |-> rewrite(s.e[i], b.vars)]),
                          !.s = Made([i \in DOMAIN s.s |-> rewritePlain(s.s[i], b)])]

RECURSIVE lowerStmt(_, _), lowerAll(_, _), runFrames(_, _, _, _), Entries(_, _, _, _), LeaveRegions(_, _),
          lowerCases(_, _, _), lowerArms(_, _, _, _), lowerHandlers(_, _, _, _, _)

\* Frames f, f-1 .. downTo+1 from b.at. A frame below its region's base runs in a state of
\* the enclosing region, and a cleanup that awaits in states of its own, those under it
\* still pending.
runFrames(b, f, reg, downTo) ==
  IF b.at = 0 \/ f <= downTo THEN b
  ELSE IF reg # 0 /\ f - 1 < b.regions[reg].base
       THEN runFrames(Continue(b, b.regions[reg].parent, f - 1), f, b.regions[reg].parent, downTo)
  ELSE runFrames(Entries(b, f, Len(b.frames[f]), reg), f - 1, reg, downTo)

Under(b, f, k, reg) == [b EXCEPT !.frames = Append(SubSeq(@, 1, f - 1), SubSeq(@[f], 1, k - 1)), !.cur = reg]
InOwnStates(entry, u) == lowerStmt(entry, Continue(u, u.cur, Len(u.frames)))
Entries(b, f, k, reg) ==
  IF b.at = 0 \/ k = 0 THEN b
  ELSE IF ~stmtHasAwait(b.frames[f][k]) THEN Entries(Emit(b, <<b.frames[f][k]>>), f, k - 1, reg)
  ELSE Entries([InOwnStates(b.frames[f][k], Under(b, f, k, reg)) EXCEPT !.frames = b.frames, !.cur = b.cur],
               f, k - 1, reg)

Run(b, downTo) == runFrames(b, Len(b.frames), IF b.at = 0 THEN 0 ELSE b.reg[b.at], downTo)
LeaveRegions(b, downTo) ==
  IF b.reg[b.at] = 0 THEN b ELSE LeaveRegions(Continue(b, b.regions[b.reg[b.at]].parent, downTo), downTo)
Complete(b) == IF b.at = 0 THEN b ELSE At(Emit(LeaveRegions(b, 0), publish), 0)
emitExit(b, downTo, target) == goTo(Run(b, downTo), target)

\* The await of a let: start the future, park or go on, and take the value in a new state.
\* A drop at it runs the frames pending here.
lowerAwait(d, b, next) ==
  LET aw == fr(<<"future">> \o d.x)
      parked == goTo(Emit(newState(b), <<Set(aw, rewrite(d.e[1].e[1], b.vars)),
                                         [Stmt("park", <<aw>>, <<>>) EXCEPT !.n = next]>>), next)
      site == IF (\E f \in DOMAIN b.frames : b.frames[f] # <<>>) /\ ~b.cancel
              THEN <<[parked |-> b.at, frames |-> b.frames]>> ELSE <<>>
  IN Emit(At([parked EXCEPT !.sites = @ \o site], next), <<Stmt("extract", <<fr(d.x), aw>>, <<>>)>>)

lowerItem(s, b) ==
  IF s.k # "let" THEN lowerStmt(s, b)
  ELSE IF s.e = <<>> THEN b
  ELSE IF s.e[1].k = "await" THEN lowerAwait(s, b, Size(b) + 1)
  ELSE Emit(b, <<initField(s, b)>>)

\* In a split try the cleanups pending in a state are fixed: a defer begins a new state.
FreshInTry(b) == IF b.at # 0 /\ b.reg[b.at] # 0 THEN Continue(b, b.reg[b.at], Len(b.frames)) ELSE b
Register(d, b) ==
  FreshInTry([b EXCEPT !.frames[Len(b.frames)] = Append(@, IF stmtHasAwait(d) THEN d ELSE rewritePlain(d, b))])
lowerAll(its, b) ==
  IF its = <<>> \/ b.at = 0 THEN b
  ELSE lowerAll(Tail(its), IF Head(its).k = "defer" THEN Register(Head(its).s[1], b) ELSE lowerItem(Head(its), b))
endSeq(b) ==
  LET closed == [Run(b, Len(b.frames) - 1) EXCEPT !.frames = Front(b.frames)]
  IN IF Last(b.frames) = <<>> THEN closed ELSE FreshInTry(closed)
lowerSeq(its, b) == endSeq(lowerAll(its, [b EXCEPT !.frames = Append(@, <<>>)]))

\* Lower a statement from state `from`, then go to `to`.
From(s, b, from, to) == goTo(lowerStmt(s, At(b, from)), to)
IfGoto(c, a, b) == If(c, Block(<<Goto(a)>>), Block(<<Goto(b)>>))

\* Both arms join; the join is reached when an arm does.
lowerIf(s, b, n) ==
  LET then == lowerStmt(s.s[1], At(Emit(newStates(b, 3), <<IfGoto(rewrite(s.e[1], b.vars), n, n + 1)>>), n))
      else == lowerStmt(s.s[2], At(goTo(then, n + 2), n + 1))
  IN At(goTo(else, n + 2), IF then.at = 0 /\ else.at = 0 THEN 0 ELSE n + 2)

\* A loop's body, whose break goes to `after` and whose continue to `again`.
Target(b, st) == [to |-> st, depth |-> Len(b.frames)]
InLoop(b, after, again) == [b EXCEPT !.brk = Append(@, Target(b, after)), !.cont = Append(@, Target(b, again))]
OutOfLoop(b) == [b EXCEPT !.brk = Front(b.brk), !.cont = Front(b.cont)]
lowerBody(s, b, from, again, after) == At(goTo(OutOfLoop(lowerStmt(s, At(InLoop(b, after, again), from))), again), after)

\* header n, body n + 1, after n + 2
lowerWhile(s, b, n) ==
  lowerBody(s.s[1], Emit(At(goTo(newStates(b, 3), n), n), <<IfGoto(rewrite(s.e[1], b.vars), n + 1, n + 2)>>),
            n + 1, n, n + 2)
\* body n, test n + 1, after n + 2
lowerDo(s, b, n) ==
  lowerBody(s.s[1], Emit(At(goTo(newStates(b, 3), n), n + 1), <<IfGoto(rewrite(s.e[1], b.vars), n, n + 2)>>),
            n, n + 1, n + 2)
\* header n, body n + 1, step n + 2, after n + 3
lowerFor(s, b, n) ==
  LET head == Emit(At(goTo(newStates(b, 4), n), n),
                   IF s.e[1].k = "none" THEN <<Goto(n + 1)>> ELSE <<IfGoto(rewrite(s.e[1], b.vars), n + 1, n + 3)>>)
      step == IF s.e[2].k = "none" THEN <<>> ELSE <<ExprStmt(rewrite(s.e[2], b.vars))>>
  IN lowerBody(s.s[2], goTo(Emit(At(head, n + 2), step), n), n + 1, n + 2, n + 3)
ForInit(s, b) == IF stmtHasAwait(s) THEN lowerStmt(s, b) ELSE Emit(b, <<rewritePlain(s, b)>>)
lowerForFrom(s, b) == IF b.at = 0 THEN b ELSE lowerFor(s, b, Size(b) + 1)

\* The tests of a switch in order, the default when none holds; the cases fall through.
RECURSIVE Dispatch(_, _, _, _)
Dispatch(subject, cases, n, default) ==
  IF cases = <<>> THEN Goto(default)
  ELSE IF Head(cases).e = <<>> THEN Dispatch(subject, Tail(cases), n + 1, default)
  ELSE If(Expr("bin", <<"==">>, <<subject, Head(cases).e[1]>>), Block(<<Goto(n)>>),
          Block(<<Dispatch(subject, Tail(cases), n + 1, default)>>))
lowerCases(cases, b, n) ==
  IF cases = <<>> THEN b
  ELSE lowerCases(Tail(cases), goTo(lowerSeq(Head(cases).s, At(b, n)), n + 1), n + 1)
lowerSwitch(s, b, n) ==
  LET join == n + Len(s.s)
      default == Min({n + i - 1 : i \in {j \in DOMAIN s.s : s.s[j].e = <<>>}} \cup {join})
      sent == Emit(newStates(b, Len(s.s) + 1), <<Dispatch(rewrite(s.e[1], b.vars), s.s, n, default)>>)
  IN At([lowerCases(s.s, [sent EXCEPT !.brk = Append(@, Target(b, join))], n) EXCEPT !.brk = b.brk], join)

\* Each arm copies its binding to the frame and selects the arm's entry.
Chosen(arm, n) ==
  [arm EXCEPT !.e = IF arm.e = <<>> THEN <<>> ELSE <<Var(<<"mb">>)>>,
              !.s = <<Block((IF arm.e = <<>> THEN <<>> ELSE <<Set(fr(arm.e[1].x), Var(<<"mb">>))>>) \o <<Goto(n)>>)>>]
Binders(arms) == {arms[i].e[1].x : i \in {j \in DOMAIN arms : arms[j].e # <<>>}}
lowerArms(arms, b, n, join) ==
  IF arms = <<>> THEN At(b, join) ELSE lowerArms(Tail(arms), From(Head(arms).s[1], b, n, join), n + 1, join)
lowerMatch(s, b, n) ==
  lowerArms(s.s, [Emit(newStates(b, Len(s.s) + 1),
                       <<Goto(n + Len(s.s)), [s EXCEPT !.e = <<rewrite(s.e[1], b.vars)>>,
                                                       !.s = Made([i \in DOMAIN s.s |-> Chosen(s.s[i], n + i - 1)])]>>)
                  EXCEPT !.vars = @ \cup Binders(s.s)], n, n + Len(s.s))

\* A try: its body's states are one region, its handlers' another; a finally is a frame
\* of cleanups under both. State n is what follows; b.out is whether it is reached.
Region(b, parent, start, catches, fin) ==
  [b EXCEPT !.regions = Append(@, [parent |-> parent, start |-> start, base |-> Len(b.frames), catches |-> catches, fin |-> fin])]
Ended(b, start, after) == emitExit([b EXCEPT !.out = @ \/ b.at # 0], start, after)
lowerHandlers(catches, b, n, start, after) ==
  IF catches = <<>> THEN b
  ELSE lowerHandlers(Tail(catches), Ended(lowerStmt(Head(catches).s[1], At(b, n)), start, after), n + 1, start, after)
Caught(c, st) == [type |-> c.x, var |-> IF c.e = <<>> THEN <<>> ELSE c.e[1].x, to |-> st]

\* rb, rh: the two regions; the handlers' states follow `after`, then the body's.
lowerInside(s, catches, b, start, after) ==
  LET rb == Len(b.regions) - 1
      handlers == Len(catches)
      body == lowerStmt(s.s[1], Continue([newStates([b EXCEPT !.cur = rb + 1], handlers) EXCEPT !.cur = rb, !.at = b.at],
                                         rb, Len(b.frames)))
  IN lowerHandlers(catches, [Ended(body, start, after) EXCEPT !.cur = rb + 1], after + 1, start, after)
TryRegions(b, start, catches, fin, after) ==
  Region(Region(b, b.cur, start, Made([i \in DOMAIN catches |-> Caught(catches[i], after + i)]), fin), b.cur, start, <<>>, fin)
InTry(b, fin, catches) ==
  [b EXCEPT !.frames = IF fin = <<>> THEN @ ELSE Append(@, fin), !.vars = @ \cup Binders(catches), !.out = FALSE]
AfterTry(t, b, after) ==
  At([t EXCEPT !.frames = b.frames, !.cur = b.cur, !.out = b.out], IF t.out THEN after ELSE 0)
lowerTry(s, b, n) ==
  LET catches == SubSeq(s.s, 2, Len(s.s) - 1)
      f == Last(s.s)
      fin == IF f.k = "none" THEN <<>> ELSE <<IF stmtHasAwait(f) THEN f ELSE rewritePlain(f, b)>>
      inside == TryRegions(InTry(newState(b), fin, catches), Len(b.frames), catches, fin, n)
  IN AfterTry(lowerInside(s, catches, inside, Len(b.frames), n), b, n)

\* Emitted as it is, unless it awaits, a jump of it leaves it, or (in a split try, or
\* under a cleanup that awaits) it returns.
IsPlain(s, b) ==
  /\ ~stmtHasAwait(s) /\ ~escapesIn(s, FALSE)
  /\ ~((b.reg[b.at] # 0 \/ cleanupAwaits(b.frames, 0, Len(b.frames))) /\ stmtHasReturn(s))
Plain(s, b) == At(Emit(b, <<rewritePlain(s, b)>>), IF stmtTerminates(s) THEN 0 ELSE b.at)

lowerStmt(s, b) ==
  CASE s.k = "return" -> Complete(Run(Emit(b, <<Result(Value(s, b))>>), 0))
    [] s.k = "break" -> emitExit(b, Last(b.brk).depth, Last(b.brk).to)
    [] s.k = "continue" -> emitExit(b, Last(b.cont).depth, Last(b.cont).to)
    [] IsPlain(s, b) -> Plain(s, b)
    [] s.k = "if" -> lowerIf(s, b, Size(b) + 1)
    [] s.k = "while" -> lowerWhile(s, b, Size(b) + 1)
    [] s.k = "do" -> lowerDo(s, b, Size(b) + 1)
    [] s.k = "for" -> lowerForFrom(s, ForInit(s.s[1], b))
    [] s.k = "switch" -> lowerSwitch(s, b, Size(b) + 1)
    [] s.k = "match" -> lowerMatch(s, b, Size(b) + 1)
    [] s.k = "try" -> lowerTry(s, b, Size(b) + 1)
    [] s.k = "block" -> lowerSeq(s.s, b)

-----------------------------------------------------------------------------
\* Cancellation: the frames pending at the await run once, from states of their own.

dropEnd == <<Stmt("excFree", <<>>, <<>>), Stmt("leave", <<>>, <<>>)>>
Detached(b, site) == cleanupAwaits(site.frames, 0, Len(site.frames))
DropStates(b, site) ==
  LET run == Run(At(newStateIn([b EXCEPT !.frames = site.frames, !.cur = 0, !.cancel = TRUE], 0, 0), Size(b) + 1), 0)
  IN IF run.at = 0 THEN run ELSE Emit(run, dropEnd)
buildDrop(b, site) ==
  [DropStates(b, site) EXCEPT !.frames = b.frames, !.cur = b.cur, !.cancel = b.cancel,
                              !.drops = Append(@, [parked |-> site.parked, cleanup |-> Size(b) + 1])]

\* The field that keeps an exception while a cleanup awaits.
excField(r) == fr(<<"exc", ToString(r)>>)
freeExc(r) == Stmt("freeExc", <<excField(r)>>, <<>>)

\* The cleanups of frames 1..top above downTo, lowered from a new state of the region: it
\* is Size(b) + 1, and b.at the state where they have run.
ThenNew(b, downTo) == IF b.at = 0 THEN b ELSE Continue(b, b.reg[b.at], downTo)
cleanupStates(b, frames, region, depth, downTo) ==
  [ThenNew(Run(At(newStateIn([b EXCEPT !.frames = frames, !.cur = region], region, depth), Size(b) + 1), downTo), downTo)
     EXCEPT !.frames = b.frames, !.cur = b.cur]

\* A handler of the wrapping try: b.out collects them.
Handler(type, body) == Node("catch", type, <<Var(<<"cx">>)>>, <<Block(body)>>)
Bind(c) == IF c.var = <<>> THEN <<>> ELSE <<Set(fr(c.var), Var(<<"cx">>))>>
RECURSIVE wrapCatches(_, _, _, _), wrapIn(_, _, _, _)
CatchAfter(b, c, to, pend) == [b EXCEPT !.out = Append(@, Handler(c.type, pend \o Bind(c) \o <<Goto(to)>>))]
wrapCatches(catches, b, rg, frames) ==
  IF catches = <<>> THEN b
  ELSE wrapCatches(Tail(catches),
         IF cleanupAwaits(frames, rg.base, Len(frames))
         THEN CatchAfter(goTo(cleanupStates(b, frames, b.reg[Head(catches).to], rg.base, rg.base), Head(catches).to),
                         Head(catches), Size(b) + 1, <<>>)
         ELSE CatchAfter(b, Head(catches), Head(catches).to, Pending(frames, rg.base, Len(frames))), rg, frames)

\* Unwinding: in place, or kept in a field while states of the enclosing region run the
\* cleanups that await, and thrown again.
rethrow(r) ==
  <<Block(<<Let(<<"rx">>, <<excField(r)>>), Set(excField(r), Zero), Stmt("throw", <<Var(<<"rx">>)>>, <<>>)>>)>>
Rethrown(b, r) == IF b.at = 0 THEN b ELSE Emit(b, rethrow(r))
captureAll(b, r, rg, frames) ==
  [Rethrown(cleanupStates(b, frames, rg.parent, rg.start, rg.start), r) EXCEPT
     !.out = Append(@, Handler(<<"*">>, <<freeExc(r), Set(excField(r), Var(<<"cx">>)), Goto(Size(b) + 1)>>)),
     !.excs = @ \cup {r}]
TryOf(x, catches, unwind) ==
  IF catches = <<>> /\ unwind = <<>> THEN x
  ELSE <<[Stmt("try", <<>>, <<Block(x)>> \o catches \o <<IF unwind = <<>> THEN None ELSE Block(unwind)>>) EXCEPT !.n = 1]>>

Unwind(rg, frames) ==
  IF cleanupAwaits(frames, rg.start, Len(frames)) THEN <<>> ELSE Pending(frames, rg.base, Len(frames)) \o rg.fin
WithCapture(b, r, rg, frames) == IF cleanupAwaits(frames, rg.start, Len(frames)) THEN captureAll(b, r, rg, frames) ELSE b
WithCatches(b, rg, frames) == wrapCatches(rg.catches, [b EXCEPT !.out = <<>>], rg, frames)

\* The statements x of a state in region r with these frames pending, tried in it and in
\* the regions around it; b.out holds what the region's try catches.
Outwards(x, b, rg, frames) == wrapIn(TryOf(x, b.out, Unwind(rg, frames)), b, rg.parent, SubSeq(frames, 1, rg.start))
wrapIn(x, b, r, frames) ==
  IF r = 0 THEN [b EXCEPT !.out = x]
  ELSE Outwards(x, WithCapture(WithCatches(b, b.regions[r], frames), r, b.regions[r], frames), b.regions[r], frames)
Wrapped(w, b, si) == [w EXCEPT !.states[si] = w.out, !.cancel = b.cancel, !.at = 0]
wrapState(b, si) ==
  IF b.reg[si] = 0 THEN b
  ELSE Wrapped(wrapIn(<<Block(b.states[si])>>, [b EXCEPT !.cancel = b.cancels[si]], b.reg[si], b.pend[si]), b, si)

\* Wrapping a state and cancelling at an await can each produce states the other needs.
RECURSIVE Finished(_, _)
Finished(b, wrapped) ==
  IF Len(b.drops) < Len(b.sites) /\ wrapped \in {0, Size(b)} THEN Finished(buildDrop(b, b.sites[Len(b.drops) + 1]), wrapped)
  ELSE IF wrapped < Size(b) THEN Finished(wrapState(b, wrapped + 1), wrapped + 1)
  ELSE b

\* A statement that creates a lambda gets a copy of the fields the lambda captures.
RECURSIVE lambdaCaps(_), wrapCaps(_, _)
lambdaCaps(e) == IF IsLam(e) THEN {e.x} ELSE UNION {lambdaCaps(e.e[i]) : i \in DOMAIN e.e}
Snapshot(s, caps) ==
  IF caps = {} THEN s ELSE Block(Append(SetToSeq({Let(x, <<fr(x)>>) : x \in caps}), s))
wrapCaps(s, vars) ==
  Snapshot([s EXCEPT !.s = Made([i \in DOMAIN s.s |-> wrapCaps(s.s[i], vars)])],
           IF s.k = "let" THEN {} ELSE vars \cap UNION {lambdaCaps(s.e[i]) : i \in DOMAIN s.e})

-----------------------------------------------------------------------------
\* The frame and the resume function: the states, where a drop at a parked state resumes,
\* and what the frame's end releases.

LetNames(ns) == {ns[i].x : i \in {j \in DOMAIN ns : ns[j].k = "let"}}
Lowered(b) == IF b.at = 0 THEN b ELSE Emit(b, completeInto(b, Zero))
States(its, vars) == Finished(Lowered(lowerSeq(its, At(newState(Builder(vars)), 1))), 0)
Machine(b, own) ==
  [states |-> Made([i \in DOMAIN b.states |-> wrapCaps(Block(b.states[i]), b.vars)]),
   drops |-> b.drops,
   excFree |-> SetToSeq({freeExc(r) : r \in b.excs}) \o SetToSeq({Free(fr(x)) : x \in own})]
OfBody(body, params, own) ==
  Machine(States(freeBeforeRebind(body, own).s, params \cup LetNames(Nodes(body))), own)
FromItems(body, params) == OfBody(body, params, owned(Nodes(body)))
lower(items, params) == FromItems(Block(desugarItems(UniqueNames(items, params))), params)
=============================================================================
