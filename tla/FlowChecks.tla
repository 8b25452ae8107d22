----------------------------- MODULE FlowChecks -----------------------------
(***************************************************************************)
(* The type checker's analyses of control flow, over the statements of     *)
(* Lowering.tla: whether a body can end without returning and which reads  *)
(* may find a variable unassigned (typecheck_decl.cpp), and which nullable *)
(* pointers are proven non-null where (typecheck_stmt.cpp,                 *)
(* typecheck_expr.cpp).                                                    *)
(*                                                                         *)
(* A condition is a record: "any" (unknown), "true" (a constant), "nz" and *)
(* "ez" (v != null, v == null), "not", "and", "or", "call" (a call's       *)
(* result), "set" (an assignment tested for non-null), "addr" (a call that *)
(* is handed &v) and "use" (the value behind v).                           *)
(***************************************************************************)
EXTENDS Integers, Sequences, SequencesExt, FiniteSetsExt

CONSTANTS Nullables, Globals, Scalars   \* the variables: ?*T ones, the global ones among them, numbers

VariableKinds == Globals \subseteq Nullables /\ Nullables \cap Scalars = {}

\* The statements and conditions directly inside a statement.
Kids(s) ==
  CASE s.k = "block" -> s.items
    [] s.k = "if" -> <<s.then, s.else>>
    [] s.k = "loop" -> s.init \o <<s.body>> \o s.step
    [] s.k = "match" -> s.arms
    [] s.k = "switch" -> FlattenSeq(s.cases)
    [] s.k = "try" -> <<s.body>> \o s.catches \o (IF s.finally.k = "none" THEN <<>> ELSE <<s.finally.body>>)
    [] s.k = "defer" -> <<s.body>>
    [] OTHER -> <<>>

RECURSIVE containsEH(_)
\* The function throws or handles exceptions.
containsEH(s) == s.k \in {"throw", "try"} \/ \E i \in DOMAIN Kids(s) : containsEH(Kids(s)[i])

-----------------------------------------------------------------------------
\* Can control reach the end of a statement?  (canCompleteNormally)

RECURSIVE jumpsTo(_, _, _, _), canCompleteNormally(_)

\* A break (or continue) in s to the loop or switch around it; inner: an
\* unlabelled one now belongs to something nearer.
jumpsTo(s, label, wantContinue, inner) ==
  CASE s.k = "break" -> ~wantContinue /\ (IF s.label = "" THEN ~inner ELSE s.label = label)
    [] s.k = "continue" -> wantContinue /\ (IF s.label = "" THEN ~inner ELSE s.label = label)
    [] s.k = "loop" -> jumpsTo(s.body, label, wantContinue, TRUE)
    [] s.k = "switch" -> \E i \in DOMAIN Kids(s) :
                           jumpsTo(Kids(s)[i], label, wantContinue, inner \/ ~wantContinue)
    [] s.k \in {"block", "if", "match", "try"} ->
         \E i \in DOMAIN Kids(s) : jumpsTo(Kids(s)[i], label, wantContinue, inner)
    [] OTHER -> FALSE      \* a defer body may not jump out of itself

Complete(ss) == \A i \in DOMAIN ss : canCompleteNormally(ss[i])

canCompleteNormally(s) ==
  CASE s.k \in {"return", "throw", "break", "continue"} -> FALSE
    [] s.k = "block" -> Complete(s.items)
    [] s.k = "if" -> s.else.k = "none" \/ canCompleteNormally(s.then) \/ canCompleteNormally(s.else)
    [] s.k = "loop" ->
         \/ jumpsTo(s.body, s.label, FALSE, FALSE)
         \/ /\ s.c.k # "true"
            /\ s.form = "do" => canCompleteNormally(s.body) \/ jumpsTo(s.body, s.label, TRUE, FALSE)
    [] s.k = "switch" ->
         \/ ~s.default \/ s.cases = <<>>
         \/ \E i \in DOMAIN Kids(s) : jumpsTo(Kids(s)[i], "", FALSE, FALSE)
         \/ Complete(Last(s.cases))
    [] s.k = "match" -> s.arms = <<>> \/ \E i \in DOMAIN s.arms : canCompleteNormally(s.arms[i])
    [] s.k = "try" ->
         /\ s.finally.k # "none" => canCompleteNormally(s.finally.body)
         /\ \/ canCompleteNormally(s.body)
            \/ \E i \in DOMAIN s.catches : canCompleteNormally(s.catches[i])
    [] OTHER -> TRUE

-----------------------------------------------------------------------------
\* Null narrowing

RECURSIVE CondVars(_, _), exprHasCall(_), AssignedIn(_), AssignedInAny(_), Taken(_), condNarrowings(_, _, _, _)

\* The variables whose subexpressions of the given kinds occur in a condition.
CondVars(c, kinds) ==
  CASE c.k \in {"and", "or"} -> CondVars(c.l, kinds) \cup CondVars(c.r, kinds)
    [] c.k = "not" -> CondVars(c.c, kinds)
    [] OTHER -> IF c.k \in kinds THEN {c.v} ELSE {}

exprHasCall(c) ==
  CASE c.k \in {"and", "or"} -> exprHasCall(c.l) \/ exprHasCall(c.r)
    [] c.k = "not" -> exprHasCall(c.c)
    [] OTHER -> c.k \in {"call", "addr"}

OwnCond(s, kinds) == IF s.k \in {"if", "loop"} THEN CondVars(s.c, kinds) ELSE {}

\* What dropAssignedIn forgets: assigned, or its address taken, anywhere in s.
AssignedIn(s) ==
  AssignedInAny(Kids(s)) \cup OwnCond(s, {"set", "addr"})
    \cup (IF s.k \in {"set", "addr"} THEN {s.v} ELSE {})

AssignedInAny(ss) == UNION {AssignedIn(ss[i]) : i \in DOMAIN ss}

Taken(s) ==
  UNION {Taken(Kids(s)[i]) : i \in DOMAIN Kids(s)} \cup OwnCond(s, {"addr"}) \cup (IF s.k = "addr" THEN {s.v} ELSE {})

\* The variables proven non-null when c is whenTrue, added to keys. A call ends
\* what was known of the globals; what c assigns is not proven by c.
condNarrowings(c, whenTrue, keys, taken) ==
  LET before == IF exprHasCall(c) THEN keys \ Globals ELSE keys
      proven == CASE c.k = "not" -> condNarrowings(c.c, ~whenTrue, keys, taken)
                  [] c.k = (IF whenTrue THEN "and" ELSE "or") ->
                       condNarrowings(c.r, whenTrue, condNarrowings(c.l, whenTrue, keys, taken), taken)
                  [] c.k = (IF whenTrue THEN "nz" ELSE "ez") -> before \cup ({c.v} \ taken)
                  [] OTHER -> before
  IN proven \ CondVars(c, {"set", "addr"})

\* The checker's state: n the narrowed variables, taken those whose address was
\* taken so far, calls the call epoch, thenCalled and elseCalled of the last if,
\* ok while no possibly-null pointer was dereferenced.
NullStart(taken) ==
  [n |-> {}, taken |-> taken, calls |-> 0, thenCalled |-> FALSE, elseCalled |-> FALSE, ok |-> TRUE]

dropGlobalNarrowings(ns) == [ns EXCEPT !.n = @ \ Globals, !.calls = @ + 1]
Forget(ns, vs) == [ns EXCEPT !.n = @ \ vs]
markAddrTaken(ns, vs) == [ns EXCEPT !.taken = @ \cup vs]

RECURSIVE NCond(_, _), NStmt(_, _), NSeq(_, _), NBlock(_, _, _)

\* checkNullableDeref
Deref(v, ns) == IF v \in Nullables \ ns.n THEN [ns EXCEPT !.ok = FALSE] ELSE ns

\* What keys proves holds in one branch; then the ones that were new are taken back.
Assume(keys, ns) == [ns EXCEPT !.n = @ \cup keys]
Restore(keys, before, ns) == Forget(ns, keys \ before.n)

AddrOf(v, ns) == Forget(markAddrTaken(ns, {v}), {v})

NCond(c, ns) ==
  CASE c.k \in {"and", "or"} ->
         LET l == NCond(c.l, ns)
             keys == condNarrowings(c.l, c.k = "and", {}, l.taken)
         IN Restore(keys, l, NCond(c.r, Assume(keys, l)))
    [] c.k = "not" -> NCond(c.c, ns)
    [] c.k = "call" -> dropGlobalNarrowings(ns)
    [] c.k = "addr" -> dropGlobalNarrowings(AddrOf(c.v, ns))
    [] c.k = "set" -> Forget(ns, {c.v})
    [] c.k = "use" -> Deref(c.v, ns)
    [] OTHER -> ns

NSeq(ss, ns) == IF ss = <<>> THEN ns ELSE NSeq(Tail(ss), NStmt(Head(ss), ns))

NBranch(s, whenTrue, ns) ==
  LET keys == condNarrowings(s.c, whenTrue, {}, ns.taken)
  IN Restore(keys, ns, NStmt(IF whenTrue THEN s.then ELSE s.else, Assume(keys, ns)))

\* c, t and e: the state after the condition, after then and after else.
NElse(s, c, t) ==
  LET e == IF s.else.k = "none" THEN t ELSE NBranch(s, FALSE, t)
  IN [e EXCEPT !.thenCalled = t.calls # c.calls, !.elseCalled = e.calls # t.calls]

NIf(s, ns) ==
  LET c == NCond(s.c, ns) IN NElse(s, c, NBranch(s, TRUE, c))

\* What an early exit in one branch of an if proves for the rest of the block.
Guarded(s, ns) ==
  LET thenExits == ~canCompleteNormally(s.then)
      elseExits == s.else.k # "none" /\ ~canCompleteNormally(s.else)
      keys(whenTrue, called) ==
        condNarrowings(s.c, whenTrue, {}, ns.taken) \ (IF called THEN Globals ELSE {})
  IN CASE thenExits /\ ~elseExits -> [new |-> keys(FALSE, ns.elseCalled), lost |-> AssignedIn(s.else)]
       [] elseExits /\ ~thenExits -> [new |-> keys(TRUE, ns.thenCalled), lost |-> AssignedIn(s.then)]
       [] OTHER -> [new |-> {}, lost |-> {}]

\* guard: what the block's guards narrowed so far, undone at its end.
AfterGuard(ss, guard, o, g) == NBlock(ss, guard \cup (g.new \ o.n), Forget([o EXCEPT !.n = @ \cup g.new], g.lost))

NBlock(ss, guard, ns) ==
  IF ss = <<>> THEN Forget(ns, guard)
  ELSE LET o == NStmt(Head(ss), ns)
       IN AfterGuard(Tail(ss), guard, o,
            IF Head(ss).k = "if" THEN Guarded(Head(ss), o) ELSE [new |-> {}, lost |-> {}])

\* Later iterations observe what the body assigns, so that is forgotten first.
LoopHead(s, ns) ==
  Forget(markAddrTaken(ns, Taken(s.body)),
         AssignedIn(s.body) \cup CondVars(s.c, {"set", "addr"}) \cup AssignedInAny(s.step))

LoopBody(s, keys, ns) == Restore(keys, ns, NSeq(s.step, NStmt(s.body, Assume(keys, ns))))
WhileTrue(s, ns) == LoopBody(s, condNarrowings(s.c, TRUE, {}, ns.taken), ns)

NLoop(s, ns) ==
  LET head == LoopHead(s, NSeq(s.init, ns))
  IN IF s.form = "do" THEN NCond(s.c, LoopBody(s, {}, head)) ELSE WhileTrue(s, NCond(s.c, head))

NStmt(s, ns) ==
  CASE s.k = "block" -> NBlock(s.items, {}, ns)
    [] s.k = "if" -> NIf(s, ns)
    [] s.k = "loop" -> NLoop(s, ns)
    [] s.k \in {"call", "question"} -> dropGlobalNarrowings(ns)
    [] s.k = "return" -> IF s.call THEN dropGlobalNarrowings(ns) ELSE ns
    [] s.k = "set" -> IF s.to = "addr" THEN ns ELSE Forget(ns, {s.v})
    [] s.k = "addr" -> dropGlobalNarrowings(AddrOf(s.v, ns))
    [] s.k = "use" -> Deref(s.v, ns)
    [] OTHER -> NSeq(Kids(s), ns)         \* switch, match, try and defer: in order

\* A function is accepted when every dereference it writes was proven.
NullAccepted(body) == NStmt(body, NullStart(Taken(body) \cap Globals)).ok

-----------------------------------------------------------------------------
\* Reads before assignment: the error of the straight-line prefix, and -Wall's
\* forward dataflow. un holds the variables some path has not assigned.

RECURSIVE prefixReads(_, _)
prefixReads(ss, un) ==
  IF ss = <<>> THEN FALSE
  ELSE LET s == Head(ss)
       IN CASE s.k = "use" -> s.v \in un \/ prefixReads(Tail(ss), un)
            [] s.k \in {"set", "addr"} -> prefixReads(Tail(ss), un \ {s.v})
            [] s.k \in {"call", "question", "return"} -> prefixReads(Tail(ss), un)
            [] OTHER -> FALSE
checkUninitPrefix(body) == prefixReads(body.items, Scalars)

Dead == [live |-> FALSE, un |-> {}]
\* Mutant: assigned on one path is assigned.
joinOptimistic(a, b) == IF ~b.live THEN a ELSE IF ~a.live THEN b ELSE [a EXCEPT !.un = @ \cap b.un]

join(a, b) == IF ~b.live THEN a ELSE IF ~a.live THEN b ELSE [a EXCEPT !.un = @ \cup b.un]

\* us: s the flow state, warned what was reported, defers the bodies of each
\* open scope, frames the loops and switches around, inDefer no re-entry.
USet(us, s) == [us EXCEPT !.s = s]
read(v, us) == IF us.s.live /\ v \in us.s.un THEN [us EXCEPT !.warned = @ \cup {v}] ELSE us
assign(v, us) == [us EXCEPT !.s.un = @ \ {v}]
pushScope(us) == [us EXCEPT !.defers = Append(@, <<>>)]
popScope(us) == [us EXCEPT !.defers = Front(@)]

RECURSIVE UStmt(_, _), USeq(_, _), UJoin(_, _, _, _), UCases(_, _, _, _), UCond(_, _)

USeq(ss, us) == IF ss = <<>> THEN us ELSE USeq(Tail(ss), UStmt(Head(ss), us))

runDefers(from, us) ==
  IF ~us.s.live \/ us.inDefer THEN us
  ELSE LET bodies == FlattenSeq([i \in 1..(Len(us.defers) - from) |->
                                   Reverse(us.defers[Len(us.defers) + 1 - i])])
       IN [USeq(bodies, [us EXCEPT !.inDefer = TRUE]) EXCEPT !.inDefer = FALSE, !.s = us.s]

runScopeDefers(us) ==
  IF ~us.s.live \/ us.inDefer THEN us
  ELSE [USeq(Reverse(Last(us.defers)), [us EXCEPT !.inDefer = TRUE]) EXCEPT !.inDefer = FALSE]

UBlock(s, us) ==
  popScope(runScopeDefers(USeq(IF s.k = "block" THEN s.items ELSE <<s>>, pushScope(us))))

\* A jump joins its state into the frame it goes to, and the path ends.
UJump(label, isContinue, us) ==
  LET takes(f) == IF label # "" THEN f.isLoop /\ f.label = label ELSE ~isContinue \/ f.isLoop
      i == SelectLastInSeq(us.frames, takes)
      r == runDefers(us.frames[i].depth, us)
      f == r.frames[i]
  IN [r EXCEPT !.frames[i] = IF isContinue THEN [f EXCEPT !.cont = join(f.cont, r.s)]
                             ELSE [f EXCEPT !.brk = join(f.brk, r.s)],
               !.s = Dead]

UFrame(us, isLoop, label) ==
  [us EXCEPT !.frames = Append(@, [isLoop |-> isLoop, label |-> label, depth |-> Len(us.defers),
                                   brk |-> Dead, cont |-> Dead])]

\* The states where a condition is true (t) and false (f), and us with its reads.
UCond(c, us) ==
  CASE c.k = "not" -> LET r == UCond(c.c, us) IN [r EXCEPT !.t = r.f, !.f = r.t]
    [] c.k \in {"and", "or"} ->
         LET l == UCond(c.l, us)
             r == UCond(c.r, USet(l.us, IF c.k = "and" THEN l.t ELSE l.f))
             t == IF c.k = "and" THEN r.t ELSE join(l.t, r.t)
             f == IF c.k = "and" THEN join(l.f, r.f) ELSE r.f
         IN [t |-> t, f |-> f, us |-> USet(r.us, join(t, f))]
    [] OTHER -> LET e == CASE c.k = "use" -> read(c.v, us)
                           [] c.k \in {"set", "addr"} -> assign(c.v, us)
                           [] OTHER -> us
                IN [t |-> e.s, f |-> e.s, us |-> e]

\* Alternatives that all start in entry; the results meet in out.
UJoin(ss, entry, out, us) ==
  IF ss = <<>> THEN USet(us, out)
  ELSE LET b == UBlock(Head(ss), USet(us, entry)) IN UJoin(Tail(ss), entry, join(out, b.s), b)

\* A case starts from the switch's entry or falls in from the case above.
UCases(cases, entry, fall, us) ==
  IF cases = <<>> THEN USet(us, fall)
  ELSE LET b == USeq(Head(cases), USet(us, join(entry, fall))) IN UCases(Tail(cases), entry, b.s, b)

UElse(s, false, us) ==
  LET e == IF s.else.k = "none" THEN USet(us, false) ELSE UBlock(s.else, USet(us, false))
  IN USet(e, join(us.s, e.s))

UIf(s, us) ==
  LET c == UCond(s.c, us) IN UElse(s, c.f, UBlock(s.then, USet(c.us, c.t)))

\* The body, and what comes round to the loop's step or test.
Again(us) == USet(us, join(us.s, Last(us.frames).cont))
UBody(s, us) == Again(UBlock(s.body, UFrame(us, TRUE, s.label)))
LeaveLoop(s, exit, us) ==
  [us EXCEPT !.frames = Front(@),
             !.s = join(IF s.c.k = "true" THEN Dead ELSE exit, Last(us.frames).brk)]

UDo(s, us) == LET e == UCond(s.c, us).us IN LeaveLoop(s, e.s, e)
UWhile(s, c) == LeaveLoop(s, c.f, USeq(s.step, UBody(s, USet(c.us, c.t))))

ULoop(s, us) ==
  LET i == USeq(s.init, us)
  IN IF s.form = "do" THEN UDo(s, UBody(s, i)) ELSE UWhile(s, UCond(s.c, i))

USwitch(s, us) ==
  LET b == UCases(s.cases, us.s, Dead, UFrame(pushScope(us), FALSE, ""))
      fell == IF s.cases = <<>> THEN us.s ELSE b.s
      out == join(IF s.default THEN fell ELSE join(fell, us.s), Last(b.frames).brk)
  IN popScope(runScopeDefers([b EXCEPT !.frames = Front(@), !.s = out]))

AfterFinally(entry, h, f) ==
  IF ~f.s.live THEN f ELSE USet(f, [h.s EXCEPT !.un = @ \ (entry.un \ f.s.un)])

UFinally(s, entry, us) ==
  IF s.finally.k = "none" THEN us
  ELSE AfterFinally(entry, us, UBlock(s.finally.body, USet(us, entry)))

UTry(s, us) ==
  LET b == UBlock(s.body, us) IN UFinally(s, us.s, UJoin(s.catches, us.s, b.s, b))

UStmt(s, us) ==
  CASE s.k = "block" -> UBlock(s, us)
    [] s.k = "use" -> read(s.v, us)
    [] s.k \in {"set", "addr"} -> assign(s.v, us)
    [] s.k = "question" -> runDefers(0, us)
    [] s.k = "return" -> USet(runDefers(0, us), Dead)
    [] s.k = "throw" -> USet(us, Dead)
    [] s.k = "break" -> UJump(s.label, FALSE, us)
    [] s.k = "continue" -> UJump(s.label, TRUE, us)
    [] s.k = "defer" -> IF us.s.live THEN [us EXCEPT !.defers[Len(us.defers)] = Append(@, s.body)] ELSE us
    [] s.k = "if" -> UIf(s, us)
    [] s.k = "loop" -> ULoop(s, us)
    [] s.k = "switch" -> USwitch(s, us)
    [] s.k = "match" -> UJoin(s.arms, us.s, Dead, us)
    [] s.k = "try" -> UTry(s, us)
    [] OTHER -> us

MaybeUninit(body) ==
  UBlock(body, [s |-> [live |-> TRUE, un |-> Scalars], warned |-> {}, defers |-> <<>>,
                frames |-> <<>>, inDefer |-> FALSE]).warned
=============================================================================
