------------------------------ MODULE Lowering ------------------------------
(***************************************************************************)
(* The lowering of a function body to basic blocks (codegen_stmt.cpp,      *)
(* codegen_closure.cpp): scopes with defer and errdefer, loops, switch and *)
(* match, try/catch/finally, the `?` operator and the landing pads that    *)
(* exceptions unwind through. A visitor of the code generator is an        *)
(* operator that takes the generator's state cg and gives the next one.    *)
(*                                                                         *)
(* A statement is a record with a field k. Expressions are reduced to a    *)
(* call ("call", which may throw in a program that uses exceptions), an    *)
(* assignment ("set") and a read or dereference of a variable ("use").     *)
(*                                                                         *)
(* lx, the lexical context, is not state of the generator: it says what    *)
(* the language promises at a statement (the cleanups registered before it *)
(* in the scopes around it, and the try whose body it is in), and rides    *)
(* along to be compared with what the emitted code does. A cleanup keeps   *)
(* the one of its registration, as it keeps that place's symbol table.     *)
(***************************************************************************)
EXTENDS Integers, Sequences, SequencesExt

None == [k |-> "none"]
NoTry == 0
Top == [pend |-> <<>>, try |-> NoTry]

\* The generator's state at the start of a body (BodyContext: a nested body
\* sees nothing of the one around it); block 0 stands for "no block".
Fresh(eh) ==
  [blocks |-> <<<<>>>>, cur |-> 1, scopes |-> <<>>, tries |-> <<>>, loops |-> <<>>,
   unwind |-> 0, brk |-> 0, cont |-> 0, brkDepth |-> 0, contDepth |-> 0,
   eh |-> eh, emitting |-> {}, diverged |-> FALSE]

Terminators == {"br", "cond", "pick", "ret", "throw", "resume"}

blockTerminated(cg) ==
  LET b == cg.blocks[cg.cur] IN b # <<>> /\ Last(b).k \in Terminators

Put(cg, ins) == [cg EXCEPT !.blocks[cg.cur] = Append(@, ins)]
At(cg, b) == [cg EXCEPT !.cur = b]
NewBlocks(cg, n) == [cg EXCEPT !.blocks = @ \o [i \in 1..n |-> <<>>]]

\* The terminator of a block that does not have one yet.
Terminate(cg, ins) == IF blockTerminated(cg) THEN cg ELSE Put(cg, ins)
Br(cg, to) == Terminate(cg, [k |-> "br", to |-> to])

\* An instruction that may unwind, an invoke when a landing pad is active.
createMaybeInvoke(cg, kind, lx) ==
  Put(cg, [k |-> kind, unwind |-> cg.unwind, lx |-> lx])

Tag(s) == [id |-> s.id, isErr |-> s.k = "defer" /\ s.isErr]
Under(lx, s) == [lx EXCEPT !.pend = Append(@, Tag(s))]

\* Mutant of makeCleanup: the pad outside the cleanup is not remembered.
cleanupWithoutPad(cg, s, lx) == [tag |-> Tag(s), body |-> s.body, lx |-> lx, prevUnwind |-> 0]

makeCleanup(cg, s, lx) ==
  [tag |-> Tag(s), body |-> s.body, lx |-> lx, prevUnwind |-> cg.unwind]

\* Leaving a scope gives back the pad that was active before its first cleanup.
popCleanupFrame(cg) ==
  LET frame == Last(cg.scopes)
  IN [cg EXCEPT !.scopes = Front(@),
                !.unwind = IF frame = <<>> THEN @ ELSE Head(frame).prevUnwind]

PushFrame(cg, frame) == [cg EXCEPT !.scopes = Append(@, frame)]

\* The cleanups of the frames above depth: innermost frame first, last first.
Above(cg, depth) ==
  FlattenSeq([i \in 1..(Len(cg.scopes) - depth) |-> Reverse(cg.scopes[Len(cg.scopes) + 1 - i])])

RECURSIVE Visit(_, _, _), Items(_, _, _), RunAll(_, _, _), Arms(_, _, _, _, _), Cases(_, _, _, _, _),
          Handlers(_, _, _, _, _)

\* One body, under the pad that was active where it was registered. A body that
\* is reached again while it is being emitted would be emitted without end.
RunOne(cg, c) ==
  IF c.tag.id \in cg.emitting THEN [cg EXCEPT !.diverged = TRUE] ELSE
  LET under == [cg EXCEPT !.unwind = c.prevUnwind, !.emitting = @ \cup {c.tag.id}]
      out == Visit(c.body, c.lx, Put(under, [k |-> "run", tag |-> c.tag, lx |-> c.lx]))
  IN [out EXCEPT !.unwind = cg.unwind, !.emitting = cg.emitting]

RunAll(cg, todo, errorPath) ==
  IF todo = <<>> \/ blockTerminated(cg) \/ cg.diverged THEN cg
  ELSE LET c == Head(todo)
       IN RunAll(IF c.tag.isErr /\ ~errorPath THEN cg ELSE RunOne(cg, c), Tail(todo), errorPath)

runCleanupsToDepth(cg, depth, errorPath) == RunAll(cg, Above(cg, depth), errorPath)

\* The landing pad of the calls after a defer: it runs what is pending, down to
\* the enclosing try body or out of the function.
emitDeferPad(cg) ==
  LET pad == Len(cg.blocks) + 1
      inTry == cg.tries # <<>>
      run == runCleanupsToDepth(At(NewBlocks(cg, 1), pad),
                                IF inTry THEN Last(cg.tries).depth ELSE 0, FALSE)
      leave == IF inTry THEN [k |-> "br", to |-> Last(cg.tries).dispatch] ELSE [k |-> "resume"]
  IN [Terminate(run, leave) EXCEPT !.cur = cg.cur, !.unwind = pad]

-----------------------------------------------------------------------------
\* Blocks and scopes

\* Statements in order; what follows a terminator is dropped.
Items(ss, lx, cg) ==
  IF ss = <<>> \/ blockTerminated(cg) \/ cg.diverged THEN cg
  ELSE Items(Tail(ss), IF Head(ss).k = "defer" THEN Under(lx, Head(ss)) ELSE lx,
             Visit(Head(ss), lx, cg))

\* A scope: its own cleanup frame, run at the fall-through end.
closeScope(cg) ==
  popCleanupFrame(IF blockTerminated(cg) THEN cg ELSE runCleanupsToDepth(cg, Len(cg.scopes) - 1, FALSE))

Scoped(ss, lx, cg) == closeScope(Items(ss, lx, PushFrame(cg, <<>>)))

emitScopedBody(s, lx, cg) ==
  CASE s.k = "none" -> cg
    [] s.k = "block" -> Scoped(s.items, lx, cg)
    [] OTHER -> Scoped(<<s>>, lx, cg)

VisitDefer(s, lx, cg) ==
  LET reg == Put([cg EXCEPT !.scopes[Len(cg.scopes)] = Append(@, makeCleanup(cg, s, lx))],
                 [k |-> "reg", tag |-> Tag(s), lx |-> lx])
  IN IF cg.eh /\ ~s.isErr THEN emitDeferPad(reg) ELSE reg

VisitIf(s, lx, cg) ==
  LET n == Len(cg.blocks)
      then == n + 1  else == n + 2  merge == n + 3
      test == Put(NewBlocks(cg, 3), [k |-> "cond", c |-> s.c, t |-> then, f |-> else])
      t == Br(emitScopedBody(s.then, lx, At(test, then)), merge)
      e == Br(emitScopedBody(s.else, lx, At(t, else)), merge)
  IN At(e, merge)

\* The three loops: continue goes to the step of a for and to the test of the
\* others. LoopContext holds the body's jump targets and their cleanup depth.
VisitLoop(s, lx, cg) ==
  LET n == Len(cg.blocks)
      test == n + 1  body == n + 2  step == n + 3  exit == n + 4
      again == IF s.form = "for" THEN step ELSE test
      start == Br(Items(s.init, lx, NewBlocks(cg, 4)), IF s.form = "do" THEN body ELSE test)
      tested == Put(At(start, test), [k |-> "cond", c |-> s.c, t |-> body, f |-> exit])
      depth == Len(cg.scopes)
      in == [At(tested, body) EXCEPT
               !.brk = exit, !.cont = again, !.brkDepth = depth, !.contDepth = depth,
               !.loops = Append(@, [label |-> s.label, brk |-> exit, cont |-> again, depth |-> depth])]
      out == [Br(emitScopedBody(s.body, lx, in), again) EXCEPT
               !.brk = cg.brk, !.cont = cg.cont, !.brkDepth = cg.brkDepth,
               !.contDepth = cg.contDepth, !.loops = cg.loops]
  IN At(Br(Items(s.step, lx, At(out, step)), test), exit)

VisitBreak(s, cg) ==
  IF s.label = "" THEN Br(runCleanupsToDepth(cg, cg.brkDepth, FALSE), cg.brk)
  ELSE LET l == SelectLastInSeq(cg.loops, LAMBDA f : f.label = s.label)
       IN Br(runCleanupsToDepth(cg, cg.loops[l].depth, FALSE), cg.loops[l].brk)

\* Mutant of VisitContinue: the cleanup depth of a break, that of a switch too.
continueToBreakDepth(s, cg) == Br(runCleanupsToDepth(cg, cg.brkDepth, FALSE), cg.cont)

VisitContinue(s, cg) ==
  IF s.label = "" THEN Br(runCleanupsToDepth(cg, cg.contDepth, FALSE), cg.cont)
  ELSE LET l == SelectLastInSeq(cg.loops, LAMBDA f : f.label = s.label)
       IN Br(runCleanupsToDepth(cg, cg.loops[l].depth, FALSE), cg.loops[l].cont)

\* The arms of a match, each a scope; the subject picks one.
Arms(arms, i, end, lx, cg) ==
  IF i > Len(arms.bodies) THEN At(cg, end)
  ELSE Arms(arms, i + 1, end, lx, Br(emitScopedBody(arms.bodies[i], lx, At(cg, arms.at + i)), end))

VisitMatch(s, lx, cg) ==
  LET n == Len(cg.blocks)
      m == Len(s.arms)
      sw == Put(NewBlocks(cg, m + 1), [k |-> "pick", to |-> (n + 1)..(n + m)])
  IN Arms([bodies |-> s.arms, at |-> n], 1, n + m + 1, lx, sw)

\* The cases of a switch: a frame each, left by falling into the next.
Cases(cases, i, end, lx, cg) ==
  IF i > Len(cases.bodies) THEN cg
  ELSE LET next == IF i < Len(cases.bodies) THEN cases.at + i + 1 ELSE end
       IN Cases(cases, i + 1, end, lx,
                Br(Scoped(cases.bodies[i], lx, At(cg, cases.at + i)), next))

\* A switch takes break, at its own cleanup depth, and leaves continue to the loop.
VisitSwitch(s, lx, cg) ==
  LET n == Len(cg.blocks)
      m == Len(s.cases)
      end == n + m + 1
      sw == Put(NewBlocks(cg, m + 1),
                [k |-> "pick", to |-> (n + 1)..(n + m) \cup (IF s.default THEN {} ELSE {end})])
      out == Cases([bodies |-> s.cases, at |-> n], 1, end, lx,
                   [sw EXCEPT !.brk = end, !.brkDepth = Len(cg.scopes)])
  IN At([out EXCEPT !.brk = cg.brk, !.brkDepth = cg.brkDepth], end)

-----------------------------------------------------------------------------
\* Leaving the function, and exceptions

\* The value is computed first; then the cleanups; then the return.
VisitReturn(s, lx, cg) ==
  LET val == IF s.call THEN createMaybeInvoke(cg, "call", lx) ELSE cg
  IN Terminate(runCleanupsToDepth(val, 0, FALSE), [k |-> "ret"])

\* `f()?`: an error result leaves the function, running errdefers as well.
VisitQuestion(lx, cg) ==
  LET n == Len(cg.blocks)
      val == createMaybeInvoke(NewBlocks(cg, 2), "call", lx)
      test == Put(val, [k |-> "pick", to |-> {n + 1, n + 2}])
      err == runCleanupsToDepth(Put(At(test, n + 1), [k |-> "err"]), 0, TRUE)
  IN At(Terminate(err, [k |-> "ret"]), n + 2)

VisitThrow(lx, cg) == createMaybeInvoke(cg, "throw", lx)

\* What no clause matched goes on.
Rethrow(lx, cg) == IF blockTerminated(cg) THEN cg ELSE VisitThrow(lx, cg)

\* A finally emitted in place (the normal end and the unmatched exception).
AcceptFinally(s, lx, cg) ==
  IF s.finally.k = "none" THEN cg
  ELSE Visit(s.finally.body, lx, Put(cg, [k |-> "run", tag |-> Tag(s), lx |-> lx]))

\* The catch clauses: each tests the exception's type and runs its handler with
\* the finally pending; a throw out of it goes to a pad that runs the finally.
Handlers(s, i, end, lx, cg) ==
  IF i > Len(s.catches) THEN cg
  ELSE LET n == Len(cg.blocks)
           test == At(Put(NewBlocks(cg, 2), [k |-> "pick", to |-> {n + 1, n + 2}]), n + 1)
           clean == makeCleanup(test, [s EXCEPT !.body = s.finally.body], lx)
           in == IF s.finally.k = "none" THEN PushFrame(test, <<>>)
                 ELSE emitDeferPad(PushFrame(test, <<clean>>))
           out == popCleanupFrame(emitScopedBody(s.catches[i],
                     IF s.finally.k = "none" THEN lx ELSE Under(lx, s), in))
       IN Handlers(s, i + 1, end, lx, At(Br(out, end), n + 2))

VisitTry(s, lx, cg) ==
  LET n == Len(cg.blocks)
      lpad == n + 1  dispatch == n + 2  finallyBB == n + 3  done == n + 4
      hasFin == s.finally.k # "none"
      inner == IF hasFin THEN Under(lx, s) ELSE lx
      opened == [NewBlocks(cg, 4) EXCEPT !.unwind = lpad]
      framed == IF hasFin
                THEN Put(PushFrame(opened, <<makeCleanup(opened, [s EXCEPT !.body = s.finally.body], lx)>>),
                         [k |-> "reg", tag |-> Tag(s), lx |-> lx])
                ELSE PushFrame(opened, <<>>)
      body == emitScopedBody(s.body, [inner EXCEPT !.try = s.id],
                [framed EXCEPT !.tries = Append(@, [depth |-> Len(framed.scopes), dispatch |-> dispatch])])
      closed == Br([popCleanupFrame(body) EXCEPT !.tries = cg.tries, !.unwind = cg.unwind], finallyBB)
      caught == Put(At(Br(At(closed, lpad), dispatch), dispatch), [k |-> "catch", try |-> s.id])
      rethrown == Rethrow(lx, AcceptFinally(s, lx, Handlers(s, 1, finallyBB, lx, caught)))
      normal == AcceptFinally(s, lx, At(rethrown, finallyBB))
  IN At(Br(normal, done), done)

Visit(s, lx, cg) ==
  IF cg.diverged THEN cg ELSE
  CASE s.k = "none"     -> cg
    [] s.k = "call"     -> createMaybeInvoke(cg, "call", lx)
    [] s.k \in {"set", "use", "addr"} -> Put(cg, s)
    [] s.k = "block"    -> Scoped(s.items, lx, cg)
    [] s.k = "defer"    -> VisitDefer(s, lx, cg)
    [] s.k = "if"       -> VisitIf(s, lx, cg)
    [] s.k = "loop"     -> VisitLoop(s, lx, cg)
    [] s.k = "break"    -> VisitBreak(s, cg)
    [] s.k = "continue" -> VisitContinue(s, cg)
    [] s.k = "match"    -> VisitMatch(s, lx, cg)
    [] s.k = "switch"   -> VisitSwitch(s, lx, cg)
    [] s.k = "return"   -> VisitReturn(s, lx, cg)
    [] s.k = "question" -> VisitQuestion(lx, cg)
    [] s.k = "throw"    -> VisitThrow(lx, cg)
    [] s.k = "try"      -> VisitTry(s, lx, cg)

\* A body that ends without a terminator gets a default return.
defaultReturn(cg) ==
  IF blockTerminated(cg) THEN cg ELSE Put(Put(cg, [k |-> "fell"]), [k |-> "ret"])

EmitFunction(body, eh) == defaultReturn(Visit(body, Top, Fresh(eh)))
=============================================================================
