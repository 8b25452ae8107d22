------------------------------ MODULE Compiled ------------------------------
(***************************************************************************)
(* One function through the compiler and then run: the checker's verdicts  *)
(* (FlowChecks), the emitted blocks (Lowering), and the execution of those *)
(* blocks. Execution keeps what the language promises beside what the code *)
(* does: pending is the stack of registered cleanups that have not run,    *)
(* want the try that must catch the exception in flight.                   *)
(*                                                                         *)
(* A call may throw when the program uses exceptions, and may assign every *)
(* global and every variable whose address was taken.                      *)
(***************************************************************************)
EXTENDS Lowering, FlowChecks

CONSTANT Programs  \* what is compiled: [body, eh (the program uses exceptions), vars]

VARIABLES
  prog,     \* the program
  code,     \* the emitted blocks, empty before compilation
  at,       \* [b, i]: the next instruction, code[at.b][at.i]
  store,    \* the value of each variable: "null", "ok" or "unset"
  shared,   \* the variables whose address was taken
  pending,  \* registered cleanups that have not run, oldest first
  err,      \* an error result is leaving through `?`
  want,     \* the try whose handler must get the exception in flight
  out       \* "source", "running", or how it ended: "rejected", "diverged",
            \* "returned", "unwound", or in a "null" dereference, an "unset" read

vars == <<prog, code, at, store, shared, pending, err, want, out>>

Starts(vs) == {st \in [vs -> {"null", "ok", "unset"}] :
                 \A v \in vs : st[v] = "unset" <=> v \in Scalars}

Init ==
  /\ prog \in Programs
  /\ store \in Starts(prog.vars)
  /\ code = <<>> /\ at = [b |-> 1, i |-> 1] /\ shared = {} /\ pending = <<>>
  /\ err = FALSE /\ want = NoTry /\ out = "source"

Compile ==
  /\ out = "source"
  /\ IF ~NullAccepted(prog.body) \/ checkUninitPrefix(prog.body)
     THEN out' = "rejected" /\ UNCHANGED code
     ELSE \E cg \in {EmitFunction(prog.body, prog.eh)} :
            code' = cg.blocks /\ out' = IF cg.diverged THEN "diverged" ELSE "running"
  /\ UNCHANGED <<prog, at, store, shared, pending, err, want>>

-----------------------------------------------------------------------------
\* Execution

Here == code[at.b][at.i]
Running(kinds) == out = "running" /\ Here.k \in kinds

Step == at' = [at EXCEPT !.i = @ + 1]
Goto(b) == at' = [b |-> b, i |-> 1]

\* What a call leaves in the store. A number handed out by address comes back
\* assigned, as the checker takes it to.
AfterCall(st, sh) ==
  LET may == DOMAIN st \cap (Globals \cup sh)
  IN {[v \in DOMAIN st |-> IF v \notin may THEN st[v] ELSE IF v \in Scalars THEN "ok" ELSE f[v]] :
        f \in [may -> {"null", "ok"}]}

Fault(v, st) == IF st[v] = "ok" THEN "none" ELSE st[v]

\* The ways a condition can come out: truth, store, shared, fault.
RECURSIVE Eval(_, _)
Eval(c, m) ==
  CASE c.k = "any" -> {[m EXCEPT !.t = b] : b \in BOOLEAN}
    [] c.k = "true" -> {[m EXCEPT !.t = TRUE]}
    [] c.k = "nz" -> {[m EXCEPT !.t = m.st[c.v] = "ok"]}
    [] c.k = "ez" -> {[m EXCEPT !.t = m.st[c.v] = "null"]}
    [] c.k = "not" -> {[o EXCEPT !.t = ~@] : o \in Eval(c.c, m)}
    [] c.k \in {"and", "or"} ->
         UNION {IF o.fault # "none" \/ o.t = (c.k = "or") THEN {o} ELSE Eval(c.r, o) : o \in Eval(c.l, m)}
    [] c.k = "call" -> {[m EXCEPT !.t = b, !.st = st] : b \in BOOLEAN, st \in AfterCall(m.st, m.sh)}
    [] c.k = "set" -> {[m EXCEPT !.t = b, !.st[c.v] = IF b \/ c.v \in Scalars THEN "ok" ELSE "null"] :
                         b \in BOOLEAN}
    [] c.k = "addr" -> {[m EXCEPT !.t = b, !.sh = @ \cup {c.v}, !.st = st] :
                          b \in BOOLEAN, st \in AfterCall(m.st, m.sh \cup {c.v})}
    [] c.k = "use" -> {[m EXCEPT !.t = b, !.fault = Fault(c.v, m.st)] : b \in BOOLEAN}

\* An errdefer stays registered when its scope is left without an error: keep
\* says which registrations are still in scope.
Live(p, keep) == IF err THEN p ELSE SelectSeq(p, LAMBDA c : c.isErr => \E i \in DOMAIN keep : keep[i] = c)

Unwind ==
  /\ err' = FALSE /\ want' = Here.lx.try
  /\ IF Here.unwind = 0 THEN out' = "unwound" /\ UNCHANGED at
     ELSE Goto(Here.unwind) /\ UNCHANGED out
  /\ UNCHANGED <<prog, code, store, shared, pending>>

CallReturns ==
  /\ Running({"call"})
  /\ store' \in AfterCall(store, shared)
  /\ Step
  /\ UNCHANGED <<prog, code, shared, pending, err, want, out>>

CallThrows == Running({"call"}) /\ prog.eh /\ Unwind

Throw == Running({"throw"}) /\ Unwind

Catch ==
  /\ Running({"catch"})
  /\ want' = NoTry /\ Step
  /\ UNCHANGED <<prog, code, store, shared, pending, err, out>>

\* A defer statement, or a try that has a finally, is reached.
Register ==
  /\ Running({"reg"})
  /\ pending' = Append(Live(pending, Here.lx.pend), Here.tag)
  /\ Step
  /\ UNCHANGED <<prog, code, store, shared, err, want, out>>

\* The emitted copy of a cleanup's body begins.
RunCleanup ==
  /\ Running({"run"})
  /\ pending' = Front(Live(pending, Append(Here.lx.pend, Here.tag)))
  /\ Step
  /\ UNCHANGED <<prog, code, store, shared, err, want, out>>

ErrorResult ==
  /\ Running({"err"})
  /\ err' = TRUE /\ Step
  /\ UNCHANGED <<prog, code, store, shared, pending, want, out>>

Branch ==
  /\ Running({"br", "cond", "pick"})
  /\ \/ Here.k = "br" /\ Goto(Here.to) /\ UNCHANGED <<store, shared, out>>
     \/ Here.k = "pick" /\ (\E b \in Here.to : Goto(b)) /\ UNCHANGED <<store, shared, out>>
     \/ /\ Here.k = "cond"
        /\ \E o \in Eval(Here.c, [t |-> FALSE, st |-> store, sh |-> shared, fault |-> "none"]) :
             /\ store' = o.st /\ shared' = o.sh
             /\ IF o.fault # "none" THEN out' = o.fault /\ UNCHANGED at
                ELSE Goto(IF o.t THEN Here.t ELSE Here.f) /\ UNCHANGED out
  /\ UNCHANGED <<prog, code, pending, err, want>>

Access ==
  /\ Running({"set", "use", "addr"})
  /\ CASE Here.k = "set" -> store' = [store EXCEPT ![Here.v] = IF Here.to = "null" THEN "null" ELSE "ok"]
                            /\ UNCHANGED <<shared, out>> /\ Step
       [] Here.k = "addr" -> shared' = shared \cup {Here.v} /\ store' \in AfterCall(store, shared')
                             /\ UNCHANGED out /\ Step
       [] Here.k = "use" -> /\ UNCHANGED <<store, shared>>
                            /\ IF store[Here.v] = "ok" THEN Step /\ UNCHANGED out
                               ELSE out' = store[Here.v] /\ UNCHANGED at
  /\ UNCHANGED <<prog, code, pending, err, want>>

\* Control reached the end of the body: the default return that follows it.
FallOff ==
  /\ Running({"fell"}) /\ Step
  /\ UNCHANGED <<prog, code, store, shared, pending, err, want, out>>

Leave ==
  /\ Running({"ret", "resume"})
  /\ out' = IF Here.k = "ret" THEN "returned" ELSE "unwound"
  /\ UNCHANGED <<prog, code, at, store, shared, pending, err, want>>

Next ==
  \/ Compile \/ CallReturns \/ CallThrows \/ Throw \/ Catch \/ Register \/ RunCleanup
  \/ ErrorResult \/ Branch \/ Access \/ FallOff \/ Leave

Spec == Init /\ [][Next]_vars

-----------------------------------------------------------------------------
(* At every call, throw and registration the cleanups that have not run are *)
(* those of the scopes around it, in order; a cleanup runs when it is the   *)
(* last of them; a return leaves none, a `?` that fails not even an         *)
(* errdefer, and an exception leaves the function with no defer or finally  *)
(* skipped. (runCleanupsToDepth, emitDeferPad, the break and continue depths *)
(* and the copies of each finally, codegen_stmt.cpp and codegen_closure.cpp) *)
CleanupsAsWritten ==
  /\ Running({"call", "throw", "reg"}) => Live(pending, Here.lx.pend) = Here.lx.pend
  /\ Running({"run"}) => LET now == Append(Here.lx.pend, Here.tag) IN Live(pending, now) = now
  /\ out \in {"returned", "unwound"} => Live(pending, <<>>) = <<>>

(* An exception is handled by the innermost try whose body it left, and one *)
(* with no try around it leaves the function: what landing pad is active at *)
(* a call, after every scope and cleanup that changed it. (currentUnwindDest *)
(* in codegen_closure.cpp and popCleanupFrame, codegen_stmt.cpp)            *)
CaughtByInnermost ==
  /\ Running({"catch"}) => want = Here.try
  /\ out = "unwound" => want = NoTry

(* Control reaches the end of a body only when the checker says it can, so  *)
(* a function that must return a value never falls into the default return. *)
(* (canCompleteNormally, typecheck_decl.cpp)                                *)
FallsOffOnlyIfAllowed == Running({"fell"}) => canCompleteNormally(prog.body)

(* Compiled code never dereferences null: every dereference was proven from *)
(* tests and early exits that still hold when it runs. (narrow,             *)
(* condNarrowings, dropGlobalNarrowings, dropAssignedIn)                    *)
NullSafe == out # "null"

(* A variable read before any assignment was the subject of the warning.    *)
(* (MaybeUninit, behind the error of the straight-line prefix)              *)
UninitReported ==
  out = "unset" =>
    (IF Here.k = "use" THEN {Here.v} ELSE CondVars(Here.c, {"use"})) \cap MaybeUninit(prog.body) # {}

(* Code generation finishes. (emitting a cleanup while it is being emitted) *)
EmissionEnds == out # "diverged"
=============================================================================
