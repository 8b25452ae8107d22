----------------------------- MODULE Toolchain -----------------------------
(***************************************************************************)
(* eskiuc, as compilerMain (main.cpp) dispatches it: a package command,    *)
(* the prompt, or a compilation. A behaviour is one invocation, seen in    *)
(* one of its parts, each a module of its own: the commands of pkg.cpp     *)
(* (Packages), the prompt's reader (LineReader) and its session (Repl),    *)
(* the text pass over the files (Preprocessor), one function from the      *)
(* checker to its execution (Compiled), and the passes that only compute   *)
(* (a job and its result). The parts that are not looked at stand still.   *)
(***************************************************************************)
EXTENDS Packages, LineReader, Repl

CONSTANTS
  Files, FilesNamed,                                              \* Preprocessor
  Nullables, GlobalVars, Scalars, Functions,                      \* Compiled
  Jobs                                                            \* the passes

VARIABLES
  part,
  program, left, frames, defines, seen, active, hadErr,
  prog, code, at, store, shared, cleanups, err, want, out,
  job, result

P == INSTANCE Preprocessor WITH Programs <- Files, Inputs <- FilesNamed, out <- active
C == INSTANCE Compiled WITH Globals <- GlobalVars, Programs <- Functions, pending <- cleanups
N == INSTANCE Constants
Y == INSTANCE Syntax
G == INSTANCE Grammar
A == INSTANCE AsyncRuns
X == INSTANCE CCalls

ASSUME Instances == /\ WellFormed /\ Lasting /\ Authored /\ C!VariableKinds
                    /\ Shape /\ KindsApart /\ HeldTogether /\ PrefixesApart

pvars == <<program, left, frames, defines, seen, active, hadErr>>
cvars == <<prog, code, at, store, shared, cleanups, err, want, out>>
jvars == <<job, result>>
allVars == <<part, vars, readerVars, sessionVars, pvars, cvars, jvars>>

Off == "off"
NoLines == input = <<>> /\ read = 0 /\ due = <<>> /\ pending = <<>> /\ sent = <<>> /\ running = TRUE

POff == /\ program = Off /\ left = Off /\ frames = Off /\ defines = Off /\ seen = Off
        /\ active = Off /\ hadErr = Off
COff == /\ prog = Off /\ code = Off /\ at = Off /\ store = Off /\ shared = Off
        /\ cleanups = Off /\ err = Off /\ want = Off /\ out = Off
JOff == job = Off /\ result = Off

Invoke ==
  \/ part = "packages" /\ Init /\ NoLines /\ SessionInit /\ POff /\ COff /\ JOff
  \/ part = "reader" /\ Init /\ ReaderInit /\ SessionInit /\ POff /\ COff /\ JOff
  \/ part = "session" /\ Init /\ NoLines /\ SessionInit /\ POff /\ COff /\ JOff
  \/ part = "preprocess" /\ Init /\ NoLines /\ SessionInit /\ P!Init /\ COff /\ JOff
  \/ part = "function" /\ Init /\ NoLines /\ SessionInit /\ POff /\ C!Init /\ JOff
  \/ part = "pass" /\ Init /\ NoLines /\ SessionInit /\ POff /\ COff /\ job \in Jobs /\ result = <<>>

\* A pass is a function of its input.
Signature(T, ret, params) ==
  X!buildCAbiSig(T, IF ret = X!NoType THEN ret ELSE X!getType(T, ret),
                 X!Made([i \in DOMAIN params |-> X!getType(T, params[i])]))
Output(j) ==
  CASE j.pass = "expand" -> N!ppExpand(j.table, j.text)
    [] j.pass = "if" -> N!ppEvalIf(N!PPMacros, N!Render(j.expr, 0))
    [] j.pass = "bad if" -> N!ppEvalIf(N!PPMacros, j.text)
    [] j.pass = "const" -> N!Evaluated(j.expr)
    [] j.pass = "parse" -> Y!parseFiles(j.files, "main")
    [] j.pass = "async" -> A!lower(j.body, DOMAIN j.params)
    [] j.pass = "layout" -> X!getType(j.target, j.type)
    [] j.pass = "cabi" -> Signature(j.target, j.ret, j.params)

RunPass ==
  /\ result = <<>> /\ result' = <<Output(job)>>
  /\ UNCHANGED job

Step ==
  \/ part = "packages" /\ Next /\ UNCHANGED <<part, readerVars, sessionVars, pvars, cvars, jvars>>
  \/ part = "reader" /\ ReaderNext /\ UNCHANGED <<part, vars, sessionVars, pvars, cvars, jvars>>
  \/ part = "session" /\ SessionNext /\ UNCHANGED <<part, vars, readerVars, pvars, cvars, jvars>>
  \/ part = "preprocess" /\ P!Next /\ UNCHANGED <<part, vars, readerVars, sessionVars, cvars, jvars>>
  \/ part = "function" /\ C!Next /\ UNCHANGED <<part, vars, readerVars, sessionVars, pvars, jvars>>
  \/ part = "pass" /\ RunPass /\ UNCHANGED <<part, vars, readerVars, sessionVars, pvars, cvars>>

Invocation == Invoke /\ [][Step]_allVars

Computed(pass) == part = "pass" /\ result # <<>> /\ job.pass = pass

-----------------------------------------------------------------------------
\* The properties of the parts, each explained where its module states it.

\* Those of the package commands, the reader and the session are their modules' own: in the other
\* parts the disk is untouched, no line is typed and the session is blank.

\* What the preprocessor leaves is what C's would: the declarations in textual order, each file's
\* once, and in a line every macro replaced as C replaces it (preprocessor.cpp, ppExpand).
PreprocessedAsC ==
  /\ part = "preprocess" => P!AsInTextualOrder
  /\ Computed("expand") => N!ExpandedAsC(job.table, job.text, result[1])
\* An integer constant is one value wherever the compiler computes it: in an #if, an array dimension
\* as the checker and as the generator read it, the checker's fold, and the code: "they follow C's
\* usual arithmetic conversions, 32-bit wraparound, unsigned comparison and division ... as the
\* generated code does" (sema/type.h:108). What has no value is an error.
ConstantsAsC ==
  /\ Computed("const") => N!ValuesAsC(job.expr, result[1])
  /\ Computed("if") => N!IfAsC(job.expr, result[1])
  /\ Computed("bad if") => result[1] = <<>>
\* Every text of the grammar is read as the tree it was written from, and an error is
\* reported once: "one bad declaration neither aborts the file nor cascades into spurious
\* errors" (parser.cpp:391).
ParsesAsWritten == Computed("parse") => G!ReadsAs(result[1], job.decls, job.errs)

\* The states of an async function do what its body says: "a `defer` in a block split by an
\* await runs at every exit of that block", a finally "exactly once on every exit", an operand
\* "written before the await is evaluated before it" (docs/lang/spec.md:1095-1115).
AsyncAsWritten == Computed("async") => A!SameRuns(job.body, job.params, result[1], job.answers, job.steps)

\* The code generator finishes every function (runCleanupsToDepth, codegen_stmt.cpp).
EmissionEnds == part = "function" => C!EmissionEnds
\* The cleanups run in the order the source gives (codegen_stmt.cpp).
CleanupsAsWritten == part = "function" => C!CleanupsAsWritten
\* A throw lands in the innermost try around it (codegen_closure.cpp).
CaughtByInnermost == part = "function" => C!CaughtByInnermost
\* What the checker lets through does not fall off its end, dereference a null, or read a variable
\* that no path assigned and no warning names (typecheck_decl.cpp, typecheck_expr.cpp).
CheckerSound ==
  part = "function" => C!FallsOffOnlyIfAllowed /\ C!NullSafe /\ C!UninitReported

\* Every field of a declaration is where C puts it on the target, the sizeof the checker folds is
\* the size the generator laid out, and no write of a field disturbs another ("the layout C
\* uses", docs/lang/spec.md).
FieldsAsC ==
  Computed("layout") =>
    IF job.type.k = "sum" THEN X!SumLaidOut(job.target, job.type, result[1])
    ELSE X!LaidOutAsC(job.target, job.type, result[1])
\* A call of an extern, a callback from C and va_arg move every byte of the arguments and the
\* result to where the target's C convention has it: "matching what clang emits for the same C
\* signature" (docs/lang/spec.md, 13.4).
PassedAsC == Computed("cabi") => X!CrossesAsC(job.target, job.ret, job.params, job.varargs, result[1])
=============================================================================
