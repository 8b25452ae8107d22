---------------------------- MODULE Preprocessor ----------------------------
(***************************************************************************)
(* The text pass before the lexer (preprocess, preprocessor.cpp, with the  *)
(* import hook of parser.cpp and the driver's loop over the input files):  *)
(* conditionals, definitions, and imports preprocessed at their line, all  *)
(* files sharing one macro table.                                          *)
(*                                                                         *)
(* A line is a record [d, m, want]: its directive d ("text" for a line     *)
(* of code), the macro or the file m it names, and for a conditional       *)
(* whether it wants the macro defined. `if` and `elif` stand for           *)
(* expressions by the same kind of test.                                   *)
(***************************************************************************)
EXTENDS Integers, Sequences, FiniteSets, SequencesExt, FiniteSetsExt

CONSTANTS
  Programs,   \* the programs: functions from file names to sequences of lines
  Inputs      \* the files named on the command line, in order

VARIABLES
  program,
  left,      \* the input files still to be read
  frames,    \* the files being read, innermost last: [file, line, stack]
  defines,   \* the macros defined
  seen,      \* the files whose reading has begun
  out,       \* the active lines of code, each with the macros it is expanded under
  hadErr

vars == <<program, left, frames, defines, seen, out, hadErr>>

Init ==
  /\ program \in Programs
  /\ left = Inputs /\ frames = <<>> /\ defines = {} /\ seen = {} /\ out = <<>> /\ hadErr = FALSE

-----------------------------------------------------------------------------
top == Last(frames)
line == program[top.file][top.line]
stack == top.stack

\* Is the innermost branch of the file being read selected?
active == stack = <<>> \/ (Last(stack).parentActive /\ Last(stack).branchActive)

Opens == {"ifdef", "ifndef", "if"}
Test(l, defs) == (l.m \in defs) = l.want

Goto(st) == [frames EXCEPT ![Len(frames)] = [@ EXCEPT !.line = @ + 1, !.stack = st]]
NextLine == frames' = Goto(stack)
Quiet == UNCHANGED <<program, left, seen, out>>

AtLine(ds) == frames # <<>> /\ top.line <= Len(program[top.file]) /\ line.d \in ds

Define ==
  /\ AtLine({"define", "undef"})
  /\ defines' = IF ~active THEN defines
                ELSE IF line.d = "define" THEN defines \cup {line.m} ELSE defines \ {line.m}
  /\ NextLine /\ Quiet /\ UNCHANGED hadErr

\* A conditional opens, in a branch that is active or not.
Open ==
  /\ AtLine(Opens)
  /\ LET on == active /\ Test(line, defines)
     IN frames' = Goto(Append(stack, [parentActive |-> active, branchActive |-> on,
                                      anyTaken |-> on, sawElse |-> FALSE]))
  /\ Quiet /\ UNCHANGED <<defines, hadErr>>

Misplaced == stack = <<>> \/ (line.d # "endif" /\ Last(stack).sawElse)

ElifTaken(c) == c.parentActive /\ ~c.anyTaken /\ Test(line, defines)

ElseTaken(c) == ~c.anyTaken

Branch ==
  /\ AtLine({"elif", "else"})
  /\ IF Misplaced
     THEN hadErr' = TRUE /\ NextLine
     ELSE LET c == Last(stack)
              on == IF line.d = "elif" THEN ElifTaken(c) ELSE ElseTaken(c)
          IN /\ frames' = Goto(Append(Front(stack),
                   [c EXCEPT !.branchActive = on, !.anyTaken = @ \/ on \/ line.d = "else",
                             !.sawElse = @ \/ line.d = "else"]))
             /\ UNCHANGED hadErr
  /\ Quiet /\ UNCHANGED defines

EndIf ==
  /\ AtLine({"endif"})
  /\ IF Misplaced THEN hadErr' = TRUE /\ NextLine
                  ELSE frames' = Goto(Front(stack)) /\ UNCHANGED hadErr
  /\ Quiet /\ UNCHANGED defines

\* #error, #include and an unknown directive.
BadDirective ==
  /\ AtLine({"error"})
  /\ hadErr' = (hadErr \/ active)
  /\ NextLine /\ Quiet /\ UNCHANGED defines

\* A line of code; an import on it hands over to the file, unless its reading has begun.
Text ==
  /\ AtLine({"text"})
  /\ out' = IF active THEN Append(out, <<top.file, top.line, defines>>) ELSE out
  /\ NextLine /\ UNCHANGED <<program, left, defines, seen, hadErr>>

\* Mutant of Fresh: an import is read again at each of its lines, its own excepted.
notOpen(f) == \A i \in DOMAIN frames : frames[i].file # f

Fresh(f) == f \notin seen

Import ==
  /\ AtLine({"import"})
  /\ IF active /\ line.m \in DOMAIN program /\ Fresh(line.m)
     THEN /\ seen' = seen \cup {line.m}
          /\ frames' = Append(Goto(stack), [file |-> line.m, line |-> 1, stack |-> <<>>])
     ELSE NextLine /\ UNCHANGED seen
  /\ UNCHANGED <<program, left, defines, out, hadErr>>

\* Conditionals left open are reported.
EndOfFile ==
  /\ frames # <<>> /\ top.line > Len(program[top.file])
  /\ hadErr' = (hadErr \/ stack # <<>>)
  /\ frames' = Front(frames)
  /\ Quiet /\ UNCHANGED defines

\* loadProgram: the next input, unless an earlier one imported it; an error stops the build.
NextInput ==
  /\ frames = <<>> /\ left # <<>> /\ ~hadErr
  /\ left' = Tail(left)
  /\ IF Head(left) \in seen THEN UNCHANGED <<frames, seen>>
     ELSE frames' = <<[file |-> Head(left), line |-> 1, stack |-> <<>>]>> /\ seen' = seen \cup {Head(left)}
  /\ UNCHANGED <<program, defines, out, hadErr>>

Next == Define \/ Open \/ Branch \/ EndIf \/ BadDirective \/ Text \/ Import \/ EndOfFile \/ NextInput

Spec == Init /\ [][Next]_vars

-----------------------------------------------------------------------------
\* What the directives mean, line by line and without a stack. In the lines L, o is a
\* conditional open at line i if more endifs are missing there than there were at o.
Kind(L, a, b, ds) == Cardinality({k \in a .. b : L[k].d \in ds})
OpenAt(L, i) ==
  {o \in 1 .. (i - 1) : L[o].d \in Opens /\
     \A e \in (o + 1) .. (i - 1) : L[e].d = "endif" => Kind(L, o, e, Opens) > Kind(L, o, e, {"endif"})}
Inner(L, i) == Max(OpenAt(L, i) \cup {0})

\* The heads of o's branches down to line i, in a file whose tests held at the lines in on.
Heads(L, o, i) == {o} \cup {k \in o .. i : L[k].d \in {"elif", "else"} /\ Inner(L, k) = o}
Selected(L, o, i, on) ==
  LET hs == Heads(L, o, i)
      h == Max(hs)
  IN (h \in on \/ L[h].d = "else") /\ (hs \ {h}) \cap on = {}
Active(L, i, on) == \A o \in OpenAt(L, i) : Selected(L, o, i - 1, on)

\* Well nested: every endif has its conditional, no branch follows an else, and all close.
WellNested(L) ==
  /\ \A i \in DOMAIN L : L[i].d \in {"elif", "else", "endif"} =>
       /\ OpenAt(L, i) # {}
       /\ L[i].d # "endif" => \A k \in Heads(L, Inner(L, i), i - 1) : L[k].d # "else"
  /\ Kind(L, 1, Len(L), Opens) = Kind(L, 1, Len(L), {"endif"})

\* Reading the file f from line i: st is [defs, seen, out, on, err].
RECURSIVE Read(_, _, _, _)
Read(p, f, i, st) ==
  LET L == p[f]
      l == L[i]
      live == Active(L, i, st.on)
      then(s) == Read(p, f, i + 1, s)
  IN IF i > Len(L) THEN st
     ELSE IF l.d \in Opens \cup {"elif"}
          THEN then([st EXCEPT !.on = IF Test(l, st.defs) THEN @ \cup {i} ELSE @])
     ELSE IF ~live THEN then(st)
     ELSE CASE l.d = "define" -> then([st EXCEPT !.defs = @ \cup {l.m}])
            [] l.d = "undef" -> then([st EXCEPT !.defs = @ \ {l.m}])
            [] l.d = "text" -> then([st EXCEPT !.out = Append(@, <<f, i, st.defs>>)])
            [] l.d = "import" /\ l.m \in (DOMAIN p) \ st.seen ->
                 then([Read(p, l.m, 1, [st EXCEPT !.seen = @ \cup {l.m}, !.on = {}]) EXCEPT !.on = st.on])
            [] l.d = "error" -> then([st EXCEPT !.err = TRUE])
            [] OTHER -> then(st)

ReadAll(p, fs) ==
  FoldLeft(LAMBDA st, f : IF f \in st.seen THEN st
                          ELSE Read(p, f, 1, [st EXCEPT !.seen = @ \cup {f}, !.on = {}]),
           [defs |-> {}, seen |-> {}, out |-> <<>>, on |-> {}, err |-> FALSE], fs)

Finished == frames = <<>> /\ (left = <<>> \/ hadErr)

(* The code that reaches the lexer is the code of the selected branches, each    *)
(* file once and at its first import, under the macros defined above it in this  *)
(* textual order; ill nested conditionals are an error. (preprocess and hookFor) *)
AsInTextualOrder ==
  Finished =>
    LET all == ReadAll(program, Inputs)
    IN IF (\A f \in seen : WellNested(program[f])) /\ ~all.err
       THEN ~hadErr /\ out = all.out ELSE hadErr
=============================================================================
