-------------------------------- MODULE Repl --------------------------------
(***************************************************************************)
(* The session of `eskiuc repl` (repl.cpp). Every input is compiled with   *)
(* the whole session into a module of its own, and a symbol the JIT holds  *)
(* already is turned into a reference to it, so code and state are shared; *)
(* a symbol that the input redeclares gets a new version. Deciding which   *)
(* symbols are stale, from the input that defined them and the input that  *)
(* declared the names they depend on, is what this module is about.        *)
(*                                                                         *)
(* Inputs are numbered by epoch. A declaration is known by the epoch of    *)
(* its input, a layout by the declarations it is made of, and the value of *)
(* a variable by the epoch of the input that wrote it (0: zeroed).         *)
(***************************************************************************)
EXTENDS Integers, Sequences, FiniteSets, FiniteSetsExt, SequencesExt

CONSTANTS
  Types,         \* declared types
  SessionNames,  \* declared functions and variables
  Holds,         \* Holds[t]: the types t has fields of, by value
  Method,        \* Method[t]: the symbol of t's method
  Prefixed,      \* Prefixed[d]: the symbols whose name begins with d and an underscore
  Inputs,        \* what may be typed
  Limit          \* bound on the number of inputs

Plain == "int"        \* the type of a variable that mentions no declared type
All == ""           \* the prefix of every symbol
Methods == Range(Method)
Symbols == SessionNames \cup Methods

\* What may be declared, and the variables that statements may make.
Declarable == UNION {in.decls : in \in {i \in Inputs : i.kind = "decls"}}
Lets == UNION {in.lets : in \in {i \in Inputs : i.kind = "stmts"}}

\* An input: kind "decls" (decls: a set of [name, is ("type", "fun" or "generic"), vars, calls])
\* or "stmts" (lets: a set of [name, type]; vars and calls: what the statements use).
Shape ==
  /\ Types \cap SessionNames = {} /\ {All, Plain} \cap (Types \cup SessionNames) = {}
  /\ Holds \in [Types -> SUBSET Types] /\ DOMAIN Method = Types /\ Methods \cap SessionNames = {}
  /\ DOMAIN Prefixed = Types \cup SessionNames
  /\ \A in \in Inputs : in.kind \in {"decls", "stmts"}
  /\ \A d \in Declarable :
       /\ d.is \in {"type", "fun", "generic"}
       /\ d.name \in (IF d.is = "type" THEN Types ELSE SessionNames)
       /\ d.vars \subseteq SessionNames /\ d.calls \subseteq SessionNames
  /\ \A in \in Inputs : in.kind = "decls" => \A c, d \in in.decls : c.name = d.name => c = d
  /\ \A l \in Lets : l.name \in SessionNames /\ l.type \in Types \cup {Plain}
  /\ \A in \in Inputs : in.kind = "stmts" =>
       /\ in.vars \subseteq SessionNames /\ in.calls \subseteq SessionNames
       /\ \A k, l \in in.lets : k.name = l.name => k = l

\* How the inputs are kept from what the session is known to get wrong: no name is a function's
\* and a variable's, a type that a variable's type holds is only declared together with that
\* type, and no variable's name begins with another name and an underscore.
KindsApart == {d.name : d \in Declarable} \cap {l.name : l \in Lets} = {}
HeldTogether ==
  \A l \in Lets : l.type # Plain =>
    \A in \in Inputs : (in.kind = "decls" /\ \E d \in in.decls : d.name \in Holds[l.type]) =>
                        \E d \in in.decls : d.name = l.type
PrefixesApart == \A l \in Lets : \A d \in DOMAIN Prefixed : l.name \notin Prefixed[d]

VARIABLES
  epoch,        \* inputs accepted
  chunks,       \* the declaration inputs: sequence of [epoch, decls]
  globals,      \* the session's variables: set of [name, type, epoch]
  version,      \* per symbol, its current version in the JIT, 0 if it has none
  defEpoch,     \* per symbol, the input that defined that version
  declEpoch,    \* per name, the input that last declared it
  prefixEpoch,  \* per prefix, the input that made what begins with it stale
  jit           \* per symbol, its versions: sequence of [fun, decl, seen, refs, layout, val]

sessionVars == <<epoch, chunks, globals, version, defEpoch, declEpoch, prefixEpoch, jit>>

Zero(S) == [s \in S |-> 0]

SessionInit ==
  /\ epoch = 0 /\ chunks = <<>> /\ globals = {}
  /\ version = Zero(Symbols) /\ defEpoch = Zero(Symbols)
  /\ declEpoch = Zero(Types \cup SessionNames) /\ prefixEpoch = Zero(Types \cup SessionNames \cup {All})
  /\ jit = [s \in Symbols |-> <<>>]

cur == epoch + 1

-----------------------------------------------------------------------------
\* build: the session and the input as one program, where a later declaration
\* of a name replaces the earlier ones

InputDecls(in) == IF in.kind = "decls" THEN in.decls ELSE {}
NewGlobals(in) == IF in.kind = "stmts" THEN {[name |-> l.name, type |-> l.type, epoch |-> cur] : l \in in.lets}
                  ELSE {}

Items(in) ==
  (UNION {{[epoch |-> chunks[i].epoch, decl |-> d] : d \in chunks[i].decls} : i \in DOMAIN chunks})
    \cup {[epoch |-> cur, decl |-> d] : d \in InputDecls(in)}

GlobalItems(in) == globals \cup NewGlobals(in)

latest(in, n) ==
  Max({0} \cup {it.epoch : it \in {i \in Items(in) : i.decl.name = n}}
          \cup {g.epoch : g \in {v \in GlobalItems(in) : v.name = n}})

\* The program: its declarations, its variables, and the layout of each type.
Decls(in) == {it \in Items(in) : it.epoch = latest(in, it.decl.name)}
CurrentGlobals(in) == {g \in GlobalItems(in) : g.epoch = latest(in, g.name)}
Funs(in) == {it \in Decls(in) : it.decl.is # "type"}
TypeAt(in, t) == latest(in, t)
Layout(in, t) == IF t = Plain THEN {} ELSE {<<u, TypeAt(in, u)>> : u \in {t} \cup Holds[t]}

\* The checker accepts the program: every use names a declaration of its kind.
Accepted(in) ==
  LET types == {it.decl.name : it \in Decls(in)} \cap Types
      values == {g.name : g \in CurrentGlobals(in)}
      funs == {it.decl.name : it \in Funs(in)}
      Fine(user) == user.vars \subseteq values /\ user.calls \subseteq funs
  IN /\ \A g \in CurrentGlobals(in) : g.type \in types \cup {Plain}
     /\ \A t \in types : Holds[t] \subseteq types
     /\ \A it \in Funs(in) : Fine(it.decl)
     /\ in.kind = "stmts" => Fine(in)

\* The functions that the program's functions and the input use, through each other.
Used(in) ==
  LET roots == (UNION {it.decl.calls : it \in {i \in Funs(in) : i.decl.is = "fun"}})
                 \cup (IF in.kind = "stmts" THEN in.calls ELSE {})
      Closed(S) == roots \subseteq S /\ \A it \in Funs(in) : it.decl.name \in S => it.decl.calls \subseteq S
  IN {n \in SessionNames : \A S \in SUBSET SessionNames : Closed(S) => n \in S}

\* The symbols of the module: every variable, every function and method, and the
\* generic functions that are used.
Emitted(in) ==
  {g.name : g \in CurrentGlobals(in)}
    \cup {it.decl.name : it \in {i \in Funs(in) : i.decl.is = "fun" \/ i.decl.name \in Used(in)}}
    \cup {Method[t] : t \in {it.decl.name : it \in Decls(in)} \cap Types}

-----------------------------------------------------------------------------
\* compileAndRun: what the input makes stale, then the versions of the module

isType(n) == n \in Types

\* Mutant of Reset: a redefined type leaves its variables alone.
keepsVariables(in) == {}

\* The variables whose type names a type that the input redefines.
Reset(in) ==
  {g.name : g \in {v \in CurrentGlobals(in) : \E d \in InputDecls(in) :
                     d.name = v.type /\ declEpoch[d.name] # 0}}

\* Mutant of Redeclared: declaring a variable again always makes a new one.
redeclaresAlways(in) == {d.name : d \in InputDecls(in)} \cup Reset(in) \cup {g.name : g \in NewGlobals(in)}

\* The names whose symbols the input makes stale.
Redeclared(in) ==
  {d.name : d \in InputDecls(in)} \cup Reset(in)
    \cup {g.name : g \in {n \in NewGlobals(in) :
                            ~ \E old \in globals : old.name = n.name /\ old.type = n.type}}

StalePrefixes(in) ==
  {d.name : d \in {x \in InputDecls(in) : x.is \in {"generic", "type"}}}
    \cup (IF \E d \in InputDecls(in) : isType(d.name) /\ declEpoch[d.name] # 0 THEN {All} ELSE {})

Stamp(f, S) == [x \in DOMAIN f |-> IF x \in S THEN cur ELSE f[x]]

\* Mutant of isStale: only what the input names is compiled again.
staleByName(s, isFun, decl, prefix) == s \in DOMAIN decl /\ decl[s] > defEpoch[s]

isStale(s, isFun, decl, prefix) ==
  \/ s \in DOMAIN decl /\ decl[s] > defEpoch[s]
  \/ isFun /\ prefix[All] > defEpoch[s]
  \/ \E p \in DOMAIN Prefixed : s \in Prefixed[p] /\ prefix[p] > defEpoch[s]

isFunction(in, s) == s \notin {g.name : g \in CurrentGlobals(in)}

\* processModule: the symbols that the module defines itself.
Defined(in, decl, prefix) ==
  {s \in Emitted(in) : version[s] = 0 \/ isStale(s, isFunction(in, s), decl, prefix)}

TypeOf(in, v) == (CHOOSE g \in CurrentGlobals(in) : g.name = v).type

\* A version of a symbol: the declaration it is compiled from, the layouts it was
\* compiled against, what it refers to, and for a variable its value. A variable is
\* referred to in the layout that the program gives it now.
Compiled(in, s, ver) ==
  IF isFunction(in, s)
  THEN LET own == {it \in Funs(in) : it.decl.name = s}
           vs == UNION {it.decl.vars : it \in own}
           cs == UNION {it.decl.calls : it \in own}
       IN [fun |-> TRUE, decl |-> latest(in, s),
           seen |-> UNION {Layout(in, t) : t \in {it.decl.name : it \in Decls(in)} \cap Types},
           refs |-> {[name |-> n, ver |-> ver[n], fun |-> n \in cs, as |-> IF n \in vs THEN Layout(in, TypeOf(in, n)) ELSE {}] :
                       n \in vs \cup cs},
           layout |-> {}, val |-> 0]
  ELSE [fun |-> FALSE, decl |-> latest(in, s), seen |-> {}, refs |-> {},
        layout |-> Layout(in, TypeOf(in, s)), val |-> 0]

\* What the input leaves if it links: the bookkeeping and the JIT's symbols.
Linked(in) ==
  LET decl == Stamp(declEpoch, Redeclared(in))
      prefix == Stamp(prefixEpoch, StalePrefixes(in))
      defs == Defined(in, decl, prefix)
      ver == [s \in Symbols |-> IF s \in defs THEN version[s] + 1 ELSE version[s]]
  IN [decl |-> decl, prefix |-> prefix, ver |-> ver, def |-> Stamp(defEpoch, defs),
      jit |-> [s \in Symbols |-> IF s \in defs THEN Append(jit[s], Compiled(in, s, ver)) ELSE jit[s]]]

-----------------------------------------------------------------------------
\* Running the input: every variable it can reach through the code it calls is
\* written, in the version that code was linked against.

Reached(code, s, v) ==
  LET from[n \in Symbols, x \in Nat, depth \in Nat] ==
        IF depth = 0 \/ x \notin DOMAIN code[n] THEN {}
        ELSE IF ~code[n][x].fun THEN {<<n, x>>}
        ELSE UNION {from[r.name, r.ver, depth - 1] : r \in code[n][x].refs}
  IN from[s, v, Cardinality(Symbols)]

Ran(in, l) ==
  LET names == {g.name : g \in in.lets} \cup in.vars \cup in.calls
      written == UNION {Reached(l.jit, n, l.ver[n]) : n \in names}
  IN [s \in Symbols |-> [v \in DOMAIN l.jit[s] |->
        IF <<s, v>> \in written THEN [l.jit[s][v] EXCEPT !.val = cur] ELSE l.jit[s][v]]]

-----------------------------------------------------------------------------
\* handleInput and the commands. An input the checker rejects changes nothing.

CommitInput(in, l) ==
  /\ epoch < Limit
  /\ epoch' = cur
  /\ chunks' = IF in.kind = "decls" THEN Append(chunks, [epoch |-> cur, decls |-> in.decls]) ELSE chunks
  /\ globals' = {g \in globals : g.name \notin {n.name : n \in NewGlobals(in)}} \cup NewGlobals(in)
  /\ declEpoch' = l.decl /\ prefixEpoch' = l.prefix
  /\ version' = l.ver /\ defEpoch' = l.def

\* Declarations typed at the prompt or read by :load.
Declare ==
  \E in \in Inputs :
    /\ in.kind = "decls" /\ Accepted(in)
    /\ LET l == Linked(in) IN CommitInput(in, l) /\ jit' = l.jit

\* Statements: an exception or a crash may stop them before they assign.
Execute ==
  \E in \in Inputs :
    /\ in.kind = "stmts" /\ Accepted(in)
    /\ LET l == Linked(in) IN CommitInput(in, l) /\ jit' \in {Ran(in, l), l.jit}

\* :reset forgets the session; the inputs go on being numbered.
ResetSession ==
  /\ 0 < epoch /\ epoch < Limit
  /\ chunks' = <<>> /\ globals' = {}
  /\ version' = Zero(Symbols) /\ defEpoch' = Zero(Symbols)
  /\ declEpoch' = Zero(Types \cup SessionNames) /\ prefixEpoch' = Zero(Types \cup SessionNames \cup {All})
  /\ jit' = [s \in Symbols |-> <<>>]
  /\ UNCHANGED epoch

SessionNext == Declare \/ Execute \/ ResetSession

SessionSpec == SessionInit /\ [][SessionNext]_sessionVars

-----------------------------------------------------------------------------
Nothing == [kind |-> "decls", decls |-> {}]
Now(s) == jit[s][version[s]]

(* What a later input finds under a name is the latest declaration of it, and *)
(* all code is compiled against the types as they are now: a variable has the *)
(* layout of its type, a function is that of its last declaration and saw no  *)
(* type that was redefined since. (isStale and processModule, repl.cpp)       *)
LinkedToLatest ==
  \A s \in Emitted(Nothing) :
    IF isFunction(Nothing, s)
    THEN /\ Now(s).fun
         /\ s \in SessionNames => Now(s).decl = latest(Nothing, s)
         /\ \A t \in Now(s).seen : t[2] = TypeAt(Nothing, t[1])
    ELSE ~Now(s).fun /\ Now(s).layout = Layout(Nothing, TypeOf(Nothing, s))

(* No code in the JIT, current or old, reads a variable in another layout than *)
(* the one its storage was made for. (the variables that a redefined type resets *)
(* in compileAndRun, repl.cpp)                                                 *)
LayoutAgrees ==
  \A s \in Symbols : \A v \in DOMAIN jit[s] : \A r \in jit[s][v].refs :
    LET to == jit[r.name][r.ver] IN to.fun = r.fun /\ to.layout = r.as

(* A session variable keeps its value from input to input unless the input     *)
(* writes it, gives it another type, or redefines its type. (newGlobals of the *)
(* same type and the stale prefixes in compileAndRun, repl.cpp)                *)
KeepsState ==
  \A g \in CurrentGlobals(Nothing) :
    (\E h \in CurrentGlobals(Nothing)' : h.name = g.name /\ h.type = g.type
                                   /\ Layout(Nothing, g.type)' = Layout(Nothing, g.type))
    => Now(g.name).val' \in {Now(g.name).val, epoch'}

StateKept == [][KeepsState]_sessionVars
=============================================================================
