----------------------------- MODULE ReplProofs -----------------------------
(* Proofs about the prompt: its session, and at the end its reader.         *)
(*                                                                          *)
(* IInv says what the bookkeeping of epochs is for: a symbol that is not    *)
(* stale is compiled from the program as it is now (Fresh), and whatever    *)
(* any code, current or old, refers to is laid out as that code expects     *)
(* (Refers). The first holds because an input stamps every name it          *)
(* declares, the prefix All when it declares a type again, and by name the  *)
(* variables of such a type; a symbol it does not stamp sees the program it *)
(* saw before. The second holds because code refers to symbols of its own   *)
(* module, which are then not stale, and the layout of a version never      *)
(* changes afterwards. What the inputs are made of (Shape) and how they are *)
(* kept from the two things the session gets wrong (KindsApart,             *)
(* HeldTogether) is assumed; that a variable keeps its value needs          *)
(* PrefixesApart as well.                                                   *)
(*                                                                          *)
(* The lemmas first compute the program of an input (NewDeclOf to           *)
(* CompiledOf), then what linking it changes (CommitOf, JitOf), and then    *)
(* take the conjuncts of IInv one by one.                                   *)
(*                                                                          *)
(* For the reader (Reading), every statement is one that the reader can     *)
(* tell is unfinished until its last line (Authored): a proof that these    *)
(* are the conditions it needs, whatever the lines are.                     *)
EXTENDS Repl, LineReader, SequenceTheorems, TLAPS

(* What the proofs assume of the inputs.                                    *)
Discipline == Shape /\ KindsApart /\ HeldTogether

Variables == {l.name : l \in Lets}
Others == (Types \cup SessionNames) \ Variables

DeclInputs == {in \in Inputs : in.kind = "decls"}
Chunks == [epoch : Nat, decls : {in.decls : in \in DeclInputs}]
Layouts == SUBSET (Types \X Nat)
References == [name : Symbols, ver : Nat, fun : BOOLEAN, as : Layouts]
Code == [fun : BOOLEAN, decl : Nat, seen : Layouts, refs : SUBSET References, layout : Layouts, val : Nat]

(* The types of the state: every symbol has as many versions as its number. *)
TypeOK ==
  /\ epoch \in Nat
  /\ chunks \in Seq(Chunks)
  /\ globals \subseteq [name : Variables, type : Types \cup {Plain}, epoch : 1 .. epoch]
  /\ version \in [Symbols -> Nat]
  /\ defEpoch \in [Symbols -> 0 .. epoch]
  /\ declEpoch \in [Types \cup SessionNames -> 0 .. epoch]
  /\ prefixEpoch \in [Types \cup SessionNames \cup {All} -> 0 .. epoch]
  /\ jit \in [Symbols -> Seq(Code)]
  /\ \A s \in Symbols : Len(jit[s]) = version[s]

(* A name's epoch is that of the last declaration input with it.            *)
Declarations ==
  /\ \A i \in DOMAIN chunks :
       chunks[i].epoch \in 1 .. epoch /\ \A d \in chunks[i].decls : chunks[i].epoch <= declEpoch[d.name]
  /\ \A i, j \in DOMAIN chunks : chunks[i].epoch = chunks[j].epoch => i = j
  /\ \A n \in Others : declEpoch[n] # 0 =>
       \E i \in DOMAIN chunks : chunks[i].epoch = declEpoch[n] /\ \E d \in chunks[i].decls : d.name = n

(* A session variable is one an input made, of a type that is declared with *)
(* the types it holds; no two have one name, and none has code without one. *)
Session ==
  /\ \A g \in globals :
       /\ \E l \in Lets : l.name = g.name /\ l.type = g.type
       /\ g.type = Plain \/ \A u \in {g.type} \cup Holds[g.type] : declEpoch[u] # 0
  /\ \A g, h \in globals : g.name = h.name => g = h
  /\ \A s \in Variables : version[s] > 0 => \E g \in globals : g.name = s

(* The layout of a type by the session's declarations, and whether the next *)
(* input would compile a symbol again.                                      *)
Shaped(t) == IF t = Plain THEN {} ELSE {<<u, declEpoch[u]>> : u \in {t} \cup Holds[t]}
Stale(s) == isStale(s, s \notin Variables, declEpoch, prefixEpoch)

(* The current version of a symbol is that of the latest declarations.      *)
Right(s) ==
  IF s \in Variables
  THEN ~Now(s).fun /\ \A g \in globals : g.name = s => Now(s).layout = Shaped(g.type)
  ELSE /\ Now(s).fun /\ Now(s).layout = {}
       /\ s \in SessionNames => Now(s).decl = declEpoch[s]
       /\ \A t \in Now(s).seen : t[2] = declEpoch[t[1]] /\ t[2] # 0

(* The session's program is all there and not stale; unstale code is right. *)
Fresh ==
  /\ \A s \in Emitted(Nothing) : version[s] > 0 /\ ~Stale(s)
  /\ \A s \in Symbols : version[s] > 0 /\ ~Stale(s) => Right(s)

(* Every reference, of old code too, finds what it was compiled against.    *)
Refers ==
  \A s \in Symbols : \A v \in DOMAIN jit[s] : \A r \in jit[s][v].refs :
    LET to == jit[r.name][r.ver]
    IN r.ver \in DOMAIN jit[r.name] /\ to.fun = r.fun /\ to.layout = r.as

IInv == TypeOK /\ Declarations /\ Session /\ Fresh /\ Refers

-----------------------------------------------------------------------------
(* The largest of a set of numbers, if it has one.                          *)
LEMMA MaxIs ==
  ASSUME NEW S \in SUBSET Int, NEW m \in S, \A y \in S : y <= m
  PROVE  Max(S) = m
<1>1. \A x \in S : (\A y \in S : x >= y) => x = m
  OBVIOUS
<1>2. \E x \in S : \A y \in S : x >= y
  OBVIOUS
<1> QED
  BY <1>1, <1>2 DEF Max

(* What an input is made of.                                                *)
GoodInput(in) ==
  /\ in.kind \in {"decls", "stmts"}
  /\ in.kind = "decls" =>
       /\ \A d \in in.decls : /\ d.name \in Others /\ (d.is = "type" <=> d.name \in Types)
                              /\ d.is \in {"type", "fun", "generic"}
                              /\ d.vars \subseteq SessionNames /\ d.calls \subseteq SessionNames
       /\ \A c, d \in in.decls : c.name = d.name => c = d
       /\ \A l \in Lets : l.type # Plain /\ (\E d \in in.decls : d.name \in Holds[l.type]) =>
                            \E d \in in.decls : d.name = l.type
  /\ in.kind = "stmts" =>
       /\ in.vars \subseteq SessionNames /\ in.calls \subseteq SessionNames
       /\ \A l \in in.lets : l \in Lets
       /\ \A k, l \in in.lets : k.name = l.name => k = l

(* The inputs are as Discipline says, read one input at a time.             *)
LEMMA GoodInputs ==
  ASSUME Discipline
  PROVE  /\ \A in \in Inputs : GoodInput(in)
         /\ GoodInput(Nothing)
         /\ \A l \in Lets : l.name \in Variables /\ l.name \in SessionNames /\ l.type \in Types \cup {Plain}
         /\ Variables \subseteq SessionNames /\ Variables \subseteq Symbols /\ Types \cap Variables = {}
         /\ \A t \in Types : Method[t] \in Methods \ SessionNames /\ Method[t] \in Symbols /\ Method[t] \notin Variables
<1>1. \A l \in Lets : l.name \in Variables /\ l.name \in SessionNames /\ l.type \in Types \cup {Plain}
  BY DEF Discipline, Shape, Variables
<1>2. Variables \subseteq SessionNames /\ Variables \subseteq Symbols /\ Types \cap Variables = {}
  BY <1>1 DEF Variables, Symbols, Discipline, Shape
<1>3. \A t \in Types : Method[t] \in Methods \ SessionNames /\ Method[t] \in Symbols /\ Method[t] \notin Variables
  BY <1>2 DEF Methods, Symbols, Discipline, Shape, Range
<1>4. \A d \in Declarable : /\ d.name \in Others /\ (d.is = "type" <=> d.name \in Types)
                            /\ d.is \in {"type", "fun", "generic"}
                            /\ d.vars \subseteq SessionNames /\ d.calls \subseteq SessionNames
  <2> SUFFICES ASSUME NEW d \in Declarable
               PROVE  /\ d.name \in Others /\ (d.is = "type" <=> d.name \in Types)
                      /\ d.is \in {"type", "fun", "generic"}
                      /\ d.vars \subseteq SessionNames /\ d.calls \subseteq SessionNames
    OBVIOUS
  <2>1. d.name \notin Variables
    BY DEF Discipline, KindsApart, Variables
  <2> QED
    BY <2>1 DEF Discipline, Shape, Others
<1>5. ASSUME NEW in \in Inputs PROVE GoodInput(in)
  <2>1. in.kind \in {"decls", "stmts"}
    BY DEF Discipline, Shape
  <2>2. CASE in.kind = "decls"
    <3>1. \A d \in in.decls : d \in Declarable
      BY <2>2 DEF Declarable
    <3> QED
      BY <2>2, <1>4, <3>1 DEF GoodInput, Discipline, HeldTogether, Shape
  <2>3. CASE in.kind = "stmts"
    <3>1. \A l \in in.lets : l \in Lets
      BY <2>3 DEF Lets
    <3> QED
      BY <2>3, <3>1 DEF GoodInput, Discipline, Shape
  <2> QED
    BY <2>1, <2>2, <2>3
<1>6. GoodInput(Nothing)
  BY DEF GoodInput, Nothing
<1> QED
  BY <1>1, <1>2, <1>3, <1>5, <1>6

-----------------------------------------------------------------------------
(* The program that an input is compiled with.                              *)

NewDecl(in) == Stamp(declEpoch, Redeclared(in))

(* What is declared: the session's declarations, and the input's as the     *)
(* latest.                                                                  *)
LEMMA ItemsOf ==
  ASSUME Discipline, TypeOK, Declarations, NEW in, GoodInput(in)
  PROVE  /\ \A it \in Items(in) :
              /\ it.epoch \in 1 .. cur
              /\ \/ it.epoch <= epoch /\ it.epoch <= declEpoch[it.decl.name]
                 \/ it.epoch = cur /\ it.decl \in InputDecls(in)
              /\ it.decl.name \in Others /\ (it.decl.is = "type" <=> it.decl.name \in Types)
              /\ it.decl.is \in {"type", "fun", "generic"}
              /\ it.decl.vars \subseteq SessionNames /\ it.decl.calls \subseteq SessionNames
         /\ \A n \in Others : declEpoch[n] # 0 =>
              \E it \in Items(in) : it.decl.name = n /\ it.epoch = declEpoch[n]
         /\ \A d \in InputDecls(in) : \E it \in Items(in) : it.decl = d /\ it.epoch = cur
<1>1. ASSUME NEW i \in DOMAIN chunks
      PROVE  \E j \in Inputs : GoodInput(j) /\ j.kind = "decls" /\ chunks[i].decls = j.decls
  <2>1. chunks[i] \in Chunks
    BY DEF TypeOK
  <2>2. chunks[i].decls \in {j.decls : j \in DeclInputs}
    BY <2>1 DEF Chunks
  <2>3. PICK j \in DeclInputs : chunks[i].decls = j.decls
    BY <2>2
  <2>4. j \in Inputs /\ j.kind = "decls"
    BY DEF DeclInputs
  <2> QED
    BY <2>3, <2>4, GoodInputs
<1>2. cur \in Nat /\ cur > epoch
  BY DEF TypeOK, cur
<1>3. ASSUME NEW it \in Items(in)
      PROVE  /\ it.epoch \in 1 .. cur
             /\ \/ it.epoch <= epoch /\ it.epoch <= declEpoch[it.decl.name]
                \/ it.epoch = cur /\ it.decl \in InputDecls(in)
             /\ it.decl.name \in Others /\ (it.decl.is = "type" <=> it.decl.name \in Types)
             /\ it.decl.is \in {"type", "fun", "generic"}
             /\ it.decl.vars \subseteq SessionNames /\ it.decl.calls \subseteq SessionNames
  <2>1. CASE \E i \in DOMAIN chunks : \E d \in chunks[i].decls : it = [epoch |-> chunks[i].epoch, decl |-> d]
    <3>1. PICK i \in DOMAIN chunks : \E d \in chunks[i].decls : it = [epoch |-> chunks[i].epoch, decl |-> d]
      BY <2>1
    <3>2. PICK d \in chunks[i].decls : it = [epoch |-> chunks[i].epoch, decl |-> d]
      BY <3>1
    <3>3. chunks[i].epoch \in 1 .. epoch /\ chunks[i].epoch <= declEpoch[d.name]
      BY DEF Declarations
    <3>4. PICK j \in Inputs : GoodInput(j) /\ j.kind = "decls" /\ chunks[i].decls = j.decls
      BY <1>1
    <3>5. /\ d.name \in Others /\ (d.is = "type" <=> d.name \in Types)
          /\ d.is \in {"type", "fun", "generic"} /\ d.vars \subseteq SessionNames /\ d.calls \subseteq SessionNames
      BY <3>4 DEF GoodInput
    <3>6. it.epoch = chunks[i].epoch /\ it.decl = d
      BY <3>2
    <3>7. it.epoch \in 1 .. cur /\ it.epoch <= epoch
      BY <1>2, <3>3, <3>6 DEF TypeOK
    <3> QED
      BY <3>3, <3>5, <3>6, <3>7
  <2>2. CASE \E d \in InputDecls(in) : it = [epoch |-> cur, decl |-> d]
    <3>1. PICK d \in InputDecls(in) : it = [epoch |-> cur, decl |-> d]
      BY <2>2
    <3>2. in.kind = "decls" /\ d \in in.decls
      BY DEF InputDecls
    <3>3. it.epoch = cur /\ it.decl = d
      BY <3>1
    <3>4. cur \in 1 .. cur
      BY <1>2 DEF TypeOK, cur
    <3> QED
      BY <3>2, <3>3, <3>4 DEF GoodInput
  <2>3. it \in {[epoch |-> cur, decl |-> d] : d \in InputDecls(in)}
        \/ it \in UNION {{[epoch |-> chunks[i].epoch, decl |-> d] : d \in chunks[i].decls} : i \in DOMAIN chunks}
    BY Zenon DEF Items
  <2>4. ASSUME it \in UNION {{[epoch |-> chunks[i].epoch, decl |-> d] : d \in chunks[i].decls} : i \in DOMAIN chunks}
        PROVE  \E i \in DOMAIN chunks : \E d \in chunks[i].decls : it = [epoch |-> chunks[i].epoch, decl |-> d]
    BY <2>4, Zenon
  <2>5. ASSUME it \in {[epoch |-> cur, decl |-> d] : d \in InputDecls(in)}
        PROVE  \E d \in InputDecls(in) : it = [epoch |-> cur, decl |-> d]
    BY <2>5, Zenon
  <2> QED
    BY <2>1, <2>2, <2>3, <2>4, <2>5
<1>4. ASSUME NEW n \in Others, declEpoch[n] # 0
      PROVE  \E it \in Items(in) : it.decl.name = n /\ it.epoch = declEpoch[n]
  <2>1. PICK i \in DOMAIN chunks : chunks[i].epoch = declEpoch[n] /\ \E d \in chunks[i].decls : d.name = n
    BY <1>4 DEF Declarations
  <2>2. PICK d \in chunks[i].decls : d.name = n
    BY <2>1
  <2>3. [epoch |-> chunks[i].epoch, decl |-> d] \in {[epoch |-> chunks[i].epoch, decl |-> x] : x \in chunks[i].decls}
    BY Zenon
  <2>4. [epoch |-> chunks[i].epoch, decl |-> d] \in Items(in)
    BY <2>3, Zenon DEF Items
  <2> QED
    BY <2>1, <2>2, <2>4
<1>5. ASSUME NEW d \in InputDecls(in) PROVE \E it \in Items(in) : it.decl = d /\ it.epoch = cur
  <2>1. [epoch |-> cur, decl |-> d] \in {[epoch |-> cur, decl |-> x] : x \in InputDecls(in)}
    BY Zenon
  <2>2. [epoch |-> cur, decl |-> d] \in Items(in)
    BY <2>1, Zenon DEF Items
  <2> QED
    BY <2>2
<1> QED
  BY <1>3, <1>4, <1>5

(* The session's variables with the input's are the same, variable or not.  *)
LEMMA GlobalItemsOf ==
  ASSUME Discipline, TypeOK, NEW in, GoodInput(in)
  PROVE  /\ \A g \in GlobalItems(in) : g.name \in Variables /\ g.epoch \in 1 .. cur /\ g.type \in Types \cup {Plain}
         /\ \A g \in NewGlobals(in) : /\ g.epoch = cur /\ in.kind = "stmts"
                                       /\ \E l \in in.lets : l.name = g.name /\ l.type = g.type
         /\ \A g \in globals : g.epoch <= epoch
<1>1. cur \in 1 .. cur /\ cur = epoch + 1 /\ 1 .. epoch \subseteq 1 .. cur /\ epoch \in Nat
  BY DEF TypeOK, cur
<1>2. \A g \in globals : g.name \in Variables /\ g.epoch \in 1 .. epoch /\ g.type \in Types \cup {Plain}
  BY DEF TypeOK
<1>3. ASSUME NEW g \in NewGlobals(in)
      PROVE  /\ g.epoch = cur /\ in.kind = "stmts" /\ \E l \in in.lets : l.name = g.name /\ l.type = g.type
             /\ g.name \in Variables /\ g.type \in Types \cup {Plain}
  <2>1. in.kind = "stmts" /\ \E l \in in.lets : g = [name |-> l.name, type |-> l.type, epoch |-> cur]
    BY DEF NewGlobals
  <2>2. PICK l \in in.lets : g = [name |-> l.name, type |-> l.type, epoch |-> cur]
    BY <2>1
  <2>3. l \in Lets
    BY <2>1 DEF GoodInput
  <2> QED
    BY <2>1, <2>2, <2>3, GoodInputs
<1> QED
  BY <1>1, <1>2, <1>3 DEF GlobalItems

(* The names that an input redeclares, apart from the session's variables.  *)
LEMMA NewDeclOf ==
  ASSUME Discipline, TypeOK, NEW in, GoodInput(in)
  PROVE  /\ NewDecl(in) \in [Types \cup SessionNames -> 0 .. cur]
         /\ \A n \in Types \cup SessionNames : NewDecl(in)[n] = IF n \in Redeclared(in) THEN cur ELSE declEpoch[n]
         /\ \A n \in Others : n \in Redeclared(in) <=> \E d \in InputDecls(in) : d.name = n
<1>1. cur \in 0 .. cur /\ 0 .. epoch \subseteq 0 .. cur /\ DOMAIN declEpoch = Types \cup SessionNames
  BY DEF TypeOK, cur
<1>2. \A n \in Types \cup SessionNames : declEpoch[n] \in 0 .. cur
  BY <1>1 DEF TypeOK
<1>3. \A n \in Types \cup SessionNames : NewDecl(in)[n] = IF n \in Redeclared(in) THEN cur ELSE declEpoch[n]
  BY <1>1 DEF NewDecl, Stamp
<1>4. NewDecl(in) \in [Types \cup SessionNames -> 0 .. cur]
  BY <1>1, <1>2 DEF NewDecl, Stamp
<1>5. ASSUME NEW n \in Others PROVE n \in Redeclared(in) <=> \E d \in InputDecls(in) : d.name = n
  <2>1. \A g \in NewGlobals(in) \cup CurrentGlobals(in) : g.name \in Variables
    BY GlobalItemsOf DEF CurrentGlobals, GlobalItems
  <2>2. \A g \in NewGlobals(in) \cup CurrentGlobals(in) : g.name # n
    BY <2>1 DEF Others
  <2> QED
    BY <2>2 DEF Redeclared, Reset
<1> QED
  BY <1>3, <1>4, <1>5

(* The latest declaration of a name is the one the stamps name.             *)
LEMMA LatestOf ==
  ASSUME Discipline, TypeOK, Declarations, NEW in, GoodInput(in)
  PROVE  \A n \in Others : latest(in, n) = NewDecl(in)[n]
<1> SUFFICES ASSUME NEW n \in Others PROVE latest(in, n) = NewDecl(in)[n]
  OBVIOUS
<1> DEFINE S == {0} \cup {it.epoch : it \in {i \in Items(in) : i.decl.name = n}}
                   \cup {g.epoch : g \in {v \in GlobalItems(in) : v.name = n}}
           m == NewDecl(in)[n]
<1>1. n \in Types \cup SessionNames /\ n \notin Variables
  BY DEF Others
<1>2. cur \in Nat /\ cur > epoch /\ epoch \in Nat /\ declEpoch[n] \in 0 .. epoch
  BY <1>1 DEF TypeOK, cur
<1>3. S = {0} \cup {it.epoch : it \in {i \in Items(in) : i.decl.name = n}}
  BY <1>1, GlobalItemsOf
<1>4. ASSUME NEW y \in S PROVE y \in Int /\ y <= m
  <2>1. CASE y = 0
    BY <1>1, <2>1, NewDeclOf
  <2>2. CASE \E it \in Items(in) : it.decl.name = n /\ it.epoch = y
    <3>1. PICK it \in Items(in) : it.decl.name = n /\ it.epoch = y
      BY <2>2
    <3>2. y \in 1 .. cur /\ ((y <= epoch /\ y <= declEpoch[n]) \/ it.decl \in InputDecls(in))
      BY <3>1, ItemsOf
    <3>3. CASE it.decl \in InputDecls(in)
      <4>1. m = cur
        BY <1>1, <3>1, <3>3, NewDeclOf
      <4> QED
        BY <3>2, <4>1
    <3>4. CASE y <= epoch /\ y <= declEpoch[n]
      <4>1. m \in {cur, declEpoch[n]}
        BY <1>1, NewDeclOf
      <4> QED
        BY <1>2, <3>2, <3>4, <4>1
    <3> QED
      BY <3>2, <3>3, <3>4
  <2> QED
    BY <1>3, <2>1, <2>2
<1>5. m \in S
  <2>1. CASE n \in Redeclared(in)
    <3>1. PICK d \in InputDecls(in) : d.name = n
      BY <2>1, NewDeclOf
    <3>2. PICK it \in Items(in) : it.decl = d /\ it.epoch = cur
      BY ItemsOf
    <3>3. m = cur
      BY <1>1, <2>1, NewDeclOf
    <3> QED
      BY <3>1, <3>2, <3>3
  <2>2. CASE n \notin Redeclared(in)
    <3>1. m = declEpoch[n]
      BY <1>1, <2>2, NewDeclOf
    <3>2. CASE m = 0
      BY <3>2
    <3>3. CASE m # 0
      BY <3>1, <3>3, ItemsOf
    <3> QED
      BY <3>2, <3>3
  <2> QED
    BY <2>1, <2>2
<1> HIDE DEF S, m
<1>6. Max(S) = m
  BY <1>4, <1>5, MaxIs
<1> QED
  BY <1>6 DEF S, m, latest

(* The variables of the program: the input's, and the session's that the    *)
(* input does not declare again. No two have one name.                      *)
LEMMA GlobalsOf ==
  ASSUME Discipline, TypeOK, Declarations, Session, NEW in, GoodInput(in)
  PROVE  /\ CurrentGlobals(in) = {g \in globals : g.name \notin {n.name : n \in NewGlobals(in)}} \cup NewGlobals(in)
         /\ \A s \in Variables : latest(in, s) \in 0 .. cur
         /\ \A g, h \in CurrentGlobals(in) : g.name = h.name => g = h
         /\ \A g \in CurrentGlobals(in) : /\ g.name \in Variables /\ g.type \in Types \cup {Plain}
                                     /\ g.epoch \in 1 .. cur
                                     /\ \E l \in Lets : l.name = g.name /\ l.type = g.type
                                     /\ TypeOf(in, g.name) = g.type
<1> DEFINE Kept == {g \in globals : g.name \notin {n.name : n \in NewGlobals(in)}}
           S(s) == {0} \cup {it.epoch : it \in {i \in Items(in) : i.decl.name = s}}
                      \cup {g.epoch : g \in {v \in GlobalItems(in) : v.name = s}}
<1>1. cur \in Nat /\ cur > epoch /\ epoch \in Nat /\ 0 \in 0 .. cur
  BY DEF TypeOK, cur
<1>2. \A g \in NewGlobals(in) : g \in GlobalItems(in) /\ g.epoch = cur
  BY GlobalItemsOf DEF GlobalItems
<1>3. \A g \in globals : g \in GlobalItems(in) /\ g.epoch <= epoch
  BY GlobalItemsOf DEF GlobalItems
<1>4. \A s \in Variables : S(s) = {0} \cup {g.epoch : g \in {v \in GlobalItems(in) : v.name = s}}
  BY ItemsOf DEF Others
<1>5. \A s \in Variables : \A y \in S(s) : y = 0 \/ \E g \in GlobalItems(in) : g.name = s /\ g.epoch = y /\ y \in 1 .. cur
  BY <1>4, GlobalItemsOf
<1>6. \A s \in Variables : latest(in, s) = Max(S(s))
  BY DEF latest
<1>7. ASSUME NEW n \in NewGlobals(in) PROVE latest(in, n.name) = cur
  <2>1. n.name \in Variables
    BY <1>2, GlobalItemsOf
  <2>2. cur \in S(n.name)
    BY <1>2
  <2> HIDE DEF S
  <2>4. \A y \in S(n.name) : y = 0 \/ y \in 1 .. cur
    BY <1>5, <2>1
  <2>3. S(n.name) \in SUBSET Int /\ \A y \in S(n.name) : y <= cur
    BY <1>1, <2>4
  <2> QED
    BY <1>6, <2>1, <2>2, <2>3, MaxIs
<1>8. ASSUME NEW g \in Kept PROVE latest(in, g.name) = g.epoch
  <2>1. g.name \in Variables /\ g \in GlobalItems(in) /\ g.epoch \in 1 .. cur
    BY <1>3, GlobalItemsOf
  <2>2. \A v \in GlobalItems(in) : v.name = g.name => v = g
    BY DEF GlobalItems, Session
  <2>3. g.epoch \in S(g.name)
    BY <2>1
  <2> HIDE DEF S
  <2>5. \A y \in S(g.name) : y = 0 \/ y = g.epoch
    BY <1>5, <2>1, <2>2
  <2>4. S(g.name) \in SUBSET Int /\ \A y \in S(g.name) : y <= g.epoch
    BY <1>1, <2>1, <2>5
  <2> QED
    BY <1>6, <2>1, <2>3, <2>4, MaxIs
<1> HIDE DEF S
<1>9. CurrentGlobals(in) = Kept \cup NewGlobals(in)
  <2>1. Kept \cup NewGlobals(in) \subseteq CurrentGlobals(in)
    BY <1>2, <1>3, <1>7, <1>8 DEF CurrentGlobals
  <2>2. ASSUME NEW g \in CurrentGlobals(in), g \notin Kept, g \notin NewGlobals(in) PROVE FALSE
    <3>1. g \in globals /\ g.epoch = latest(in, g.name)
      BY <2>2 DEF CurrentGlobals, GlobalItems
    <3>2. PICK n \in NewGlobals(in) : n.name = g.name
      BY <2>2, <3>1
    <3>3. g.epoch = cur
      BY <1>7, <3>1, <3>2
    <3> QED
      BY <1>1, <1>3, <3>1, <3>3
  <2> QED
    BY <2>1, <2>2
<1>10. ASSUME NEW s \in Variables PROVE latest(in, s) \in 0 .. cur
  <2>1. CASE \E n \in NewGlobals(in) : n.name = s
    BY <1>1, <1>7, <2>1
  <2>2. CASE \E g \in Kept : g.name = s
    BY <1>3, <1>8, <2>2, GlobalItemsOf
  <2>3. CASE ~ \E g \in GlobalItems(in) : g.name = s
    <3>1. S(s) = {0}
      BY <1>4, <2>3
    <3>2. Max(S(s)) = 0
      BY <3>1, MaxIs
    <3> QED
      BY <1>1, <1>6, <3>2
  <2> QED
    BY <2>1, <2>2, <2>3 DEF GlobalItems
<1>11. ASSUME NEW g \in CurrentGlobals(in), NEW h \in CurrentGlobals(in), g.name = h.name PROVE g = h
  <2>1. CASE g \in NewGlobals(in) /\ h \in NewGlobals(in)
    <3>1. PICK k \in in.lets : g = [name |-> k.name, type |-> k.type, epoch |-> cur]
      BY <2>1 DEF NewGlobals
    <3>2. PICK l \in in.lets : h = [name |-> l.name, type |-> l.type, epoch |-> cur]
      BY <2>1 DEF NewGlobals
    <3>3. in.kind = "stmts"
      BY <2>1, GlobalItemsOf
    <3>4. k = l
      BY <1>11, <3>1, <3>2, <3>3 DEF GoodInput
    <3> QED
      BY <3>1, <3>2, <3>4
  <2>2. CASE g \in Kept /\ h \in Kept
    BY <1>11, <2>2 DEF Session
  <2> QED
    BY <1>9, <1>11, <2>1, <2>2
<1>12. ASSUME NEW g \in CurrentGlobals(in)
       PROVE  /\ g.name \in Variables /\ g.type \in Types \cup {Plain} /\ g.epoch \in 1 .. cur
              /\ \E l \in Lets : l.name = g.name /\ l.type = g.type
              /\ TypeOf(in, g.name) = g.type
  <2>1. g.name \in Variables /\ g.type \in Types \cup {Plain} /\ g.epoch \in 1 .. cur
    BY GlobalItemsOf DEF CurrentGlobals
  <2>2. \E l \in Lets : l.name = g.name /\ l.type = g.type
    <3>1. CASE g \in globals
      BY <3>1 DEF Session
    <3>2. CASE g \in NewGlobals(in)
      BY <3>2, GlobalItemsOf DEF GoodInput
    <3> QED
      BY <1>9, <3>1, <3>2
  <2>3. TypeOf(in, g.name) = g.type
    BY <1>11 DEF TypeOf
  <2> QED
    BY <2>1, <2>2, <2>3
<1> QED
  BY <1>9, <1>10, <1>11, <1>12

(* An input declares a name once.                                           *)
LEMMA ItemsApart ==
  ASSUME Discipline, TypeOK, Declarations, NEW in, GoodInput(in)
  PROVE  \A it, jt \in Items(in) : it.epoch = jt.epoch /\ it.decl.name = jt.decl.name => it = jt
<1> SUFFICES ASSUME NEW it \in Items(in), NEW jt \in Items(in),
                    it.epoch = jt.epoch, it.decl.name = jt.decl.name
             PROVE  it = jt
  OBVIOUS
<1> DEFINE Old(x, i) == x.decl \in chunks[i].decls /\ x.epoch = chunks[i].epoch
           New(x) == x.decl \in InputDecls(in) /\ x.epoch = cur
<1>1. ASSUME NEW x \in Items(in)
      PROVE  x = [epoch |-> x.epoch, decl |-> x.decl] /\ ((\E i \in DOMAIN chunks : Old(x, i)) \/ New(x))
  <2>1. CASE \E i \in DOMAIN chunks : \E d \in chunks[i].decls : x = [epoch |-> chunks[i].epoch, decl |-> d]
    BY <2>1
  <2>2. CASE \E d \in InputDecls(in) : x = [epoch |-> cur, decl |-> d]
    BY <2>2
  <2>3. x \in {[epoch |-> cur, decl |-> d] : d \in InputDecls(in)}
        \/ x \in UNION {{[epoch |-> chunks[i].epoch, decl |-> d] : d \in chunks[i].decls} : i \in DOMAIN chunks}
    BY Zenon DEF Items
  <2>4. ASSUME x \in UNION {{[epoch |-> chunks[i].epoch, decl |-> d] : d \in chunks[i].decls} : i \in DOMAIN chunks}
        PROVE  \E i \in DOMAIN chunks : \E d \in chunks[i].decls : x = [epoch |-> chunks[i].epoch, decl |-> d]
    BY <2>4, Zenon
  <2>5. ASSUME x \in {[epoch |-> cur, decl |-> d] : d \in InputDecls(in)}
        PROVE  \E d \in InputDecls(in) : x = [epoch |-> cur, decl |-> d]
    BY <2>5, Zenon
  <2> QED
    BY <2>1, <2>2, <2>3, <2>4, <2>5
<1>2. ASSUME NEW i \in DOMAIN chunks
      PROVE  chunks[i].epoch # cur /\ \A c, d \in chunks[i].decls : c.name = d.name => c = d
  <2>1. chunks[i] \in Chunks /\ epoch \in Nat
    BY DEF TypeOK
  <2>2. chunks[i].decls \in {j.decls : j \in DeclInputs}
    BY <2>1 DEF Chunks
  <2>3. PICK j \in DeclInputs : chunks[i].decls = j.decls
    BY <2>2
  <2>4. j \in Inputs /\ j.kind = "decls" /\ GoodInput(j)
    BY GoodInputs DEF DeclInputs
  <2>5. chunks[i].epoch \in 1 .. epoch
    BY DEF Declarations
  <2> QED
    BY <2>1, <2>3, <2>4, <2>5 DEF GoodInput, cur
<1>3. \A c, d \in InputDecls(in) : c.name = d.name => c = d
  BY DEF InputDecls, GoodInput
<1>4. it.decl = jt.decl
  <2>1. CASE New(it) /\ New(jt)
    BY <1>3, <2>1
  <2>2. CASE \E i \in DOMAIN chunks : Old(it, i)
    <3>1. PICK i \in DOMAIN chunks : Old(it, i)
      BY <2>2
    <3>2. ~New(jt)
      BY <1>2, <3>1
    <3>3. PICK j \in DOMAIN chunks : Old(jt, j)
      BY <1>1, <3>2
    <3>4. i = j
      BY <3>1, <3>3 DEF Declarations
    <3> QED
      BY <1>2, <3>1, <3>3, <3>4
  <2>3. CASE New(it) /\ \E j \in DOMAIN chunks : Old(jt, j)
    BY <1>2, <2>3
  <2> QED
    BY <1>1, <2>1, <2>2, <2>3
<1> QED
  BY <1>1, <1>4

(* The declarations of the program are those of the names declared so far,  *)
(* one of each.                                                             *)
LEMMA DeclsOf ==
  ASSUME Discipline, TypeOK, Declarations, NEW in, GoodInput(in)
  PROVE  /\ \A it \in Decls(in) :
              /\ it.decl.name \in Others /\ it.epoch = NewDecl(in)[it.decl.name] /\ it.epoch # 0
              /\ (it.decl.is = "type" <=> it.decl.name \in Types) /\ it.decl.is \in {"type", "fun", "generic"}
              /\ it.decl.vars \subseteq SessionNames /\ it.decl.calls \subseteq SessionNames
         /\ \A n \in Others : NewDecl(in)[n] # 0 => \E it \in Decls(in) : it.decl.name = n
         /\ {it.decl.name : it \in Decls(in)} \cap Types = {t \in Types : NewDecl(in)[t] # 0}
         /\ \A it \in Funs(in) : it.decl.name \in SessionNames /\ it.decl.name \notin Variables
         /\ \A it \in Decls(in) : \A jt \in Decls(in) : it.decl.name = jt.decl.name => it = jt
<1>1. \A it \in Decls(in) : it \in Items(in) /\ it.epoch = latest(in, it.decl.name)
  BY DEF Decls
<1>2. ASSUME NEW it \in Decls(in)
      PROVE  /\ it.decl.name \in Others /\ it.epoch = NewDecl(in)[it.decl.name] /\ it.epoch # 0
             /\ (it.decl.is = "type" <=> it.decl.name \in Types) /\ it.decl.is \in {"type", "fun", "generic"}
             /\ it.decl.vars \subseteq SessionNames /\ it.decl.calls \subseteq SessionNames
  BY <1>1, ItemsOf, LatestOf
<1>3. ASSUME NEW n \in Others, NewDecl(in)[n] # 0 PROVE \E it \in Decls(in) : it.decl.name = n
  <2>1. n \in Types \cup SessionNames
    BY DEF Others
  <2>2. PICK it \in Items(in) : it.decl.name = n /\ it.epoch = NewDecl(in)[n]
    <3>1. CASE n \in Redeclared(in)
      <4>1. PICK d \in InputDecls(in) : d.name = n
        BY <3>1, NewDeclOf
      <4>2. PICK it \in Items(in) : it.decl = d /\ it.epoch = cur
        BY ItemsOf
      <4> QED
        BY <2>1, <3>1, <4>1, <4>2, NewDeclOf
    <3>2. CASE n \notin Redeclared(in)
      <4>1. NewDecl(in)[n] = declEpoch[n]
        BY <2>1, <3>2, NewDeclOf
      <4> QED
        BY <1>3, <4>1, ItemsOf
    <3> QED
      BY <3>1, <3>2
  <2>3. it \in Decls(in)
    BY <2>2, LatestOf DEF Decls
  <2> QED
    BY <2>2, <2>3
<1>4. {it.decl.name : it \in Decls(in)} \cap Types = {t \in Types : NewDecl(in)[t] # 0}
  <2>1. Types \subseteq Others
    BY GoodInputs DEF Others
  <2> QED
    BY <1>2, <1>3, <2>1
<1>5. \A it \in Funs(in) : it.decl.name \in SessionNames /\ it.decl.name \notin Variables
  BY <1>2 DEF Funs, Others
<1>6. ASSUME NEW it \in Decls(in), NEW jt \in Decls(in), it.decl.name = jt.decl.name PROVE it = jt
  <2>1. it.epoch = jt.epoch /\ it \in Items(in) /\ jt \in Items(in)
    BY <1>1, <1>6
  <2> QED
    BY <1>6, <2>1, ItemsApart
<1> QED
  BY <1>2, <1>3, <1>4, <1>5, <1>6

(* The layout that the program gives a type.                                *)
LEMMA LayoutOf ==
  ASSUME Discipline, TypeOK, Declarations, NEW in, GoodInput(in), NEW t \in Types \cup {Plain}
  PROVE  /\ Layout(in, t) = IF t = Plain THEN {} ELSE {<<u, NewDecl(in)[u]>> : u \in {t} \cup Holds[t]}
         /\ Layout(in, t) \in Layouts
<1>1. t # Plain => {t} \cup Holds[t] \subseteq Types
  BY DEF Discipline, Shape
<1>2. Types \subseteq Others
  BY GoodInputs DEF Others
<1>3. t # Plain => \A u \in {t} \cup Holds[t] : TypeAt(in, u) = NewDecl(in)[u]
  BY <1>1, <1>2, LatestOf DEF TypeAt
<1>4. Layout(in, t) = IF t = Plain THEN {} ELSE {<<u, NewDecl(in)[u]>> : u \in {t} \cup Holds[t]}
  BY <1>3 DEF Layout
<1>5. \A u \in Types : NewDecl(in)[u] \in Nat
  BY NewDeclOf DEF TypeOK, cur
<1>6. t # Plain => \A u \in {t} \cup Holds[t] : <<u, NewDecl(in)[u]>> \in Types \X Nat
  BY <1>1, <1>5
<1>7. Layout(in, t) \in Layouts
  BY <1>4, <1>6 DEF Layouts
<1> QED
  BY <1>4, <1>7

(* What the checker requires of the program.                                *)
LEMMA AcceptedOf ==
  ASSUME Discipline, TypeOK, Declarations, Session, NEW in, GoodInput(in), Accepted(in)
  PROVE  /\ \A g \in CurrentGlobals(in) : g.type = Plain \/ (g.type \in Types /\ NewDecl(in)[g.type] # 0)
         /\ \A t \in Types : NewDecl(in)[t] # 0 => \A u \in {t} \cup Holds[t] : u \in Types /\ NewDecl(in)[u] # 0
         /\ \A it \in Funs(in) : /\ \A v \in it.decl.vars : v \in Variables /\ \E g \in CurrentGlobals(in) : g.name = v
                                 /\ \A c \in it.decl.calls : \E jt \in Funs(in) : jt.decl.name = c
<1> DEFINE types == {it.decl.name : it \in Decls(in)} \cap Types
<1>1. types = {t \in Types : NewDecl(in)[t] # 0}
  BY DeclsOf
<1>2. \A g \in CurrentGlobals(in) : g.type \in types \cup {Plain}
  BY DEF Accepted
<1>3. \A t \in types : Holds[t] \subseteq types
  BY DEF Accepted
<1>4. \A it \in Funs(in) : /\ it.decl.vars \subseteq {g.name : g \in CurrentGlobals(in)}
                           /\ it.decl.calls \subseteq {f.decl.name : f \in Funs(in)}
  BY DEF Accepted
<1>5. \A g \in CurrentGlobals(in) : g.name \in Variables
  BY GlobalsOf
<1> HIDE DEF types
<1> QED
  BY <1>1, <1>2, <1>3, <1>4, <1>5

-----------------------------------------------------------------------------
(* The module that an input is compiled into.                               *)

(* The symbols of the module are those of the program; a symbol of it is a  *)
(* variable's exactly if some input declares a variable of that name.       *)
LEMMA EmittedOf ==
  ASSUME Discipline, TypeOK, Declarations, Session, NEW in, GoodInput(in)
  PROVE  /\ Emitted(in) \subseteq Symbols
         /\ \A s \in Emitted(in) : isFunction(in, s) <=> s \notin Variables
         /\ \A s \in Emitted(in) : s \in Variables => \E g \in CurrentGlobals(in) : g.name = s
         /\ \A g \in CurrentGlobals(in) : g.name \in Emitted(in)
<1>1. ASSUME NEW s \in Emitted(in) PROVE s \in Symbols /\ (s \in Variables <=> \E g \in CurrentGlobals(in) : g.name = s)
  <2>1. CASE \E g \in CurrentGlobals(in) : g.name = s
    BY <2>1, GlobalsOf, GoodInputs
  <2>2. CASE \E it \in Funs(in) : it.decl.name = s
    <3>1. s \in SessionNames /\ s \notin Variables
      BY <2>2, DeclsOf
    <3> QED
      BY <3>1, GlobalsOf DEF Symbols
  <2>3. CASE \E t \in Types : Method[t] = s
    <3>1. s \in Symbols /\ s \notin Variables
      BY <2>3, GoodInputs
    <3> QED
      BY <3>1, GlobalsOf
  <2> QED
    BY <2>1, <2>2, <2>3 DEF Emitted
<1>2. \A s \in Emitted(in) : isFunction(in, s) <=> s \notin Variables
  BY <1>1 DEF isFunction
<1>3. \A g \in CurrentGlobals(in) : g.name \in Emitted(in)
  BY DEF Emitted
<1> QED
  BY <1>1, <1>2, <1>3

(* What the functions of the module use is in the module: its variables,    *)
(* and the functions that it calls, which are no variables.                 *)
LEMMA UsesOf ==
  ASSUME Discipline, TypeOK, Declarations, Session, NEW in, GoodInput(in), Accepted(in),
         NEW it \in Funs(in), it.decl.name \in Emitted(in)
  PROVE  /\ \A v \in it.decl.vars : v \in Emitted(in) /\ v \in Variables
         /\ \A c \in it.decl.calls : c \in Emitted(in) /\ c \notin Variables
<1>1. \A v \in it.decl.vars : v \in Emitted(in) /\ v \in Variables
  BY AcceptedOf, EmittedOf
<1>2. it \in Decls(in) /\ it.decl.is \in {"fun", "generic"} /\ it.decl.name \in SessionNames
  BY DeclsOf DEF Funs
<1>3. ASSUME NEW c \in it.decl.calls PROVE c \in Used(in)
  <2>1. c \in SessionNames
    BY <1>2, DeclsOf
  <2>2. CASE it.decl.is = "fun"
    <3>1. it \in {i \in Funs(in) : i.decl.is = "fun"}
      BY <2>2
    <3>2. c \in UNION {i.decl.calls : i \in {j \in Funs(in) : j.decl.is = "fun"}}
      BY <3>1, Zenon
    <3> QED
      BY <2>1, <3>2 DEF Used
  <2>3. CASE it.decl.is = "generic"
    <3>1. it.decl.name \in Used(in)
      <4>1. it.decl.name \notin {g.name : g \in CurrentGlobals(in)}
        BY DeclsOf, GlobalsOf
      <4>2. it.decl.name \notin {Method[t] : t \in {i.decl.name : i \in Decls(in)} \cap Types}
        BY <1>2, GoodInputs
      <4>3. PICK f \in Funs(in) : f.decl.name = it.decl.name /\ (f.decl.is = "fun" \/ f.decl.name \in Used(in))
        BY <4>1, <4>2 DEF Emitted
      <4>4. f = it
        BY <1>2, <4>3, DeclsOf DEF Funs
      <4> QED
        BY <2>3, <4>3, <4>4
    <3> QED
      BY <2>1, <3>1 DEF Used
  <2> QED
    BY <1>2, <2>2, <2>3
<1>4. ASSUME NEW c \in it.decl.calls PROVE c \in Emitted(in) /\ c \notin Variables
  <2>1. PICK f \in Funs(in) : f.decl.name = c
    BY AcceptedOf
  <2>2. c \notin Variables
    BY <2>1, DeclsOf
  <2>3. c \in Used(in)
    BY <1>3
  <2>4. c \in {i.decl.name : i \in {j \in Funs(in) : j.decl.is = "fun" \/ j.decl.name \in Used(in)}}
    BY <2>1, <2>3
  <2> QED
    BY <2>2, <2>4 DEF Emitted
<1> QED
  BY <1>1, <1>4

(* A version of a symbol is compiled from the program as it is.             *)
LEMMA CompiledOf ==
  ASSUME Discipline, TypeOK, Declarations, Session, NEW in, GoodInput(in), Accepted(in),
         NEW s \in Emitted(in), NEW ver \in [Symbols -> Nat]
  PROVE  LET c == Compiled(in, s, ver)
         IN /\ c \in Code /\ c.fun = (s \notin Variables)
            /\ s \in Variables => c.refs = {} /\ \A g \in CurrentGlobals(in) : g.name = s => c.layout = Layout(in, g.type)
            /\ s \notin Variables =>
                 /\ c.layout = {}
                 /\ s \in SessionNames => c.decl = NewDecl(in)[s]
                 /\ \A t \in c.seen : t[2] = NewDecl(in)[t[1]] /\ t[2] # 0
            /\ \A r \in c.refs :
                 /\ r.name \in Emitted(in) /\ r.ver = ver[r.name] /\ r.fun = (r.name \notin Variables)
                 /\ r.as = IF r.name \in Variables THEN Layout(in, TypeOf(in, r.name)) ELSE {}
<1> DEFINE own == {it \in Funs(in) : it.decl.name = s}
           vs == UNION {it.decl.vars : it \in own}
           cs == UNION {it.decl.calls : it \in own}
           known == {it.decl.name : it \in Decls(in)} \cap Types
           ref(n) == [name |-> n, ver |-> ver[n], fun |-> n \in cs,
                      as |-> IF n \in vs THEN Layout(in, TypeOf(in, n)) ELSE {}]
           c == Compiled(in, s, ver)
<1>1. s \in Symbols /\ (isFunction(in, s) <=> s \notin Variables)
  BY EmittedOf
<1>2. \A g \in CurrentGlobals(in) : TypeOf(in, g.name) = g.type /\ g.type \in Types \cup {Plain}
  BY GlobalsOf
<1>3. \A v \in Emitted(in) : v \in Variables => Layout(in, TypeOf(in, v)) \in Layouts
  BY <1>2, EmittedOf, LayoutOf
<1>4. latest(in, s) \in Nat
  <2>1. s \in Variables => latest(in, s) \in 0 .. cur
    BY GlobalsOf
  <2>2. s \in Others => latest(in, s) \in 0 .. cur
    BY LatestOf, NewDeclOf DEF Others
  <2>3. s \notin Variables \cup Others => latest(in, s) = 0
    <3>1. \A g \in GlobalItems(in) : g.name \in Variables
      BY GlobalItemsOf
    <3>2. \A it \in Items(in) : it.decl.name \in Others
      BY ItemsOf
    <3>3. s \notin Variables \cup Others =>
            {0} \cup {it.epoch : it \in {i \in Items(in) : i.decl.name = s}}
                \cup {g.epoch : g \in {v \in GlobalItems(in) : v.name = s}} = {0}
      BY <3>1, <3>2
    <3> DEFINE S == {0}
    <3>4. S \in SUBSET Int /\ 0 \in S /\ \A y \in S : y <= 0
      OBVIOUS
    <3> HIDE DEF S
    <3>5. Max(S) = 0
      BY <3>4, MaxIs
    <3> QED
      BY <3>3, <3>5 DEF latest, S
  <2> QED
    BY <2>1, <2>2, <2>3 DEF TypeOK, cur
<1>5. CASE s \in Variables
  <2>1. c = [fun |-> FALSE, decl |-> latest(in, s), seen |-> {}, refs |-> {},
             layout |-> Layout(in, TypeOf(in, s)), val |-> 0]
    BY <1>1, <1>5 DEF Compiled
  <2>2. c \in Code
    <3>1. {} \in Layouts /\ {} \in SUBSET References /\ FALSE \in BOOLEAN /\ 0 \in Nat
      BY DEF Layouts
    <3>2. Layout(in, TypeOf(in, s)) \in Layouts
      BY <1>3, <1>5
    <3> QED
      BY <1>4, <2>1, <3>1, <3>2 DEF Code
  <2>3. c.fun = FALSE /\ c.refs = {} /\ c.layout = Layout(in, TypeOf(in, s))
    BY <2>1
  <2> HIDE DEF c
  <2> QED
    BY <1>2, <1>5, <2>2, <2>3 DEF c
<1>6. CASE s \notin Variables
  <2>1. c = [fun |-> TRUE, decl |-> latest(in, s), seen |-> UNION {Layout(in, t) : t \in known},
             refs |-> {ref(n) : n \in vs \cup cs}, layout |-> {}, val |-> 0]
    BY <1>1, <1>6 DEF Compiled
  <2>2. /\ \A n \in vs : n \in Emitted(in) /\ n \in Variables
        /\ \A n \in cs : n \in Emitted(in) /\ n \notin Variables
    BY UsesOf
  <2>3. ASSUME NEW n \in vs \cup cs
        PROVE  /\ n \in Emitted(in) /\ (n \in cs <=> n \notin Variables)
               /\ (IF n \in vs THEN Layout(in, TypeOf(in, n)) ELSE {})
                    = IF n \in Variables THEN Layout(in, TypeOf(in, n)) ELSE {}
               /\ (IF n \in vs THEN Layout(in, TypeOf(in, n)) ELSE {}) \in Layouts
    <3>1. n \in Emitted(in) /\ (n \in cs <=> n \notin Variables) /\ (n \in vs <=> n \in Variables)
      BY <2>2
    <3>2. {} \in Layouts
      BY DEF Layouts
    <3> QED
      BY <1>3, <3>1, <3>2
  <2> HIDE DEF vs, cs, known
  <2>4. ASSUME NEW n \in vs \cup cs
        PROVE  /\ ref(n) \in References /\ ref(n).name \in Emitted(in) /\ ref(n).ver = ver[ref(n).name]
               /\ ref(n).fun = (ref(n).name \notin Variables)
               /\ ref(n).as = IF ref(n).name \in Variables THEN Layout(in, TypeOf(in, ref(n).name)) ELSE {}
    <3>1. n \in Symbols /\ ver[n] \in Nat /\ (n \in cs) \in BOOLEAN
      BY <2>3, EmittedOf
    <3> DEFINE as == IF n \in vs THEN Layout(in, TypeOf(in, n)) ELSE {}
    <3>2. as \in Layouts /\ as = IF n \in Variables THEN Layout(in, TypeOf(in, n)) ELSE {}
      BY <2>3
    <3>3. ref(n) = [name |-> n, ver |-> ver[n], fun |-> n \in cs, as |-> as]
      OBVIOUS
    <3> HIDE DEF as, ref
    <3>4. ref(n) \in References
      BY <3>1, <3>2, <3>3 DEF References
    <3> QED
      BY <2>3, <3>2, <3>3, <3>4
  <2>5. ASSUME NEW t \in UNION {Layout(in, u) : u \in known}
        PROVE  t \in Types \X Nat /\ t[2] = NewDecl(in)[t[1]] /\ t[2] # 0
    <3>1. PICK u \in known : t \in Layout(in, u)
      BY <2>5
    <3>2. u \in Types /\ NewDecl(in)[u] # 0 /\ u # Plain
      BY DeclsOf DEF known, Discipline, Shape
    <3>3. PICK w \in {u} \cup Holds[u] : t = <<w, NewDecl(in)[w]>>
      BY <3>1, <3>2, LayoutOf
    <3>4. w \in Types /\ NewDecl(in)[w] # 0
      BY <3>2, AcceptedOf
    <3>5. NewDecl(in)[w] \in Nat
      BY <3>4, NewDeclOf DEF TypeOK, cur
    <3> QED
      BY <3>3, <3>4, <3>5
  <2>6. c \in Code
    <3>1. UNION {Layout(in, t) : t \in known} \in Layouts
      BY <2>5 DEF Layouts
    <3>2. {ref(n) : n \in vs \cup cs} \in SUBSET References
      BY <2>4
    <3>3. {} \in Layouts /\ TRUE \in BOOLEAN /\ 0 \in Nat
      BY DEF Layouts
    <3> HIDE DEF ref
    <3> QED
      BY <1>4, <2>1, <3>1, <3>2, <3>3 DEF Code
  <2>7. s \in SessionNames => latest(in, s) = NewDecl(in)[s]
    BY <1>6, LatestOf DEF Others
  <2> HIDE DEF ref
  <2>8. /\ c.fun = TRUE /\ c.decl = latest(in, s) /\ c.seen = UNION {Layout(in, t) : t \in known}
        /\ c.refs = {ref(n) : n \in vs \cup cs} /\ c.layout = {}
    BY <2>1
  <2> HIDE DEF c
  <2>9. \A r \in c.refs :
          /\ r.name \in Emitted(in) /\ r.ver = ver[r.name] /\ r.fun = (r.name \notin Variables)
          /\ r.as = IF r.name \in Variables THEN Layout(in, TypeOf(in, r.name)) ELSE {}
    BY <2>4, <2>8
  <2>10. \A t \in c.seen : t[2] = NewDecl(in)[t[1]] /\ t[2] # 0
    BY <2>5, <2>8
  <2> QED
    BY <1>6, <2>6, <2>7, <2>8, <2>9, <2>10 DEF c
<1> QED
  BY <1>5, <1>6

-----------------------------------------------------------------------------
(* The step that takes an input.                                            *)

NewPrefix(in) == Stamp(prefixEpoch, StalePrefixes(in))
Defs(in) == Defined(in, NewDecl(in), NewPrefix(in))

Took(in) ==
  /\ Accepted(in) /\ CommitInput(in, Linked(in))
  /\ jit' \in {Linked(in).jit} \cup (IF in.kind = "stmts" THEN {Ran(in, Linked(in))} ELSE {})

(* Two versions of a symbol are the same code: a variable's value may differ. *)
Same(a, b) == a.fun = b.fun /\ a.decl = b.decl /\ a.seen = b.seen /\ a.refs = b.refs /\ a.layout = b.layout

(* Declare and Execute take an input the same way.                          *)
LEMMA Takes ==
  ASSUME Declare \/ Execute
  PROVE  \E in \in Inputs : Took(in)
<1>1. CASE Declare
  BY <1>1 DEF Declare, Took
<1>2. CASE Execute
  BY <1>2 DEF Execute, Took
<1> QED
  BY <1>1, <1>2

(* The bookkeeping of the step.                                             *)
LEMMA CommitOf ==
  ASSUME Discipline, TypeOK, Declarations, Session, NEW in \in Inputs, Took(in)
  PROVE  /\ epoch' = cur /\ declEpoch' = NewDecl(in) /\ prefixEpoch' = NewPrefix(in) /\ globals' = CurrentGlobals(in)
         /\ chunks' = IF in.kind = "decls" THEN Append(chunks, [epoch |-> cur, decls |-> in.decls]) ELSE chunks
         /\ Defs(in) \subseteq Symbols /\ Defs(in) \subseteq Emitted(in)
         /\ version' \in [Symbols -> Nat]
         /\ \A s \in Symbols : version'[s] = IF s \in Defs(in) THEN version[s] + 1 ELSE version[s]
         /\ defEpoch' \in [Symbols -> 0 .. epoch']
         /\ \A s \in Symbols : defEpoch'[s] = IF s \in Defs(in) THEN cur ELSE defEpoch[s]
         /\ declEpoch' \in [Types \cup SessionNames -> 0 .. epoch']
         /\ prefixEpoch' \in [Types \cup SessionNames \cup {All} -> 0 .. epoch']
         /\ \A p \in Types \cup SessionNames \cup {All} :
              prefixEpoch'[p] = IF p \in StalePrefixes(in) THEN cur ELSE prefixEpoch[p]
         /\ Linked(in).jit = [s \in Symbols |-> IF s \in Defs(in) THEN Append(jit[s], Compiled(in, s, version'))
                                                ELSE jit[s]]
<1>1. GoodInput(in) /\ CommitInput(in, Linked(in))
  BY GoodInputs DEF Took
<1>2. /\ Linked(in).decl = NewDecl(in) /\ Linked(in).prefix = NewPrefix(in)
      /\ Linked(in).ver = [s \in Symbols |-> IF s \in Defs(in) THEN version[s] + 1 ELSE version[s]]
      /\ Linked(in).def = Stamp(defEpoch, Defs(in))
      /\ Linked(in).jit = [s \in Symbols |-> IF s \in Defs(in) THEN Append(jit[s], Compiled(in, s, Linked(in).ver))
                                                ELSE jit[s]]
  BY DEF Linked, NewDecl, NewPrefix, Defs
<1>3. /\ epoch' = cur /\ declEpoch' = NewDecl(in) /\ prefixEpoch' = NewPrefix(in)
      /\ version' = Linked(in).ver /\ defEpoch' = Stamp(defEpoch, Defs(in))
      /\ chunks' = IF in.kind = "decls" THEN Append(chunks, [epoch |-> cur, decls |-> in.decls]) ELSE chunks
      /\ globals' = {g \in globals : g.name \notin {n.name : n \in NewGlobals(in)}} \cup NewGlobals(in)
  BY <1>1, <1>2 DEF CommitInput
<1>4. globals' = CurrentGlobals(in)
  BY <1>1, <1>3, GlobalsOf
<1>5. Defs(in) \subseteq Symbols /\ Defs(in) \subseteq Emitted(in)
  BY <1>1, EmittedOf DEF Defs, Defined
<1>6. version' = [s \in Symbols |-> IF s \in Defs(in) THEN version[s] + 1 ELSE version[s]]
  BY <1>2, <1>3
<1>7. \A s \in Symbols : version[s] \in Nat /\ defEpoch[s] \in 0 .. epoch
  BY DEF TypeOK
<1>8. cur \in 0 .. cur /\ 0 .. epoch \subseteq 0 .. cur /\ DOMAIN defEpoch = Symbols
      /\ DOMAIN prefixEpoch = Types \cup SessionNames \cup {All}
  BY DEF TypeOK, cur
<1>9. version' \in [Symbols -> Nat]
      /\ \A s \in Symbols : version'[s] = IF s \in Defs(in) THEN version[s] + 1 ELSE version[s]
  BY <1>6, <1>7
<1>10. defEpoch' = [s \in Symbols |-> IF s \in Defs(in) THEN cur ELSE defEpoch[s]]
  BY <1>3, <1>8 DEF Stamp
<1>11. prefixEpoch' = [p \in Types \cup SessionNames \cup {All} |-> IF p \in StalePrefixes(in) THEN cur ELSE prefixEpoch[p]]
  BY <1>3, <1>8 DEF Stamp, NewPrefix
<1>12. \A p \in Types \cup SessionNames \cup {All} : prefixEpoch[p] \in 0 .. cur
  BY <1>8 DEF TypeOK
<1>13. prefixEpoch' \in [Types \cup SessionNames \cup {All} -> 0 .. epoch']
  BY <1>3, <1>8, <1>11, <1>12
<1>14. defEpoch' \in [Symbols -> 0 .. epoch']
  BY <1>3, <1>7, <1>8, <1>10
<1>15. declEpoch' \in [Types \cup SessionNames -> 0 .. epoch']
  BY <1>1, <1>3, NewDeclOf
<1> QED
  BY <1>2, <1>3, <1>4, <1>5, <1>9, <1>10, <1>11, <1>13, <1>14, <1>15

(* The JIT after the step: it keeps the versions it had, and every symbol   *)
(* that the module defines has one more, of the program as it is now.       *)
LEMMA JitOf ==
  ASSUME Discipline, TypeOK, Declarations, Session, NEW in \in Inputs, Took(in)
  PROVE  /\ jit' \in [Symbols -> Seq(Code)]
         /\ \A s \in Symbols : Len(jit'[s]) = version'[s]
         /\ \A s \in Symbols : \A v \in DOMAIN jit[s] :
              /\ v \in DOMAIN jit'[s] /\ Same(jit'[s][v], jit[s][v]) /\ jit'[s][v].val \in {jit[s][v].val, cur}
         /\ \A s \in Symbols \ Defs(in) : \A v \in DOMAIN jit'[s] : v \in DOMAIN jit[s]
         /\ \A s \in Defs(in) :
              /\ version'[s] \in DOMAIN jit'[s] /\ Same(jit'[s][version'[s]], Compiled(in, s, version'))
              /\ \A v \in DOMAIN jit'[s] : v \in DOMAIN jit[s] \/ v = version'[s]
<1> DEFINE J == Linked(in).jit
           C(s) == Compiled(in, s, version')
<1>1. GoodInput(in) /\ Accepted(in) /\ jit' \in {J} \cup (IF in.kind = "stmts" THEN {Ran(in, Linked(in))} ELSE {})
  BY GoodInputs DEF Took
<1>2. J = [s \in Symbols |-> IF s \in Defs(in) THEN Append(jit[s], C(s)) ELSE jit[s]]
  BY CommitOf
<1>3. \A s \in Defs(in) : C(s) \in Code
  BY <1>1, CommitOf, CompiledOf
<1>4. \A s \in Symbols : /\ jit[s] \in Seq(Code) /\ Len(jit[s]) = version[s] /\ version[s] \in Nat
                         /\ version'[s] = IF s \in Defs(in) THEN version[s] + 1 ELSE version[s]
  BY CommitOf DEF TypeOK
<1> HIDE DEF J, C
<1>5. ASSUME NEW s \in Symbols
      PROVE  /\ J[s] \in Seq(Code) /\ Len(J[s]) = version'[s]
             /\ \A v \in DOMAIN jit[s] : v \in DOMAIN J[s] /\ J[s][v] = jit[s][v]
             /\ s \notin Defs(in) => J[s] = jit[s]
             /\ s \in Defs(in) => /\ version'[s] \in DOMAIN J[s] /\ J[s][version'[s]] = C(s)
                                  /\ \A v \in DOMAIN J[s] : v \in DOMAIN jit[s] \/ v = version'[s]
  <2>1. CASE s \in Defs(in)
    <3>1. J[s] = Append(jit[s], C(s))
      BY <1>2, <2>1
    <3> QED
      BY <1>3, <1>4, <2>1, <3>1
  <2>2. CASE s \notin Defs(in)
    BY <1>2, <1>4, <2>2
  <2> QED
    BY <2>1, <2>2
<1>6. cur \in Nat
  BY DEF TypeOK, cur
<1>7. ASSUME NEW s \in Symbols
      PROVE  /\ jit'[s] \in Seq(Code) /\ DOMAIN jit'[s] = DOMAIN J[s] /\ Len(jit'[s]) = Len(J[s])
             /\ \A v \in DOMAIN J[s] : Same(jit'[s][v], J[s][v]) /\ jit'[s][v].val \in {J[s][v].val, cur}
  <2>1. CASE jit' = J
    BY <1>5, <2>1 DEF Same
  <2>2. CASE jit' = Ran(in, Linked(in))
    <3>1. \E written : jit'[s] = [v \in DOMAIN J[s] |-> IF <<s, v>> \in written THEN [J[s][v] EXCEPT !.val = cur]
                                                         ELSE J[s][v]]
      BY <2>2 DEF Ran, J
    <3>2. PICK written : jit'[s] = [v \in DOMAIN J[s] |-> IF <<s, v>> \in written THEN [J[s][v] EXCEPT !.val = cur]
                                                           ELSE J[s][v]]
      BY <3>1
    <3>3. DOMAIN J[s] = 1 .. Len(J[s]) /\ Len(J[s]) \in Nat /\ DOMAIN jit'[s] = DOMAIN J[s]
      BY <1>5, <3>2
    <3>4. ASSUME NEW v \in DOMAIN J[s]
          PROVE  jit'[s][v] \in Code /\ Same(jit'[s][v], J[s][v]) /\ jit'[s][v].val \in {J[s][v].val, cur}
      <4>1. J[s][v] \in Code
        BY <1>5
      <4>2. jit'[s][v] = IF <<s, v>> \in written THEN [J[s][v] EXCEPT !.val = cur] ELSE J[s][v]
        BY <3>2
      <4>3. CASE jit'[s][v] = J[s][v]
        BY <4>1, <4>3 DEF Same
      <4>4. CASE jit'[s][v] = [J[s][v] EXCEPT !.val = cur]
        BY <1>6, <4>1, <4>4 DEF Same, Code
      <4> QED
        BY <4>2, <4>3, <4>4
    <3>5. jit'[s] \in [1 .. Len(J[s]) -> Code]
      BY <3>2, <3>3, <3>4
    <3>6. jit'[s] \in Seq(Code) /\ Len(jit'[s]) = Len(J[s])
      BY <3>3, <3>5
    <3> QED
      BY <3>3, <3>4, <3>6
  <2> QED
    BY <1>1, <2>1, <2>2
<1>8. jit' \in [Symbols -> Seq(Code)]
  <2>1. jit' = [s \in Symbols |-> jit'[s]]
    <3>1. CASE jit' = J
      BY <1>2, <3>1
    <3>2. CASE jit' = Ran(in, Linked(in))
      BY <3>2 DEF Ran
    <3> QED
      BY <1>1, <3>1, <3>2
  <2> QED
    BY <1>7, <2>1
<1>9. Defs(in) \subseteq Symbols
  BY CommitOf
<1>10. ASSUME NEW s \in Symbols, NEW v \in DOMAIN jit[s]
       PROVE  v \in DOMAIN jit'[s] /\ Same(jit'[s][v], jit[s][v]) /\ jit'[s][v].val \in {jit[s][v].val, cur}
  BY <1>5, <1>7
<1>11. ASSUME NEW s \in Defs(in)
       PROVE  /\ version'[s] \in DOMAIN jit'[s] /\ Same(jit'[s][version'[s]], C(s))
              /\ \A v \in DOMAIN jit'[s] : v \in DOMAIN jit[s] \/ v = version'[s]
  BY <1>5, <1>7, <1>9
<1> QED
  BY <1>5, <1>7, <1>8, <1>10, <1>11 DEF C

-----------------------------------------------------------------------------
(* An input keeps the invariant.                                            *)

LEMMA TypeStep ==
  ASSUME Discipline, TypeOK, Declarations, Session, NEW in \in Inputs, Took(in)
  PROVE  TypeOK'
<1>0. cur \in Nat
  BY DEF TypeOK, cur
<1>1. GoodInput(in) /\ epoch' = cur /\ cur \in Nat
  BY <1>0, GoodInputs, CommitOf
<1>2. chunks' \in Seq(Chunks)
  <2>1. CASE in.kind = "decls"
    <3>1. [epoch |-> cur, decls |-> in.decls] \in Chunks
      BY <1>1, <2>1 DEF Chunks, DeclInputs
    <3>2. chunks' = Append(chunks, [epoch |-> cur, decls |-> in.decls])
      BY <2>1, CommitOf
    <3> QED
      BY <3>1, <3>2 DEF TypeOK
  <2>2. CASE in.kind # "decls"
    <3>1. chunks' = chunks
      BY <2>2, CommitOf
    <3> QED
      BY <3>1 DEF TypeOK
  <2> QED
    BY <2>1, <2>2
<1>3. globals' \subseteq [name : Variables, type : Types \cup {Plain}, epoch : 1 .. epoch']
  <2>1. globals' = CurrentGlobals(in)
    BY CommitOf
  <2>2. ASSUME NEW g \in CurrentGlobals(in) PROVE g \in [name : Variables, type : Types \cup {Plain}, epoch : 1 .. epoch']
    <3>1. g.name \in Variables /\ g.type \in Types \cup {Plain} /\ g.epoch \in 1 .. epoch'
      BY <1>1, GlobalsOf
    <3>2. g = [name |-> g.name, type |-> g.type, epoch |-> g.epoch]
      <4>1. CASE g \in globals
        BY <4>1 DEF TypeOK
      <4>2. CASE g \in NewGlobals(in)
        <5>1. \E l \in in.lets : g = [name |-> l.name, type |-> l.type, epoch |-> cur]
          BY <4>2 DEF NewGlobals
        <5> QED
          BY <5>1
      <4> QED
        BY <4>1, <4>2 DEF CurrentGlobals, GlobalItems
    <3> QED
      BY <3>1, <3>2
  <2> QED
    BY <2>1, <2>2
<1>4. \A s \in Symbols : Len(jit'[s]) = version'[s]
  BY JitOf
<1> QED
  BY <1>1, <1>2, <1>3, <1>4, CommitOf, JitOf DEF TypeOK

(* An accepted input is remembered under the stamp of its names.            *)
LEMMA DeclarationsStep ==
  ASSUME Discipline, TypeOK, Declarations, Session, NEW in \in Inputs, Took(in)
  PROVE  Declarations'
<1> DEFINE new == [epoch |-> cur, decls |-> in.decls]
<1>0. cur \in Nat /\ cur = epoch + 1 /\ epoch \in Nat
  BY DEF TypeOK, cur
<1>1. GoodInput(in) /\ epoch' = cur /\ cur \in Nat /\ cur = epoch + 1 /\ epoch \in Nat
  BY <1>0, GoodInputs, CommitOf
<1>2. chunks' = IF in.kind = "decls" THEN Append(chunks, new) ELSE chunks
  BY CommitOf
<1>3. chunks \in Seq(Chunks)
  BY DEF TypeOK
<1>4. declEpoch' = NewDecl(in)
  BY CommitOf
<1>5. \A n \in Types \cup SessionNames :
        /\ declEpoch[n] \in 0 .. epoch
        /\ declEpoch'[n] = IF n \in Redeclared(in) THEN cur ELSE declEpoch[n]
  BY <1>1, <1>4, NewDeclOf DEF TypeOK
<1>6. \A i \in DOMAIN chunks : i \in DOMAIN chunks' /\ chunks'[i] = chunks[i]
  BY <1>2, <1>3
<1>7. \A i \in DOMAIN chunks' : i \in DOMAIN chunks \/ (in.kind = "decls" /\ i = Len(chunks) + 1 /\ chunks'[i] = new)
  BY <1>2, <1>3
<1> HIDE DEF new
<1>8. ASSUME NEW i \in DOMAIN chunks
      PROVE  chunks[i].epoch \in 1 .. epoch /\ \A d \in chunks[i].decls : chunks[i].epoch <= declEpoch'[d.name]
  <2>1. chunks[i].epoch \in 1 .. epoch
    BY DEF Declarations
  <2>2. ASSUME NEW d \in chunks[i].decls PROVE chunks[i].epoch <= declEpoch'[d.name]
    <3>1. d.name \in Others
      <4>0. chunks[i] \in Chunks
        BY <1>3
      <4>1. chunks[i].decls \in {j.decls : j \in DeclInputs}
        BY <4>0 DEF Chunks
      <4>2. PICK j \in DeclInputs : chunks[i].decls = j.decls
        BY <4>1
      <4> QED
        BY <4>2, GoodInputs DEF DeclInputs, GoodInput
    <3>2. d.name \in Types \cup SessionNames /\ chunks[i].epoch <= declEpoch[d.name]
      BY <3>1 DEF Declarations, Others
    <3> QED
      BY <1>1, <1>5, <2>1, <3>2
  <2> QED
    BY <2>1, <2>2
<1>9. ASSUME in.kind = "decls"
      PROVE  new.epoch = cur /\ \A d \in new.decls : d \in InputDecls(in) /\ declEpoch'[d.name] = cur
  <2>1. new.epoch = cur /\ new.decls = InputDecls(in)
    BY <1>9 DEF new, InputDecls
  <2>2. \A d \in InputDecls(in) : d.name \in Others /\ d.name \in Types \cup SessionNames
    BY <1>1, <1>9 DEF GoodInput, InputDecls, Others
  <2> QED
    BY <1>1, <1>5, <2>1, <2>2, NewDeclOf
<1>10. ASSUME NEW i \in DOMAIN chunks'
       PROVE  chunks'[i].epoch \in 1 .. epoch' /\ \A d \in chunks'[i].decls : chunks'[i].epoch <= declEpoch'[d.name]
  <2>1. CASE i \in DOMAIN chunks
    BY <1>1, <1>6, <1>8, <2>1
  <2>2. CASE in.kind = "decls" /\ chunks'[i] = new
    BY <1>1, <1>9, <2>2
  <2> QED
    BY <1>7, <2>1, <2>2
<1>11. ASSUME NEW i \in DOMAIN chunks', NEW j \in DOMAIN chunks', chunks'[i].epoch = chunks'[j].epoch PROVE i = j
  <2>1. CASE i \in DOMAIN chunks /\ j \in DOMAIN chunks
    BY <1>6, <1>11, <2>1 DEF Declarations
  <2>2. CASE i \notin DOMAIN chunks /\ j \notin DOMAIN chunks
    BY <1>7, <2>2
  <2>3. CASE i \in DOMAIN chunks /\ j \notin DOMAIN chunks
    BY <1>1, <1>6, <1>7, <1>8, <1>9, <1>11, <2>3
  <2>4. CASE i \notin DOMAIN chunks /\ j \in DOMAIN chunks
    BY <1>1, <1>6, <1>7, <1>8, <1>9, <1>11, <2>4
  <2> QED
    BY <2>1, <2>2, <2>3, <2>4
<1>12. ASSUME NEW n \in Others, declEpoch'[n] # 0
       PROVE  \E i \in DOMAIN chunks' : chunks'[i].epoch = declEpoch'[n] /\ \E d \in chunks'[i].decls : d.name = n
  <2>1. n \in Types \cup SessionNames
    BY DEF Others
  <2>2. CASE n \in Redeclared(in)
    <3>1. PICK d \in InputDecls(in) : d.name = n
      BY <1>1, <2>2, NewDeclOf
    <3>2. in.kind = "decls" /\ d \in new.decls /\ new.epoch = cur
      BY DEF InputDecls, new
    <3>3. Len(chunks) + 1 \in DOMAIN chunks' /\ chunks'[Len(chunks) + 1] = new
      BY <1>2, <1>3, <3>2
    <3> QED
      BY <1>5, <2>1, <2>2, <3>1, <3>2, <3>3
  <2>3. CASE n \notin Redeclared(in)
    <3>1. declEpoch'[n] = declEpoch[n]
      BY <1>5, <2>1, <2>3
    <3>2. PICK i \in DOMAIN chunks : chunks[i].epoch = declEpoch[n] /\ \E d \in chunks[i].decls : d.name = n
      BY <1>12, <3>1 DEF Declarations
    <3> QED
      BY <1>6, <3>1, <3>2
  <2> QED
    BY <2>2, <2>3
<1> QED
  BY <1>10, <1>11, <1>12 DEF Declarations

(* The session keeps one variable per name, of a type that is there.        *)
LEMMA SessionStep ==
  ASSUME Discipline, TypeOK, Declarations, Session, NEW in \in Inputs, Took(in)
  PROVE  Session'
<1>1. GoodInput(in) /\ Accepted(in) /\ globals' = CurrentGlobals(in) /\ declEpoch' = NewDecl(in)
  BY GoodInputs, CommitOf DEF Took
<1>2. ASSUME NEW g \in CurrentGlobals(in)
      PROVE  /\ \E l \in Lets : l.name = g.name /\ l.type = g.type
             /\ g.type = Plain \/ \A u \in {g.type} \cup Holds[g.type] : NewDecl(in)[u] # 0
  BY <1>1, GlobalsOf, AcceptedOf
<1>3. \A g, h \in CurrentGlobals(in) : g.name = h.name => g = h
  BY <1>1, GlobalsOf
<1>4. ASSUME NEW s \in Variables, version'[s] > 0 PROVE \E g \in CurrentGlobals(in) : g.name = s
  <2>1. s \in Symbols
    BY GoodInputs
  <2>2. CASE s \in Defs(in)
    BY <1>1, <2>2, CommitOf, EmittedOf
  <2>3. CASE s \notin Defs(in)
    <3>1. version[s] > 0
      BY <1>4, <2>1, <2>3, CommitOf
    <3>2. PICK g \in globals : g.name = s
      BY <3>1 DEF Session
    <3> QED
      BY <1>1, <3>2, GlobalsOf
  <2> QED
    BY <2>2, <2>3
<1> QED
  BY <1>1, <1>2, <1>3, <1>4 DEF Session

(* What a later input finds is the program without an input of its own.     *)
NothingView ==
  /\ CurrentGlobals(Nothing) = globals
  /\ \A n \in Others : latest(Nothing, n) = declEpoch[n]
  /\ \A x \in Items(Nothing) : x.decl.name \in Others
  /\ \A x : x \in Items(Nothing) <=>
       \E i \in DOMAIN chunks : \E d \in chunks[i].decls : x = [epoch |-> chunks[i].epoch, decl |-> d]

LEMMA NothingIs == Discipline /\ TypeOK /\ Declarations /\ Session => NothingView
<1> SUFFICES ASSUME Discipline, TypeOK, Declarations, Session PROVE NothingView
  OBVIOUS
<1>1. GoodInput(Nothing)
  BY GoodInputs
<1>2. NewGlobals(Nothing) = {} /\ InputDecls(Nothing) = {}
  BY DEF NewGlobals, InputDecls, Nothing
<1>3. CurrentGlobals(Nothing) = globals
  <2>1. CurrentGlobals(Nothing) = {g \in globals : g.name \notin {n.name : n \in NewGlobals(Nothing)}} \cup NewGlobals(Nothing)
    BY <1>1, GlobalsOf
  <2> QED
    BY <1>2, <2>1
<1>4. \A n \in Others : latest(Nothing, n) = declEpoch[n]
  <2>1. \A n \in Others : n \in Types \cup SessionNames /\ n \notin Redeclared(Nothing)
    BY <1>1, <1>2, NewDeclOf DEF Others
  <2> QED
    BY <1>1, <2>1, LatestOf, NewDeclOf
<1>5. ASSUME NEW x
      PROVE  x \in Items(Nothing) <=>
               \E i \in DOMAIN chunks : \E d \in chunks[i].decls : x = [epoch |-> chunks[i].epoch, decl |-> d]
  <2> DEFINE Of(i) == {[epoch |-> chunks[i].epoch, decl |-> d] : d \in chunks[i].decls}
  <2>1. Items(Nothing) = UNION {Of(i) : i \in DOMAIN chunks}
    BY <1>2 DEF Items
  <2>2. \A i \in DOMAIN chunks : x \in Of(i) <=> \E d \in chunks[i].decls : x = [epoch |-> chunks[i].epoch, decl |-> d]
    OBVIOUS
  <2> HIDE DEF Of
  <2>3. x \in Items(Nothing) <=> \E i \in DOMAIN chunks : x \in Of(i)
    BY <2>1
  <2> QED
    BY <2>2, <2>3
<1>6. \A x \in Items(Nothing) : x.decl.name \in Others
  BY <1>1, ItemsOf
<1> QED
  BY <1>3, <1>4, <1>5, <1>6 DEF NothingView

(* The same after an input, since what it needs of the session is kept.     *)
LEMMA NextView ==
  ASSUME Discipline, TypeOK, Declarations, Session, NEW in \in Inputs, Took(in)
  PROVE  NothingView'
<1>1. TypeOK' /\ Declarations' /\ Session'
  BY TypeStep, DeclarationsStep, SessionStep
<1>2. (Discipline /\ TypeOK /\ Declarations /\ Session => NothingView)'
  BY NothingIs, PTL
<1>3. Discipline'
  BY DEF Discipline, Shape, KindsApart, HeldTogether, Declarable, Lets, Methods
<1> QED
  BY <1>1, <1>2, <1>3

(* The module without an input has no symbol that the input's lacks.        *)
LEMMA EmittedShrinks ==
  ASSUME Discipline, TypeOK, Declarations, Session, NEW in \in Inputs, Took(in)
  PROVE  Emitted(Nothing)' \subseteq Emitted(in)
<1>1. GoodInput(in) /\ NothingView' /\ declEpoch' = NewDecl(in) /\ globals' = CurrentGlobals(in)
  BY GoodInputs, NextView, CommitOf
<1>2. Items(Nothing)' \subseteq Items(in)
  <2>1. ASSUME NEW x \in Items(Nothing)' PROVE x \in Items(in)
    <3>1. PICK i \in DOMAIN chunks' : \E d \in chunks'[i].decls : x = [epoch |-> chunks'[i].epoch, decl |-> d]
      BY <1>1, <2>1 DEF NothingView
    <3>2. PICK d \in chunks'[i].decls : x = [epoch |-> chunks'[i].epoch, decl |-> d]
      BY <3>1
    <3>3. CASE i \in DOMAIN chunks /\ chunks'[i] = chunks[i]
      <4> DEFINE Of(j) == {[epoch |-> chunks[j].epoch, decl |-> e] : e \in chunks[j].decls}
      <4>1. x \in Of(i)
        BY <3>2, <3>3
      <4>2. UNION {Of(j) : j \in DOMAIN chunks} \subseteq Items(in)
        BY DEF Items
      <4> HIDE DEF Of
      <4> QED
        BY <3>3, <4>1, <4>2
    <3>4. CASE in.kind = "decls" /\ chunks'[i] = [epoch |-> cur, decls |-> in.decls]
      <4>1. d \in InputDecls(in) /\ x = [epoch |-> cur, decl |-> d]
        BY <3>2, <3>4 DEF InputDecls
      <4>2. x \in {[epoch |-> cur, decl |-> e] : e \in InputDecls(in)}
        BY <4>1
      <4> QED
        BY <4>2, Zenon DEF Items
    <3>5. chunks' = IF in.kind = "decls" THEN Append(chunks, [epoch |-> cur, decls |-> in.decls]) ELSE chunks
      BY CommitOf
    <3>6. chunks \in Seq(Chunks)
      BY DEF TypeOK
    <3> QED
      BY <3>3, <3>4, <3>5, <3>6
  <2> QED
    BY <2>1
<1>3. Decls(Nothing)' \subseteq Decls(in)
  <2>1. ASSUME NEW x \in Decls(Nothing)' PROVE x \in Decls(in)
    <3>1. x \in Items(Nothing)' /\ x.epoch = latest(Nothing, x.decl.name)'
      BY DEF Decls
    <3>2. x.decl.name \in Others /\ latest(Nothing, x.decl.name)' = declEpoch'[x.decl.name]
      BY <1>1, <3>1 DEF NothingView
    <3>3. latest(in, x.decl.name) = NewDecl(in)[x.decl.name]
      BY <1>1, <3>2, LatestOf
    <3> QED
      BY <1>1, <1>2, <3>1, <3>2, <3>3 DEF Decls
  <2> QED
    BY <2>1
<1>4. Funs(Nothing)' \subseteq Funs(in)
  BY <1>3 DEF Funs
<1>5. Used(Nothing)' \subseteq Used(in)
  <2> DEFINE Roots == UNION {it.decl.calls : it \in {i \in Funs(in) : i.decl.is = "fun"}}
             LaterRoots == UNION {it.decl.calls : it \in {i \in Funs(Nothing)' : i.decl.is = "fun"}}
             Through(F, S) == \A it \in F : it.decl.name \in S => it.decl.calls \subseteq S
  <2>1. LaterRoots \subseteq Roots
    BY <1>4
  <2>2. \A S : Through(Funs(in), S) => Through(Funs(Nothing)', S)
    BY <1>4
  <2>3. \A n \in SessionNames : n \in Used(in)
          <=> \A S \in SUBSET SessionNames : (Roots \cup (IF in.kind = "stmts" THEN in.calls ELSE {})) \subseteq S
                                         /\ Through(Funs(in), S) => n \in S
    BY DEF Used
  <2>4. \A n \in Used(Nothing)' : n \in SessionNames
          /\ \A S \in SUBSET SessionNames : LaterRoots \subseteq S /\ Through(Funs(Nothing)', S) => n \in S
    BY DEF Used, Nothing
  <2> HIDE DEF Roots, LaterRoots, Through
  <2> QED
    BY <2>1, <2>2, <2>3, <2>4
<1>6. CurrentGlobals(Nothing)' = CurrentGlobals(in)
  BY <1>1 DEF NothingView
<1>7. ASSUME NEW s \in Emitted(Nothing)' PROVE s \in Emitted(in)
  <2>1. \/ \E g \in CurrentGlobals(Nothing)' : s = g.name
        \/ \E it \in Funs(Nothing)' : s = it.decl.name /\ (it.decl.is = "fun" \/ it.decl.name \in Used(Nothing)')
        \/ \E t \in Types : s = Method[t] /\ \E it \in Decls(Nothing)' : t = it.decl.name
    BY DEF Emitted
  <2>2. \/ \E g \in CurrentGlobals(in) : s = g.name
        \/ \E it \in Funs(in) : s = it.decl.name /\ (it.decl.is = "fun" \/ it.decl.name \in Used(in))
        \/ \E t \in Types : s = Method[t] /\ \E it \in Decls(in) : t = it.decl.name
    BY <1>3, <1>4, <1>5, <1>6, <2>1
  <2> QED
    BY <2>2 DEF Emitted
<1> QED
  BY <1>7

(* A symbol that is not stale after the input was not stale before it,      *)
(* unless the input defines it.                                             *)
LEMMA UnstaleBefore ==
  ASSUME Discipline, TypeOK, Declarations, Session, NEW in \in Inputs, Took(in),
         NEW s \in Symbols, ~Stale(s)'
  PROVE  /\ s \in Types \cup SessionNames => declEpoch'[s] <= defEpoch'[s]
         /\ s \notin Variables => prefixEpoch'[All] <= defEpoch'[s]
         /\ s \notin Defs(in) => ~Stale(s) /\ defEpoch'[s] = defEpoch[s] /\ defEpoch'[s] < cur
<1>1. /\ DOMAIN declEpoch' = Types \cup SessionNames /\ DOMAIN declEpoch = Types \cup SessionNames
      /\ \A n \in Types \cup SessionNames : declEpoch'[n] \in Nat /\ declEpoch[n] \in Nat /\ declEpoch[n] <= declEpoch'[n]
  <2>1. declEpoch' = NewDecl(in) /\ GoodInput(in) /\ epoch' = cur
    BY CommitOf, GoodInputs
  <2>2. cur = epoch + 1 /\ epoch \in Nat
    BY DEF cur, TypeOK
  <2>3. declEpoch' \in [Types \cup SessionNames -> 0 .. cur] /\ declEpoch \in [Types \cup SessionNames -> 0 .. epoch]
    BY <2>1, NewDeclOf DEF TypeOK
  <2>4. \A n \in Types \cup SessionNames : declEpoch'[n] \in {cur, declEpoch[n]}
    BY <2>1, NewDeclOf
  <2> QED
    BY <2>2, <2>3, <2>4
<1>2. \A p \in Types \cup SessionNames \cup {All} : prefixEpoch'[p] \in Nat /\ prefixEpoch[p] \in Nat /\ prefixEpoch[p] <= prefixEpoch'[p]
  <2>1. cur = epoch + 1 /\ epoch \in Nat
    BY DEF cur, TypeOK
  <2>2. \A p \in Types \cup SessionNames \cup {All} : prefixEpoch'[p] \in {cur, prefixEpoch[p]} /\ prefixEpoch[p] \in 0 .. epoch
    BY CommitOf DEF TypeOK
  <2> QED
    BY <2>1, <2>2
<1>3. defEpoch'[s] \in Nat /\ defEpoch[s] \in 0 .. epoch /\ (s \notin Defs(in) => defEpoch'[s] = defEpoch[s])
  <2>1. cur \in Nat /\ defEpoch[s] \in 0 .. epoch /\ epoch \in Nat
    BY DEF cur, TypeOK
  <2>2. defEpoch'[s] = IF s \in Defs(in) THEN cur ELSE defEpoch[s]
    BY CommitOf
  <2> QED
    BY <2>1, <2>2
<1>4. /\ ~(s \in DOMAIN declEpoch' /\ declEpoch'[s] > defEpoch'[s])
      /\ ~(s \notin Variables /\ prefixEpoch'[All] > defEpoch'[s])
      /\ \A p \in DOMAIN Prefixed : ~(s \in Prefixed[p] /\ prefixEpoch'[p] > defEpoch'[s])
  BY DEF Stale, isStale
<1>5. DOMAIN Prefixed = Types \cup SessionNames
  BY DEF Discipline, Shape
<1>6. s \in Types \cup SessionNames => declEpoch'[s] <= defEpoch'[s]
  BY <1>1, <1>3, <1>4
<1>7. s \notin Variables => prefixEpoch'[All] <= defEpoch'[s]
  BY <1>2, <1>3, <1>4
<1>8. ASSUME s \notin Defs(in) PROVE ~Stale(s)
  <2>1. ~(s \in DOMAIN declEpoch /\ declEpoch[s] > defEpoch[s])
    BY <1>1, <1>3, <1>6, <1>8
  <2>2. ~(s \notin Variables /\ prefixEpoch[All] > defEpoch[s])
    BY <1>2, <1>3, <1>7, <1>8
  <2>3. \A p \in DOMAIN Prefixed : ~(s \in Prefixed[p] /\ prefixEpoch[p] > defEpoch[s])
    BY <1>2, <1>3, <1>4, <1>5, <1>8
  <2> QED
    BY <2>1, <2>2, <2>3 DEF Stale, isStale
<1>9. s \notin Defs(in) => defEpoch'[s] < cur
  BY <1>3 DEF cur, TypeOK
<1> QED
  BY <1>3, <1>6, <1>7, <1>8, <1>9

(* A symbol that the input defines, or that was not stale, is not.          *)
LEMMA UnstaleAfter ==
  ASSUME Discipline, TypeOK, Declarations, Session, NEW in \in Inputs, Took(in), NEW s \in Emitted(in)
  PROVE  version'[s] > 0 /\ ~Stale(s)'
<1>1. /\ GoodInput(in) /\ declEpoch' = NewDecl(in) /\ prefixEpoch' = NewPrefix(in) /\ epoch' = cur
      /\ s \in Symbols /\ (isFunction(in, s) <=> s \notin Variables)
      /\ version'[s] = (IF s \in Defs(in) THEN version[s] + 1 ELSE version[s])
      /\ defEpoch'[s] = (IF s \in Defs(in) THEN cur ELSE defEpoch[s])
  BY GoodInputs, CommitOf, EmittedOf
<1>2. version[s] \in Nat /\ cur \in Nat
  BY <1>1 DEF TypeOK, cur
<1>3. CASE s \in Defs(in)
  <2>1. /\ \A n \in DOMAIN declEpoch' : declEpoch'[n] \in 0 .. cur
        /\ \A p \in Types \cup SessionNames \cup {All} : prefixEpoch'[p] \in 0 .. cur
    BY <1>1, CommitOf
  <2>2. DOMAIN Prefixed = Types \cup SessionNames
    BY DEF Discipline, Shape
  <2>3. ~Stale(s)'
    BY <1>1, <1>2, <1>3, <2>1, <2>2 DEF Stale, isStale
  <2> QED
    BY <1>1, <1>2, <1>3, <2>3
<1>4. CASE s \notin Defs(in)
  <2>1. version[s] # 0 /\ ~isStale(s, isFunction(in, s), NewDecl(in), NewPrefix(in))
    BY <1>4 DEF Defs, Defined
  <2>2. ~Stale(s)'
    BY <1>1, <1>4, <2>1 DEF Stale, isStale
  <2> QED
    BY <1>1, <1>2, <1>4, <2>1, <2>2
<1> QED
  BY <1>3, <1>4

(* The layout of a type after the input is the one the program gave it.     *)
LEMMA ShapedAfter ==
  ASSUME Discipline, TypeOK, Declarations, NEW in \in Inputs, declEpoch' = NewDecl(in), NEW t \in Types \cup {Plain}
  PROVE  Shaped(t)' = Layout(in, t)
<1>1. GoodInput(in)
  BY GoodInputs
<1>2. Layout(in, t) = IF t = Plain THEN {} ELSE {<<u, NewDecl(in)[u]>> : u \in {t} \cup Holds[t]}
  BY <1>1, LayoutOf
<1> QED
  BY <1>2 DEF Shaped

(* A symbol the input defines is compiled from the program as it is.        *)
LEMMA RightWhenDefined ==
  ASSUME Discipline, TypeOK, Declarations, Session, NEW in \in Inputs, Took(in), NEW s \in Defs(in)
  PROVE  Right(s)'
<1> DEFINE c == Compiled(in, s, version')
           now == jit'[s][version'[s]]
<1>1. /\ GoodInput(in) /\ Accepted(in) /\ s \in Emitted(in) /\ declEpoch' = NewDecl(in) /\ globals' = CurrentGlobals(in)
      /\ version' \in [Symbols -> Nat]
  BY GoodInputs, CommitOf DEF Took
<1>2. Same(now, c)
  BY JitOf
<1>3. /\ c.fun = (s \notin Variables)
      /\ s \in Variables => \A g \in CurrentGlobals(in) : g.name = s => c.layout = Layout(in, g.type)
      /\ s \notin Variables => /\ c.layout = {} /\ (s \in SessionNames => c.decl = NewDecl(in)[s])
                               /\ \A t \in c.seen : t[2] = NewDecl(in)[t[1]] /\ t[2] # 0
  BY <1>1, CompiledOf
<1>4. \A g \in CurrentGlobals(in) : Layout(in, g.type) = Shaped(g.type)'
  BY <1>1, GlobalsOf, ShapedAfter
<1> HIDE DEF c
<1>5. Now(s)' = now
  BY DEF Now
<1> HIDE DEF now
<1>6. CASE s \in Variables
  <2>1. ~now.fun /\ \A g \in globals' : g.name = s => now.layout = Shaped(g.type)'
    BY <1>1, <1>2, <1>3, <1>4, <1>6 DEF Same
  <2> QED
    BY <1>5, <1>6, <2>1 DEF Right
<1>7. CASE s \notin Variables
  <2>1. /\ now.fun /\ now.layout = {} /\ (s \in SessionNames => now.decl = declEpoch'[s])
        /\ \A t \in now.seen : t[2] = declEpoch'[t[1]] /\ t[2] # 0
    BY <1>1, <1>2, <1>3, <1>7 DEF Same
  <2> QED
    BY <1>5, <1>7, <2>1 DEF Right
<1> QED
  BY <1>6, <1>7

(* A variable that is not stale after the input has no part of its type     *)
(* redeclared: its type would have been redeclared too, and the variable    *)
(* reset. One that the input declares again was there, of the same type.    *)
LEMMA VariableKept ==
  ASSUME Discipline, TypeOK, Declarations, Session, NEW in \in Inputs, Took(in),
         NEW g \in CurrentGlobals(in), g.name \notin Redeclared(in)
  PROVE  /\ \E h \in globals : h.name = g.name /\ h.type = g.type
         /\ Shaped(g.type)' = Shaped(g.type)
<1>1. GoodInput(in) /\ declEpoch' = NewDecl(in)
  BY GoodInputs, CommitOf
<1>2. PICK h \in globals : h.name = g.name /\ h.type = g.type
  <2>1. CASE g \in globals
    BY <2>1
  <2>2. CASE g \in NewGlobals(in)
    <3>1. g \notin {n \in NewGlobals(in) : ~ \E old \in globals : old.name = n.name /\ old.type = n.type}
      BY DEF Redeclared
    <3> QED
      BY <2>2, <3>1
  <2> QED
    BY <2>1, <2>2 DEF CurrentGlobals, GlobalItems
<1>3. g.type = Plain \/ \A u \in {g.type} \cup Holds[g.type] : declEpoch[u] # 0
  BY <1>2 DEF Session
<1>4. PICK l \in Lets : l.name = g.name /\ l.type = g.type
  BY <1>1, GlobalsOf
<1>5. g.type \in Types \cup {Plain} /\ (g.type # Plain => {g.type} \cup Holds[g.type] \subseteq Types)
  BY <1>1, GlobalsOf DEF Discipline, Shape
<1>6. Types \subseteq Others
  BY GoodInputs DEF Others
<1>7. ASSUME g.type # Plain, NEW u \in {g.type} \cup Holds[g.type], u \in Redeclared(in) PROVE FALSE
  <2>1. PICK d \in InputDecls(in) : d.name = u
    BY <1>1, <1>5, <1>6, <1>7, NewDeclOf
  <2>2. in.kind = "decls" /\ d \in in.decls
    BY DEF InputDecls
  <2>3. PICK e \in InputDecls(in) : e.name = g.type
    <3>1. CASE u = g.type
      BY <2>1, <3>1
    <3>2. CASE u \in Holds[g.type]
      BY <1>1, <1>4, <1>7, <2>1, <2>2, <3>2 DEF GoodInput, InputDecls
    <3> QED
      BY <3>1, <3>2
  <2>4. declEpoch[e.name] # 0
    BY <1>3, <1>7, <2>3
  <2>5. g.name \in Reset(in)
    BY <2>3, <2>4 DEF Reset
  <2> QED
    BY <2>5 DEF Redeclared
<1>8. g.type # Plain => \A u \in {g.type} \cup Holds[g.type] : declEpoch'[u] = declEpoch[u]
  BY <1>1, <1>5, <1>7, NewDeclOf
<1>9. Shaped(g.type)' = Shaped(g.type)
  BY <1>8 DEF Shaped
<1> QED
  BY <1>2, <1>9

(* Code that the input leaves, and does not make stale, is still right.     *)
LEMMA RightWhenKept ==
  ASSUME Discipline, TypeOK, Declarations, Session, NEW in \in Inputs, Took(in),
         NEW s \in Symbols \ Defs(in), ~Stale(s)', Right(s), version[s] > 0
  PROVE  Right(s)'
<1> DEFINE now == jit'[s][version[s]]
           was == jit[s][version[s]]
<1>1. /\ GoodInput(in) /\ declEpoch' = NewDecl(in) /\ globals' = CurrentGlobals(in) /\ version'[s] = version[s]
  BY GoodInputs, CommitOf
<1>2. version[s] \in DOMAIN jit[s] /\ was \in Code
  BY DEF TypeOK
<1>3. Same(now, was)
  BY <1>2, JitOf
<1>4. /\ s \in Types \cup SessionNames => declEpoch'[s] < cur
      /\ s \notin Variables => prefixEpoch'[All] < cur
  <2>1. defEpoch'[s] < cur /\ defEpoch'[s] \in Nat /\ cur \in Nat
    BY UnstaleBefore, CommitOf DEF TypeOK, cur
  <2>2. /\ declEpoch' \in [Types \cup SessionNames -> 0 .. epoch']
        /\ prefixEpoch' \in [Types \cup SessionNames \cup {All} -> 0 .. epoch']
    BY CommitOf
  <2>3. (s \in Types \cup SessionNames => declEpoch'[s] \in Int) /\ prefixEpoch'[All] \in Int
    BY <2>2
  <2> QED
    BY <2>1, <2>3, UnstaleBefore
<1>5. cur \in Nat
  BY DEF TypeOK, cur
<1>6. s \in Types \cup SessionNames => s \notin Redeclared(in) /\ declEpoch'[s] = declEpoch[s]
  BY <1>1, <1>4, <1>5, NewDeclOf
<1>7. Now(s)' = now /\ Now(s) = was
  BY <1>1 DEF Now
<1> HIDE DEF now, was
<1>8. CASE s \in Variables
  <2>1. s \in SessionNames
    BY <1>8, GoodInputs
  <2>2. ASSUME NEW g \in CurrentGlobals(in), g.name = s PROVE was.layout = Shaped(g.type)'
    <3>1. g.name \notin Redeclared(in)
      BY <1>6, <2>1, <2>2
    <3>2. Shaped(g.type)' = Shaped(g.type) /\ \E h \in globals : h.name = s /\ h.type = g.type
      BY <2>2, <3>1, VariableKept
    <3> QED
      BY <1>7, <1>8, <3>2 DEF Right
  <2>3. ~was.fun
    BY <1>7, <1>8 DEF Right
  <2>4. ~now.fun /\ \A g \in globals' : g.name = s => now.layout = Shaped(g.type)'
    BY <1>1, <1>3, <2>2, <2>3 DEF Same
  <2> QED
    BY <1>7, <1>8, <2>4 DEF Right
<1>9. CASE s \notin Variables
  <2>1. /\ was.fun /\ was.layout = {} /\ (s \in SessionNames => was.decl = declEpoch[s])
        /\ \A t \in was.seen : t[2] = declEpoch[t[1]] /\ t[2] # 0
    BY <1>7, <1>9 DEF Right
  <2>2. ASSUME NEW t \in was.seen PROVE declEpoch'[t[1]] = declEpoch[t[1]]
    <3>1. t \in Types \X Nat
      BY <1>2 DEF Code, Layouts
    <3>2. t[1] \in Types /\ declEpoch[t[1]] # 0
      BY <2>1, <3>1
    <3>3. t[1] \notin Redeclared(in)
      <4>1. SUFFICES ASSUME t[1] \in Redeclared(in) PROVE FALSE
        OBVIOUS
      <4>2. t[1] \in Others
        BY <3>2, GoodInputs DEF Others
      <4>3. PICK d \in InputDecls(in) : d.name = t[1]
        BY <1>1, <4>1, <4>2, NewDeclOf
      <4>4. All \in StalePrefixes(in)
        BY <3>2, <4>3 DEF StalePrefixes, isType
      <4>5. prefixEpoch'[All] = cur
        BY <4>4, CommitOf
      <4> QED
        BY <1>4, <1>5, <1>9, <4>5
    <3> QED
      BY <1>1, <3>2, <3>3, NewDeclOf
  <2>3. /\ now.fun /\ now.layout = {} /\ (s \in SessionNames => now.decl = declEpoch'[s])
        /\ \A t \in now.seen : t[2] = declEpoch'[t[1]] /\ t[2] # 0
    BY <1>3, <1>6, <2>1, <2>2 DEF Same
  <2> QED
    BY <1>7, <1>9, <2>3 DEF Right
<1> QED
  BY <1>8, <1>9

(* What is not stale after an input was defined by it, or was right before. *)
LEMMA FreshStep ==
  ASSUME Discipline, TypeOK, Declarations, Session, Fresh, NEW in \in Inputs, Took(in)
  PROVE  Fresh'
<1>1. \A s \in Emitted(Nothing)' : version'[s] > 0 /\ ~Stale(s)'
  BY EmittedShrinks, UnstaleAfter
<1>2. ASSUME NEW s \in Symbols, version'[s] > 0, ~Stale(s)' PROVE Right(s)'
  <2>1. CASE s \in Defs(in)
    BY <2>1, RightWhenDefined
  <2>2. CASE s \notin Defs(in)
    <3>1. version[s] > 0 /\ ~Stale(s)
      BY <1>2, <2>2, CommitOf, UnstaleBefore
    <3>2. Right(s)
      BY <3>1 DEF Fresh
    <3> QED
      BY <1>2, <2>2, <3>1, <3>2, RightWhenKept
  <2> QED
    BY <2>1, <2>2
<1> QED
  BY <1>1, <1>2 DEF Fresh

(* New code refers to symbols that are right, old code to versions that are *)
(* still there.                                                             *)
LEMMA RefersStep ==
  ASSUME Discipline, TypeOK, Declarations, Session, Fresh, Refers, NEW in \in Inputs, Took(in)
  PROVE  Refers'
<1>1. /\ GoodInput(in) /\ Accepted(in) /\ declEpoch' = NewDecl(in) /\ globals' = CurrentGlobals(in)
      /\ version' \in [Symbols -> Nat] /\ Fresh' /\ Session' /\ TypeOK'
  BY GoodInputs, CommitOf, FreshStep, SessionStep, TypeStep DEF Took
<1>2. ASSUME NEW s \in Symbols, NEW v \in DOMAIN jit[s], NEW r \in jit[s][v].refs
      PROVE  /\ r.ver \in DOMAIN jit'[r.name]
             /\ jit'[r.name][r.ver].fun = r.fun /\ jit'[r.name][r.ver].layout = r.as
  <2>1. r.ver \in DOMAIN jit[r.name] /\ jit[r.name][r.ver].fun = r.fun /\ jit[r.name][r.ver].layout = r.as
    BY DEF Refers
  <2>2. r.name \in Symbols
    <3>1. jit[s][v] \in Code
      BY DEF TypeOK
    <3>2. jit[s][v].refs \in SUBSET References
      BY <3>1 DEF Code
    <3> QED
      BY <3>2 DEF References
  <2> QED
    BY <2>1, <2>2, JitOf DEF Same
<1>3. ASSUME NEW s \in Defs(in), NEW r \in jit'[s][version'[s]].refs
      PROVE  /\ r.ver \in DOMAIN jit'[r.name]
             /\ jit'[r.name][r.ver].fun = r.fun /\ jit'[r.name][r.ver].layout = r.as
  <2> DEFINE to == jit'[r.name][version'[r.name]]
  <2>1. r \in Compiled(in, s, version').refs
    BY <1>3, JitOf DEF Same
  <2>2. s \in Emitted(in)
    BY CommitOf
  <2>3. /\ r.name \in Emitted(in) /\ r.ver = version'[r.name] /\ r.fun = (r.name \notin Variables)
        /\ r.as = IF r.name \in Variables THEN Layout(in, TypeOf(in, r.name)) ELSE {}
    BY <1>1, <2>1, <2>2, CompiledOf
  <2>4. r.name \in Symbols /\ version'[r.name] > 0 /\ ~Stale(r.name)'
    BY <1>1, <2>3, EmittedOf, UnstaleAfter
  <2>5. Right(r.name)'
    BY <1>1, <2>4 DEF Fresh
  <2>6. Now(r.name)' = to
    BY DEF Now
  <2>7. r.ver \in DOMAIN jit'[r.name]
    BY <1>1, <2>3, <2>4 DEF TypeOK
  <2> HIDE DEF to
  <2>8. to \in Code
    BY <1>1, <2>3, <2>4, <2>7 DEF TypeOK, to
  <2>9. to.fun \in BOOLEAN
    BY <2>8 DEF Code
  <2>10. CASE r.name \in Variables
    <3>1. PICK g \in CurrentGlobals(in) : g.name = r.name
      BY <1>1, <2>3, <2>10, EmittedOf
    <3>2. ~to.fun /\ to.layout = Shaped(g.type)'
      BY <1>1, <2>5, <2>6, <2>10, <3>1 DEF Right
    <3>3. Shaped(g.type)' = Layout(in, TypeOf(in, r.name))
      BY <1>1, <3>1, GlobalsOf, ShapedAfter
    <3>4. to.layout = r.as
      BY <2>3, <2>10, <3>2, <3>3
    <3>5. to.fun = r.fun
      BY <2>3, <2>9, <2>10, <3>2
    <3> QED
      BY <2>3, <2>7, <3>4, <3>5 DEF to
  <2>11. CASE r.name \notin Variables
    <3>1. to.fun /\ to.layout = {}
      BY <2>5, <2>6, <2>11 DEF Right
    <3>2. to.fun = r.fun
      BY <2>3, <2>9, <2>11, <3>1
    <3> QED
      BY <2>3, <2>7, <2>11, <3>1, <3>2 DEF to
  <2> QED
    BY <2>10, <2>11
<1>4. ASSUME NEW s \in Symbols, NEW v \in DOMAIN jit'[s], NEW r \in jit'[s][v].refs
      PROVE  /\ r.ver \in DOMAIN jit'[r.name]
             /\ jit'[r.name][r.ver].fun = r.fun /\ jit'[r.name][r.ver].layout = r.as
  <2>1. CASE v \in DOMAIN jit[s]
    <3>1. r \in jit[s][v].refs
      BY <1>4, <2>1, JitOf DEF Same
    <3> QED
      BY <1>2, <2>1, <3>1
  <2>2. CASE v \notin DOMAIN jit[s]
    <3>1. s \in Defs(in) /\ v = version'[s]
      BY <2>2, JitOf
    <3> QED
      BY <1>3, <1>4, <3>1
  <2> QED
    BY <2>1, <2>2
<1> QED
  BY <1>4 DEF Refers

-----------------------------------------------------------------------------
(* Every session: no input yet, an input, or :reset.                        *)

BlankSession ==
  /\ epoch \in Nat /\ chunks = <<>> /\ globals = {}
  /\ version = Zero(Symbols) /\ defEpoch = Zero(Symbols)
  /\ declEpoch = Zero(Types \cup SessionNames) /\ prefixEpoch = Zero(Types \cup SessionNames \cup {All})
  /\ jit = [s \in Symbols |-> <<>>]

(* A session with nothing in it.                                            *)
LEMMA BlankIs == Discipline /\ BlankSession => IInv
<1> SUFFICES ASSUME Discipline, BlankSession PROVE IInv
  OBVIOUS
<1>1. TypeOK
  BY DEF BlankSession, TypeOK, Zero
<1>2. DOMAIN chunks = {} /\ \A n \in Types \cup SessionNames : declEpoch[n] = 0
  BY DEF BlankSession, Zero
<1>3. Declarations
  BY <1>2 DEF Declarations, Others
<1>4. \A s \in Symbols : version[s] = 0 /\ DOMAIN jit[s] = {}
  BY DEF BlankSession, Zero
<1>5. Session
  <2>1. Variables \subseteq Symbols
    BY GoodInputs
  <2> QED
    BY <1>4, <2>1 DEF Session, BlankSession
<1>6. Emitted(Nothing) = {}
  <2>1. InputDecls(Nothing) = {} /\ NewGlobals(Nothing) = {} /\ globals = {}
    BY DEF InputDecls, NewGlobals, Nothing, BlankSession
  <2>2. Items(Nothing) = {} /\ GlobalItems(Nothing) = {}
    BY <1>2, <2>1 DEF Items, GlobalItems
  <2> QED
    BY <2>2 DEF Emitted, CurrentGlobals, Funs, Decls
<1>7. Fresh
  BY <1>4, <1>6 DEF Fresh
<1>8. Refers
  BY <1>4 DEF Refers
<1> QED
  BY <1>1, <1>3, <1>5, <1>7, <1>8 DEF IInv

(* Discipline is about constants.                                           *)
LEMMA Constant == Discipline => Discipline'
BY DEF Discipline, Shape, KindsApart, HeldTogether, Declarable, Lets, Methods

(* The invariant is inductive.                                              *)
LEMMA Step == Discipline /\ IInv /\ [SessionNext]_sessionVars => IInv'
<1> SUFFICES ASSUME Discipline, IInv, [SessionNext]_sessionVars PROVE IInv'
  OBVIOUS
<1>1. CASE Declare \/ Execute
  <2>1. PICK in \in Inputs : Took(in)
    BY <1>1, Takes
  <2> QED
    BY <2>1, TypeStep, DeclarationsStep, SessionStep, FreshStep, RefersStep DEF IInv
<1>2. CASE ResetSession
  <2>1. BlankSession'
    BY <1>2 DEF ResetSession, BlankSession, IInv, TypeOK, Zero, Symbols, Methods
  <2>2. (Discipline /\ BlankSession => IInv)'
    BY BlankIs, PTL
  <2> QED
    BY <2>1, <2>2, Constant
<1>3. CASE UNCHANGED sessionVars
  <2>1. TypeOK' /\ Declarations' /\ Session' /\ Refers'
    BY <1>3 DEF sessionVars, IInv, TypeOK, Declarations, Session, Refers
  <2>2. Items(Nothing)' = Items(Nothing) /\ GlobalItems(Nothing)' = GlobalItems(Nothing)
    BY <1>3 DEF sessionVars, Items, GlobalItems, InputDecls, NewGlobals, cur
  <2>3. \A n : latest(Nothing, n)' = latest(Nothing, n)
    BY <2>2 DEF latest
  <2>4. Decls(Nothing)' = Decls(Nothing) /\ CurrentGlobals(Nothing)' = CurrentGlobals(Nothing)
    BY <2>2, <2>3 DEF Decls, CurrentGlobals
  <2>5. Funs(Nothing)' = Funs(Nothing)
    BY <2>4 DEF Funs
  <2>6. Used(Nothing)' = Used(Nothing)
    BY <2>5 DEF Used
  <2>7. Emitted(Nothing)' = Emitted(Nothing)
    BY <2>4, <2>5, <2>6 DEF Emitted
  <2>8. \A s : Stale(s)' = Stale(s) /\ Right(s)' = Right(s)
    BY <1>3 DEF sessionVars, Stale, isStale, Right, Now, Shaped
  <2>9. Fresh'
    BY <1>3, <2>7, <2>8 DEF sessionVars, IInv, Fresh
  <2> QED
    BY <2>1, <2>9 DEF IInv
<1> QED
  BY <1>1, <1>2, <1>3 DEF SessionNext

(* The session's bookkeeping is what it should be, whatever is typed: the   *)
(* JIT holds as many versions of a symbol as the session counts, the chunks *)
(* are as old as the declarations are recorded to be, every symbol that a   *)
(* later input finds is linked against the latest declarations, and every   *)
(* reference in compiled code is to a version that exists.                  *)
(* (buildSession, isStale, processModule and compileAndRun, repl.cpp)       *)
THEOREM Inductive == Discipline => (SessionSpec => []IInv)
<1>1. Discipline /\ SessionInit => IInv
  <2>1. SessionInit => BlankSession
    BY DEF SessionInit, BlankSession
  <2> QED
    BY <2>1, BlankIs
<1>2. Discipline /\ IInv /\ [SessionNext]_sessionVars => IInv'
  BY Step
<1> QED
  BY <1>1, <1>2, Constant, PTL DEF SessionSpec

(* What an input without declarations would emit is fresh, hence right.     *)
LEMMA IsLinkedToLatest == Discipline /\ IInv => LinkedToLatest
<1> SUFFICES ASSUME Discipline, IInv, NEW s \in Emitted(Nothing)
             PROVE  IF isFunction(Nothing, s)
                    THEN /\ Now(s).fun
                         /\ s \in SessionNames => Now(s).decl = latest(Nothing, s)
                         /\ \A t \in Now(s).seen : t[2] = TypeAt(Nothing, t[1])
                    ELSE ~Now(s).fun /\ Now(s).layout = Layout(Nothing, TypeOf(Nothing, s))
  BY DEF LinkedToLatest
<1>1. TypeOK /\ Declarations /\ Session /\ GoodInput(Nothing)
  BY GoodInputs DEF IInv
<1>2. NothingView
  BY <1>1, NothingIs
<1>3. s \in Symbols /\ (isFunction(Nothing, s) <=> s \notin Variables)
  BY <1>1, EmittedOf
<1>4. version[s] > 0 /\ Right(s)
  BY <1>3 DEF IInv, Fresh
<1>5. CASE s \in Variables
  <2>1. PICK g \in CurrentGlobals(Nothing) : g.name = s
    BY <1>1, <1>5, EmittedOf
  <2>2. TypeOf(Nothing, s) = g.type /\ g.type \in Types \cup {Plain}
    BY <1>1, <2>1, GlobalsOf
  <2>3. Layout(Nothing, g.type) = Shaped(g.type)
    <3>1. g.type # Plain => {g.type} \cup Holds[g.type] \subseteq Types
      BY <2>2 DEF Discipline, Shape
    <3>2. Types \subseteq Others
      BY GoodInputs DEF Others
    <3>3. g.type # Plain => \A u \in {g.type} \cup Holds[g.type] : TypeAt(Nothing, u) = declEpoch[u]
      BY <1>2, <3>1, <3>2 DEF NothingView, TypeAt
    <3> QED
      BY <3>3 DEF Layout, Shaped
  <2>4. ~Now(s).fun /\ Now(s).layout = Shaped(g.type)
    BY <1>2, <1>4, <1>5, <2>1 DEF Right, NothingView
  <2> QED
    BY <1>3, <1>5, <2>2, <2>3, <2>4
<1>6. CASE s \notin Variables
  <2>1. /\ Now(s).fun /\ (s \in SessionNames => Now(s).decl = declEpoch[s])
        /\ \A t \in Now(s).seen : t[2] = declEpoch[t[1]]
    BY <1>4, <1>6 DEF Right
  <2>2. s \in SessionNames => latest(Nothing, s) = declEpoch[s]
    BY <1>2, <1>6 DEF NothingView, Others
  <2>3. ASSUME NEW t \in Now(s).seen PROVE t[2] = TypeAt(Nothing, t[1])
    <3>1. Now(s) \in Code
      BY <1>1, <1>3, <1>4 DEF TypeOK, Now
    <3>2. t \in Types \X Nat
      BY <3>1 DEF Code, Layouts
    <3>3. t[1] \in Others
      BY <3>2, GoodInputs DEF Others
    <3> QED
      BY <1>2, <2>1, <3>3 DEF NothingView, TypeAt
  <2> QED
    BY <1>3, <1>6, <2>1, <2>2, <2>3
<1> QED
  BY <1>5, <1>6

(* Whatever is typed, what a later input finds under a name is the latest   *)
(* declaration of it, compiled against the types as they are now: no stale  *)
(* symbol is ever linked to. (isStale and processModule, repl.cpp)          *)
THEOREM AlwaysLinkedToLatest == Discipline => (SessionSpec => []LinkedToLatest)
BY Inductive, IsLinkedToLatest, Constant, PTL

(* Refers says it of every reference.                                       *)
LEMMA IsLayoutAgrees == IInv => LayoutAgrees
BY DEF IInv, Refers, LayoutAgrees

(* Whatever is typed, no code in the JIT, not even code replaced long ago,  *)
(* reads a variable in another layout than the one its storage has.         *)
(* (the variables that compileAndRun resets, repl.cpp)                      *)
THEOREM AlwaysLayoutAgrees == Discipline => (SessionSpec => []LayoutAgrees)
BY Inductive, IsLayoutAgrees, Constant, PTL

(* A variable whose type the input leaves alone is not defined by it.       *)
LEMMA NotDefined ==
  ASSUME Discipline, PrefixesApart, IInv, NEW in \in Inputs, Took(in),
         NEW g \in globals, NEW h \in CurrentGlobals(in), h.name = g.name, h.type = g.type,
         Shaped(g.type)' = Shaped(g.type)
  PROVE  g.name \in Symbols /\ version[g.name] > 0 /\ g.name \notin Defs(in)
<1>1. TypeOK /\ Declarations /\ Session /\ GoodInput(in) /\ GoodInput(Nothing) /\ declEpoch' = NewDecl(in)
  BY GoodInputs, CommitOf DEF IInv
<1>2. NothingView
  BY <1>1, NothingIs
<1>3. g.name \in Emitted(Nothing) /\ g.name \in Variables /\ g.name \in SessionNames
  BY <1>1, <1>2, EmittedOf, GlobalsOf, GoodInputs DEF NothingView
<1>4. g.name \in Symbols /\ version[g.name] > 0 /\ ~Stale(g.name)
  BY <1>1, <1>3, EmittedOf DEF IInv, Fresh
<1>5. cur \in Nat /\ epoch \in Nat /\ cur > epoch /\ \A n \in Types \cup SessionNames : declEpoch[n] \in 0 .. epoch
  BY <1>1 DEF TypeOK, cur
<1>6. g.name \notin Redeclared(in)
  <2>1. g.name \notin {d.name : d \in InputDecls(in)}
    BY <1>1, <1>3 DEF GoodInput, InputDecls, Others
  <2>2. ASSUME g.name \in Reset(in) PROVE FALSE
    <3>1. PICK v \in CurrentGlobals(in) : v.name = g.name /\ \E d \in InputDecls(in) : d.name = v.type
      BY <2>2 DEF Reset
    <3>2. v = h
      BY <1>1, <3>1, GlobalsOf
    <3>3. PICK d \in InputDecls(in) : d.name = g.type
      BY <3>1, <3>2
    <3>4. g.type \in Others /\ g.type \in Types \cup SessionNames /\ g.type # Plain
      BY <1>1, <3>3 DEF GoodInput, InputDecls, Others, Discipline, Shape
    <3>5. declEpoch'[g.type] = cur
      BY <1>1, <3>3, <3>4, NewDeclOf
    <3>6. <<g.type, cur>> \in Shaped(g.type)'
      BY <3>4, <3>5 DEF Shaped
    <3>7. PICK u \in {g.type} \cup Holds[g.type] : <<g.type, cur>> = <<u, declEpoch[u]>>
      BY <3>4, <3>6 DEF Shaped
    <3>8. declEpoch[g.type] = cur
      BY <3>7
    <3> QED
      BY <1>5, <3>4, <3>8
  <2>3. ASSUME NEW n \in NewGlobals(in), ~ \E old \in globals : old.name = n.name /\ old.type = n.type, n.name = g.name
        PROVE  FALSE
    <3>1. n \in CurrentGlobals(in)
      BY <1>1, GlobalsOf
    <3>2. n = h
      BY <1>1, <2>3, <3>1, GlobalsOf
    <3> QED
      BY <2>3, <3>2
  <2> QED
    BY <2>1, <2>2, <2>3 DEF Redeclared
<1>7. NewDecl(in)[g.name] = declEpoch[g.name]
  BY <1>1, <1>3, <1>6, NewDeclOf
<1>8. \A p \in DOMAIN Prefixed : g.name \notin Prefixed[p]
  BY <1>3 DEF PrefixesApart, Variables
<1>9. DOMAIN NewDecl(in) = Types \cup SessionNames /\ DOMAIN declEpoch = Types \cup SessionNames
  BY <1>1, NewDeclOf DEF TypeOK
<1>10. ~isFunction(in, g.name)
  BY DEF isFunction
<1>11. ~isStale(g.name, isFunction(in, g.name), NewDecl(in), NewPrefix(in))
  BY <1>3, <1>4, <1>7, <1>8, <1>9, <1>10 DEF isStale, Stale
<1>12. g.name \notin Defs(in)
  BY <1>4, <1>11 DEF Defs, Defined
<1> QED
  BY <1>4, <1>12

(* An input that leaves a variable and its type alone does not define it.   *)
LEMMA InputKeepsState ==
  ASSUME Discipline, PrefixesApart, IInv, NEW in \in Inputs, Took(in)
  PROVE  KeepsState
<1>1. TypeOK /\ Declarations /\ Session /\ CurrentGlobals(Nothing)' = CurrentGlobals(in) /\ epoch' = cur
  BY NextView, CommitOf DEF IInv, NothingView
<1>2. CurrentGlobals(Nothing) = globals
  BY <1>1, NothingIs DEF NothingView
<1>3. NothingView' /\ NothingView /\ declEpoch' = NewDecl(in)
  BY <1>1, NextView, NothingIs, CommitOf
<1>4. Types \subseteq Others
  BY GoodInputs DEF Others
<1>5. ASSUME NEW t \in Types \cup {Plain}
      PROVE  Layout(Nothing, t) = Shaped(t) /\ Layout(Nothing, t)' = Shaped(t)'
  <2>1. t # Plain => {t} \cup Holds[t] \subseteq Types
    BY DEF Discipline, Shape
  <2>2. t # Plain => \A u \in {t} \cup Holds[t] : /\ TypeAt(Nothing, u) = declEpoch[u]
                                                  /\ TypeAt(Nothing, u)' = declEpoch'[u]
    BY <1>3, <1>4, <2>1 DEF NothingView, TypeAt
  <2> QED
    BY <2>2 DEF Layout, Shaped
<1>6. ASSUME NEW g \in globals, NEW h \in CurrentGlobals(in), h.name = g.name, h.type = g.type,
             Layout(Nothing, g.type)' = Layout(Nothing, g.type)
      PROVE  Now(g.name)'.val \in {Now(g.name).val, epoch'}
  <2>1. Shaped(g.type)' = Shaped(g.type)
    <3>1. g.type \in Types \cup {Plain}
      BY <1>1 DEF TypeOK
    <3> QED
      BY <1>5, <1>6, <3>1
  <2>2. g.name \in Symbols /\ version[g.name] > 0 /\ g.name \notin Defs(in)
    BY <1>6, <2>1, NotDefined
  <2>3. version'[g.name] = version[g.name] /\ version[g.name] \in DOMAIN jit[g.name]
    <3>1. version'[g.name] = version[g.name]
      BY <1>1, <2>2, CommitOf
    <3> QED
      BY <1>1, <2>2, <3>1 DEF TypeOK
  <2>4. jit'[g.name][version[g.name]].val \in {jit[g.name][version[g.name]].val, cur}
    BY <1>1, <2>2, <2>3, JitOf
  <2> QED
    BY <1>1, <2>3, <2>4 DEF Now
<1> QED
  BY <1>1, <1>2, <1>6 DEF KeepsState

(* So does every step: after a reset there is no variable left.             *)
LEMMA StepKeepsState == Discipline /\ PrefixesApart /\ IInv /\ IInv' /\ [SessionNext]_sessionVars => [KeepsState]_sessionVars
<1> SUFFICES ASSUME Discipline, PrefixesApart, IInv, IInv', [SessionNext]_sessionVars PROVE [KeepsState]_sessionVars
  OBVIOUS
<1>1. CASE Declare \/ Execute
  <2>1. PICK in \in Inputs : Took(in)
    BY <1>1, Takes
  <2> QED
    BY <2>1, InputKeepsState
<1>2. CASE ResetSession
  <2>1. CurrentGlobals(Nothing)' = {}
    <3>1. (Discipline /\ TypeOK /\ Declarations /\ Session => NothingView)'
      BY NothingIs, PTL
    <3>2. CurrentGlobals(Nothing)' = globals'
      BY <3>1, Constant DEF IInv, NothingView
    <3> QED
      BY <1>2, <3>2 DEF ResetSession
  <2> QED
    BY <2>1 DEF KeepsState
<1> QED
  BY <1>1, <1>2 DEF SessionNext

(* If no variable's name begins with another name and an underscore, a      *)
(* session variable keeps its value whatever else is typed, unless the      *)
(* input writes it, or gives it, its type or a type it holds a new          *)
(* declaration. (newGlobals and the stale prefixes in compileAndRun)        *)
THEOREM AlwaysStateKept == Discipline /\ PrefixesApart => (SessionSpec => StateKept)
<1>1. Discipline /\ SessionSpec => []IInv
  BY Inductive
<1>2. Discipline /\ PrefixesApart /\ IInv /\ IInv' /\ [SessionNext]_sessionVars => [KeepsState]_sessionVars
  BY StepKeepsState
<1>3. PrefixesApart => PrefixesApart'
  BY DEF PrefixesApart, Lets
<1> QED
  BY <1>1, <1>2, <1>3, Constant, PTL DEF SessionSpec, StateKept

-----------------------------------------------------------------------------
(* The reader.                                                               *)

(* A statement that is not a line of its own.                               *)
Proper(st) ==
  /\ st # <<>> /\ st[1].first \notin {"blank", "op", "cmd"} /\ ~continuesHeld(st[1])
  /\ ~Open(st)
  /\ \A j \in 1 .. Len(st) - 1 :
       LET text == SubSeq(st, 1, j)
       IN /\ Open(text) \/ (Conditional(text) /\ continuesHeld(st[j + 1]))
          /\ st[j + 1] = Blank => bracketDepth(text) > 0

(* What is left to read are statements, and what has been read is known by   *)
(* the statement it belongs to: at a statement's beginning nothing is        *)
(* pending but one that is held, within it the pending lines are those of    *)
(* it that were read and all that ran before it was sent.                    *)
ScriptOK == input \in Seq(Seq(Line)) /\ \A i \in DOMAIN input : Statement(input[i])
SentOK == due \in Seq(Seq(Line)) /\ sent \in Seq(Seq(Line)) /\ pending \in Seq(Line)
Place == /\ read \in Nat /\ (input = <<>> => read = 0)
         /\ input # <<>> => read < Len(Head(input))
Between == read = 0 => \/ pending = <<>> /\ sent = due
                       \/ Held(pending) /\ due = Append(sent, pending)
Within == read > 0 => Proper(Head(input)) /\ pending = SubSeq(Head(input), 1, read) /\ sent = due
Ended == ~running => input = <<>> /\ sent = due

Reading == ScriptOK /\ SentOK /\ Place /\ Between /\ Within /\ Ended

(* What the reader does with a text is decided by what is open in it.       *)
LEMMA Decides ==
  ASSUME NEW text
  PROVE  /\ Waits(text) <=> Open(text) \/ Conditional(text)
         /\ Open(text) => ~Held(text)
         /\ text # <<>> /\ ~Open(text) /\ Conditional(text) => Held(text)
         /\ Held(text) => text # <<>> /\ ~(bracketDepth(text) > 0)
BY DEF Waits, Open, Conditional, Held, ifAwaitsElse

Alone(st) == Len(st) = 1 /\ (st[1] = Blank \/ st[1].first \in {"op", "cmd"})

(* A statement is a line of its own or a proper one, and it has a line.      *)
LEMMA Kinds ==
  ASSUME NEW st \in Seq(Line), Statement(st)
  PROVE  (Alone(st) \/ Proper(st)) /\ Len(st) > 0
<1>1. Alone(st) \/ Proper(st)
  BY Zenon DEF Statement, Alone, Proper
<1>2. Alone(st) => Len(st) > 0
  BY DEF Alone
<1>3. Proper(st) => st # <<>>
  BY DEF Proper
<1> QED BY <1>1, <1>2, <1>3

(* The statement that is read now has a line left, and what a step reads.   *)
LEMMA Reads ==
  ASSUME ScriptOK, SentOK, Place, Within, ReadLine
  PROVE  LET st == Head(input)
         IN /\ st \in Seq(Line) /\ Statement(st) /\ read + 1 <= Len(st) /\ nextLine \in Line
            /\ ScriptOK' /\ Place'
            /\ read + 1 < Len(st) => read' = read + 1 /\ UNCHANGED <<input, due>>
            /\ ~(read + 1 < Len(st)) =>
                 /\ read' = 0 /\ read + 1 = Len(st)
                 /\ due' = IF Runs(st) THEN Append(due, st) ELSE due
<1> DEFINE st == Head(input)
<1>1. input # <<>> /\ Typed
  BY DEF ReadLine
<1>2. /\ st \in Seq(Line) /\ Statement(st) /\ read < Len(st) /\ read \in Nat
      /\ Tail(input) \in Seq(Seq(Line)) /\ Len(Tail(input)) = Len(input) - 1
      /\ \A i \in DOMAIN Tail(input) : Tail(input)[i] = input[i + 1] /\ i + 1 \in DOMAIN input
  BY <1>1 DEF ScriptOK, Place
<1>3. \A i \in DOMAIN Tail(input) : Statement(Tail(input)[i])
  BY <1>2 DEF ScriptOK
<1>4. \A s \in Seq(Line) : Statement(s) => Len(s) > 0
  BY Kinds
<1>5. nextLine \in Line
  BY <1>2 DEF nextLine
<1>6. CASE read + 1 < Len(st)
  BY <1>1, <1>2, <1>5, <1>6 DEF Typed, ScriptOK, Place
<1>7. CASE ~(read + 1 < Len(st))
  <2>1. read' = 0 /\ input' = Tail(input) /\ due' = IF Runs(st) THEN Append(due, st) ELSE due
    BY <1>1, <1>7 DEF Typed
  <2>2. ScriptOK'
    BY <2>1, <1>2, <1>3 DEF ScriptOK
  <2>3. input' # <<>> => Len(Head(input')) > 0
    <3>1. SUFFICES ASSUME Tail(input) # <<>> PROVE Len(Head(Tail(input))) > 0
      BY <2>1
    <3>2. 1 \in DOMAIN Tail(input) /\ Head(Tail(input)) = Tail(input)[1] /\ Tail(input)[1] \in Seq(Line)
      BY <3>1, <1>2
    <3> QED BY <3>2, <1>3, <1>4
  <2>4. Place'
    BY <2>1, <2>3 DEF Place
  <2>5. read + 1 <= Len(st) /\ read + 1 = Len(st)
    BY <1>2, <1>7
  <2> HIDE DEF st
  <2> QED BY <2>1, <2>2, <2>4, <2>5, <1>2, <1>5, <1>7 DEF st
<1> QED BY <1>6, <1>7

(* A blank line goes on with nothing.                                        *)
LEMMA BlankLine == Blank.first = "blank" /\ ~continuesHeld(Blank)
<1>1. Blank.first = "blank"
  BY DEF Blank
<1> QED BY <1>1 DEF continuesHeld

(* What a line of its own is, and what it is not.                            *)
LEMMA LineAlone ==
  ASSUME NEW st \in Seq(Line), Alone(st)
  PROVE  /\ Len(st) = 1 /\ st = <<st[1]>> /\ st[1] \in Line /\ ~continuesHeld(st[1])
         /\ st[1] = Blank \/ (st[1] # Blank /\ st[1].first \in {"op", "cmd"})
<1>1. Len(st) = 1 /\ st = <<st[1]>> /\ st[1] \in Line
  BY DEF Alone
<1>2. st[1] = Blank => ~continuesHeld(st[1])
  BY BlankLine
<1>3. st[1].first \in {"op", "cmd"} => st[1] # Blank
  BY BlankLine
<1>4. st[1].first \in {"op", "cmd"} => ~continuesHeld(st[1])
  BY DEF continuesHeld
<1> QED BY <1>1, <1>2, <1>3, <1>4 DEF Alone

(* A line of its own, when nothing is held, runs at once or not at all.      *)
LEMMA TakesAlone ==
  ASSUME NEW st \in Seq(Line), Alone(st), NEW out \in Seq(Seq(Line)), TakeLine(st[1], <<>>, out)
  PROVE  pending' = <<>> /\ sent' = IF Runs(st) THEN Append(out, st) ELSE out
<1>1. Len(st) = 1 /\ st = <<st[1]>> /\ (st[1] = Blank \/ (st[1] # Blank /\ st[1].first \in {"op", "cmd"}))
  BY LineAlone
<1>2. st = <<Blank>> <=> st[1] = Blank
  BY <1>1
<1>3. CASE st[1] = Blank
  <2>1. pending' = <<>> /\ sent' = out
    BY <1>3, BlankLine DEF TakeLine
  <2> QED BY <2>1, <1>2, <1>3 DEF Runs
<1>4. CASE st[1] # Blank /\ st[1].first = "op"
  <2>1. pending' = <<>> /\ sent' = out
    BY <1>4 DEF TakeLine
  <2> QED BY <2>1, <1>4 DEF Runs
<1>5. CASE st[1] # Blank /\ st[1].first = "cmd"
  <2>1. pending' = <<>> /\ sent' = Append(out, <<st[1]>>)
    BY <1>5 DEF TakeLine
  <2> QED BY <2>1, <1>1, <1>2, <1>5 DEF Runs
<1> QED BY <1>1, <1>3, <1>4, <1>5

(* A line of a proper statement is added to the text, and the text waits,    *)
(* unless all of the statement is there and no line may go on with it.       *)
LEMMA TakesProper ==
  ASSUME NEW st \in Seq(Line), Proper(st), NEW out, NEW n \in Nat, n < Len(st),
         NEW text, text = SubSeq(st, 1, n), TakeLine(st[n + 1], text, out)
  PROVE  LET more == SubSeq(st, 1, n + 1)
         IN IF n + 1 < Len(st) \/ Conditional(st) THEN pending' = more /\ sent' = out
            ELSE pending' = <<>> /\ sent' = Append(out, st)
<1> DEFINE more == SubSeq(st, 1, n + 1)
<1>1. more = Append(text, st[n + 1]) /\ more \in Seq(Line) /\ more # <<>> /\ Len(more) = n + 1
  BY SubSeqProperties, SubSeqRecursiveSecond
<1>2. (text = <<>> <=> n = 0) /\ Len(text) = n
  BY SubSeqProperties
<1>3. ~(text = <<>> /\ st[n + 1].first \in {"blank", "op", "cmd"})
  <2>1. st[1].first \notin {"blank", "op", "cmd"}
    BY DEF Proper
  <2>2. n = 0 => n + 1 = 1
    OBVIOUS
  <2> QED BY <1>2, <2>1, <2>2
<1>4. n # 0 => n \in 1 .. Len(st) - 1
  OBVIOUS
<1>5. st[n + 1] = Blank => bracketDepth(text) > 0
  BY <1>2, <1>3, <1>4, BlankLine DEF Proper
<1>6. IF Waits(more) THEN pending' = more /\ sent' = out
                     ELSE pending' = <<>> /\ sent' = Append(out, more)
  <2>1. ~(text = <<>> /\ st[n + 1] = Blank)
    BY <1>3, BlankLine
  <2> HIDE DEF more
  <2> QED BY <1>1, <1>3, <1>5, <2>1 DEF TakeLine
<1>7. Head(more) = st[1] /\ Head(st) = st[1] /\ (Conditional(more) <=> Conditional(st))
  BY <1>1 DEF Conditional
<1>8. n + 1 < Len(st) => Waits(more)
  <2>1. SUFFICES ASSUME n + 1 < Len(st) PROVE Waits(more)
    OBVIOUS
  <2>2. n + 1 \in 1 .. Len(st) - 1
    BY <2>1
  <2>3. Open(more) \/ Conditional(more)
    BY <2>2 DEF Proper
  <2> QED BY <2>3, Decides
<1>9. n + 1 = Len(st) => more = st /\ (Waits(more) <=> Conditional(st))
  <2>1. SUFFICES ASSUME n + 1 = Len(st) PROVE more = st /\ (Waits(more) <=> Conditional(st))
    OBVIOUS
  <2>2. more = st
    BY <2>1, SubSeqFull
  <2>3. ~Open(more)
    BY <2>2 DEF Proper
  <2> QED BY <2>2, <2>3, Decides
<1> HIDE DEF more
<1> QED BY <1>6, <1>8, <1>9 DEF more

(* What runs at the end of a proper statement, and what a held text is.      *)
LEMMA ProperRuns == ASSUME NEW st, Proper(st) PROVE Runs(st) /\ (Conditional(st) => Held(st))
<1>1. st[1].first \notin {"blank", "op", "cmd"} /\ st # <<>> /\ ~Open(st)
  BY DEF Proper
<1>2. st # <<Blank>>
  BY <1>1, BlankLine
<1> QED BY <1>1, <1>2, Decides DEF Runs

(* A step in the middle of a proper statement, or at its beginning when      *)
(* nothing is held.                                                          *)
LEMMA Goes ==
  ASSUME ScriptOK, SentOK, Place, Within, ReadLine, Proper(Head(input)), NEW out \in Seq(Seq(Line)),
         out = due, NEW text, text = SubSeq(Head(input), 1, read), TakeLine(nextLine, text, out)
  PROVE  SentOK' /\ Between' /\ Within'
<1> DEFINE st == Head(input)
           more == SubSeq(st, 1, read + 1)
<1>1. /\ st \in Seq(Line) /\ Statement(st) /\ read + 1 <= Len(st)
      /\ read + 1 < Len(st) => read' = read + 1 /\ UNCHANGED <<input, due>>
      /\ ~(read + 1 < Len(st)) =>
           /\ read' = 0 /\ read + 1 = Len(st)
           /\ due' = IF Runs(st) THEN Append(due, st) ELSE due
  BY Reads
<1>2. read \in Nat /\ read < Len(st) /\ nextLine = st[read + 1]
  BY <1>1 DEF Place, nextLine
<1>3. IF read + 1 < Len(st) \/ Conditional(st) THEN pending' = more /\ sent' = out
      ELSE pending' = <<>> /\ sent' = Append(out, st)
  BY <1>1, <1>2, TakesProper
<1>4. more \in Seq(Line) /\ due \in Seq(Seq(Line))
  BY <1>1, <1>2, SubSeqProperties DEF SentOK
<1>5. CASE read + 1 < Len(st)
  <2>1. read' = read + 1 /\ read' # 0 /\ input' = input /\ due' = due /\ pending' = more /\ sent' = due
    BY <1>1, <1>2, <1>3, <1>5
  <2> HIDE DEF more
  <2>2. SentOK' /\ Between'
    BY <2>1, <1>4 DEF SentOK, Between
  <2>3. Within'
    BY <2>1 DEF Within, more
  <2> QED BY <2>2, <2>3
<1>6. CASE ~(read + 1 < Len(st))
  <2>1. read' = 0 /\ more = st /\ due' = Append(due, st)
    BY <1>1, <1>6, ProperRuns, SubSeqFull
  <2>2. Append(due, st) \in Seq(Seq(Line))
    BY <1>1, <1>4
  <2>3. CASE Conditional(st)
    <3>1. pending' = st /\ sent' = due /\ Held(st)
      BY <1>3, <2>1, <2>3, ProperRuns
    <3> HIDE DEF st
    <3> QED BY <2>1, <2>2, <3>1, <1>1, <1>4 DEF SentOK, Between, Within
  <2>4. CASE ~Conditional(st)
    <3>1. pending' = <<>> /\ sent' = Append(due, st)
      BY <1>3, <1>6, <2>4
    <3> HIDE DEF st
    <3> QED BY <2>1, <2>2, <3>1, <1>1, <1>4 DEF SentOK, Between, Within
  <2> QED BY <2>3, <2>4
<1> QED BY <1>5, <1>6

(* The reader begins a statement: what is held goes out first, but for a     *)
(* line that goes on with it, and no statement begins with one.              *)
LEMMA Begins ==
  ASSUME Reading, ReadLine, read = 0
  PROVE  SentOK' /\ Between' /\ Within'
<1> DEFINE st == Head(input)
<1>1. /\ st \in Seq(Line) /\ Statement(st) /\ read + 1 <= Len(st)
      /\ ~(read + 1 < Len(st)) =>
           /\ read' = 0 /\ read + 1 = Len(st)
           /\ due' = IF Runs(st) THEN Append(due, st) ELSE due
  BY Reads DEF Reading
<1>2. nextLine = st[1] /\ ~Held(<<>>) /\ due \in Seq(Seq(Line)) /\ sent \in Seq(Seq(Line))
  BY Decides DEF nextLine, Reading, SentOK
<1>3. Alone(st) \/ Proper(st)
  BY <1>1, Kinds
<1>4. ~continuesHeld(st[1]) /\ (Proper(st) => st[1] # Blank)
  BY <1>1, <1>3, LineAlone, BlankLine DEF Proper
<1>5. \/ TakeLine(st[1], <<>>, due)
      \/ Held(pending) /\ due = Append(sent, pending) /\ st[1] = Blank /\ TakeLine(st[1], pending, sent)
  <2>1. CASE pending = <<>> /\ sent = due
    BY <2>1, <1>2 DEF ReadLine
  <2>2. CASE Held(pending) /\ due = Append(sent, pending)
    <3>1. Send(pending) = due
      BY <2>2, Decides DEF Send
    <3> QED BY <2>2, <3>1, <1>2, <1>4 DEF ReadLine
  <2> QED BY <2>1, <2>2 DEF Reading, Between
<1>6. CASE TakeLine(st[1], <<>>, due) /\ Alone(st)
  <2>1. pending' = <<>> /\ sent' = IF Runs(st) THEN Append(due, st) ELSE due
    BY <1>1, <1>2, <1>6, TakesAlone
  <2>2. Len(st) = 1
    BY <1>1, <1>6, LineAlone
  <2> HIDE DEF st
  <2>3. ~(read + 1 < Len(st))
    BY <2>2
  <2>4. read' = 0 /\ due' = sent'
    BY <1>1, <2>1, <2>3
  <2>5. sent' \in Seq(Seq(Line))
    BY <1>1, <1>2, <2>1
  <2> QED BY <2>1, <2>4, <2>5 DEF SentOK, Between, Within
<1>7. CASE TakeLine(st[1], <<>>, due) /\ Proper(st)
  <2>1. <<>> = SubSeq(st, 1, read)
    BY <1>1, SubSeqEmpty
  <2> QED BY <1>2, <1>7, <2>1, Goes DEF Reading
<1>8. CASE Held(pending) /\ due = Append(sent, pending) /\ st[1] = Blank /\ TakeLine(st[1], pending, sent)
  <2>1. Len(st) = 1
    BY <1>1, <1>3, <1>4, <1>8, LineAlone
  <2>2. st = <<st[1]>>
    BY <1>1, <1>3, <1>4, <1>8, LineAlone
  <2>3. ~Runs(st)
    BY <2>2, <1>8 DEF Runs
  <2>4. pending # <<>> /\ ~(bracketDepth(pending) > 0)
    BY <1>8, Decides
  <2>5. pending' = <<>> /\ sent' = Append(sent, pending)
    BY <1>8, <2>4 DEF TakeLine
  <2> HIDE DEF st
  <2>6. ~(read + 1 < Len(st))
    BY <2>1
  <2>7. read' = 0 /\ due' = due
    BY <1>1, <2>3, <2>6
  <2> QED BY <1>2, <1>8, <2>5, <2>7 DEF SentOK, Between, Within
<1> QED BY <1>3, <1>5, <1>6, <1>7, <1>8

(* In the middle of a statement nothing is held that the line cuts off.      *)
LEMMA GoesOn ==
  ASSUME Reading, ReadLine, read # 0
  PROVE  SentOK' /\ Between' /\ Within'
<1> DEFINE st == Head(input)
<1>1. st \in Seq(Line) /\ read + 1 <= Len(st)
  BY Reads DEF Reading
<1>2. Proper(st) /\ pending = SubSeq(st, 1, read) /\ sent = due /\ read \in 1 .. Len(st) - 1
  BY <1>1 DEF Reading, Within, Place
<1>3. nextLine = st[read + 1] /\ sent \in Seq(Seq(Line))
  BY DEF nextLine, Reading, SentOK
<1>4. Open(pending) \/ continuesHeld(nextLine)
  BY <1>2, <1>3 DEF Proper
<1>5. TakeLine(nextLine, pending, sent)
  BY <1>4, Decides DEF ReadLine
<1> QED BY <1>2, <1>3, <1>5, Goes DEF Reading

(* The invariant is inductive: every line read, and the end of the input.    *)
LEMMA ReaderStep ==
  ASSUME Reading, [ReaderNext]_readerVars
  PROVE  Reading'
<1>1. CASE ReadLine
  <2>1. ScriptOK' /\ Place'
    BY <1>1, Reads DEF Reading
  <2>2. SentOK' /\ Between' /\ Within'
    BY <1>1, Begins, GoesOn
  <2>3. Ended'
    BY <1>1 DEF ReadLine, Ended
  <2> QED BY <2>1, <2>2, <2>3 DEF Reading
<1>2. CASE EndOfInput
  <2>1. read = 0 /\ input = <<>> /\ input' = input /\ read' = read /\ due' = due
    BY <1>2 DEF EndOfInput, Reading, Place
  <2>2. pending' = <<>> /\ sent' = due
    <3>1. CASE pending = <<>> /\ sent = due
      BY <3>1, <1>2 DEF EndOfInput, Send
    <3>2. CASE Held(pending) /\ due = Append(sent, pending)
      <4>1. pending # <<>>
        BY <3>2, Decides
      <4> QED BY <3>2, <4>1, <1>2 DEF EndOfInput, Send
    <3> QED BY <2>1, <3>1, <3>2 DEF Reading, Between
  <2> QED BY <2>1, <2>2 DEF Reading, ScriptOK, SentOK, Place, Between, Within, Ended
<1>3. CASE UNCHANGED readerVars
  BY <1>3 DEF readerVars, Reading, ScriptOK, SentOK, Place, Between, Within, Ended
<1> QED BY <1>1, <1>2, <1>3 DEF ReaderNext

(* Before the first line is read.                                            *)
LEMMA ReaderStarts == Authored /\ ReaderInit => Reading
<1>1. SUFFICES ASSUME Authored, ReaderInit PROVE Reading
  OBVIOUS
<1>2. input \in Seq(Seq(Line)) /\ \A i \in DOMAIN input : Statement(input[i])
  BY <1>1 DEF Authored, ReaderInit
<1>3. input # <<>> => Len(Head(input)) > 0
  <2>1. SUFFICES ASSUME input # <<>> PROVE Len(Head(input)) > 0
    OBVIOUS
  <2>2. 1 \in DOMAIN input /\ Head(input) = input[1] /\ input[1] \in Seq(Line)
    BY <1>2, <2>1
  <2> QED BY <1>2, <2>2, Kinds
<1> QED BY <1>1, <1>2, <1>3 DEF ReaderInit, Reading, ScriptOK, SentOK, Place, Between, Within, Ended

(* What was sent is all that is due, but for a statement that is held.       *)
LEMMA IsAsWritten == Reading => InputsAsWritten
<1>1. SUFFICES ASSUME Reading PROVE InputsAsWritten
  OBVIOUS
<1>2. due \in Seq(Seq(Line)) /\ sent \in Seq(Seq(Line)) /\ pending \in Seq(Line)
  BY <1>1 DEF Reading, SentOK
<1>3. sent = due \/ due = Append(sent, pending)
  <2>1. CASE read = 0
    BY <1>1, <2>1 DEF Reading, Between
  <2>2. CASE read # 0
    <3>1. read > 0
      BY <1>1, <2>2 DEF Reading, Place
    <3> QED BY <1>1, <3>1 DEF Reading, Within
  <2> QED BY <2>1, <2>2
<1>4. Len(sent) <= Len(due) /\ Len(due) <= Len(sent) + 1
  BY <1>2, <1>3
<1>5. IsPrefix(sent, due)
  BY <1>2, <1>3 DEF IsPrefix
<1> QED BY <1>1, <1>4, <1>5 DEF InputsAsWritten, Reading, Ended

(* However long the script and whatever its statements are made of, the      *)
(* reader sends each of them whole, in order, and none before it is read.    *)
(* (run, repl.cpp)                                                           *)
THEOREM AlwaysAsWritten == Authored => (ReaderSpec => []InputsAsWritten)
<1>1. SUFFICES ASSUME Authored PROVE ReaderSpec => []InputsAsWritten
  OBVIOUS
<1>2. ReaderInit => Reading
  BY <1>1, ReaderStarts
<1> QED BY <1>2, ReaderStep, IsAsWritten, PTL DEF ReaderSpec
=============================================================================
