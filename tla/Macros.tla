------------------------------- MODULE Macros -------------------------------
(***************************************************************************)
(* How the preprocessor replaces macros in a line of code (ppExpand,       *)
(* preprocessor.cpp), and the replacement C defines, with a hide set on    *)
(* every token. A text is a sequence of tokens: names, "(", ")", ","; a    *)
(* macro table maps names to [fn, params, body].                           *)
(***************************************************************************)
EXTENDS Integers, Sequences, FiniteSets, SequencesExt

\* The argument list after the parenthesis at k: [args, after], with args = <<>> and
\* after = 0 if it does not end.
RECURSIVE SplitAt(_, _, _, _, _)
SplitAt(s, p, depth, cur, args) ==
  IF p > Len(s) THEN [args |-> <<>>, after |-> 0]
  ELSE IF s[p] = ")" /\ depth = 0
       THEN [args |-> IF args = <<>> /\ cur = <<>> THEN <<>> ELSE Append(args, cur), after |-> p + 1]
  ELSE IF s[p] = "," /\ depth = 0 THEN SplitAt(s, p + 1, 0, <<>>, Append(args, cur))
  ELSE SplitAt(s, p + 1, depth + (CASE s[p] = "(" -> 1 [] s[p] = ")" -> -1 [] OTHER -> 0), Append(cur, s[p]), args)

\* A macro of one parameter takes an empty argument.
Arguments(s, k, mac) ==
  LET a == SplitAt(s, k + 1, 0, <<>>, <<>>)
  IN IF a.args = <<>> /\ Len(mac.params) = 1 THEN [a EXCEPT !.args = <<(<<>>)>>] ELSE a

ppSubstParams(body, params, args) ==
  FlattenSeq([i \in DOMAIN body |->
    IF Contains(params, body[i]) THEN args[CHOOSE j \in DOMAIN params : params[j] = body[i]] ELSE <<body[i]>>])

Callable(t, id, expanding) == id \in DOMAIN t /\ t[id].fn /\ id \notin expanding

\* Mutant of Rescans: a replacement is never read on into the rest of the text.
neverRescans(t, res, expanding, s, after) == FALSE

\* A replacement that ends in the name of a function-like macro before a parenthesis:
\* the name is read again with the rest of the text.
Rescans(t, res, expanding, s, after) ==
  res # <<>> /\ Callable(t, Last(res), expanding) /\ after <= Len(s) /\ s[after] = "("

\* ppExpand from token i on, with what is out already. An ill formed call is an error,
\* and its tokens stay.
RECURSIVE ExpandFrom(_, _, _, _, _)
ExpandFrom(t, s, i, expanding, out) ==
  LET id == s[i]
      keep(after) == ExpandFrom(t, s, after, expanding, out \o SubSeq(s, i, after - 1))
      whole(x, ex) == ExpandFrom(t, x, 1, ex, <<>>)
      emit(res, after) ==
        IF Rescans(t, res, expanding, s, after)
        THEN ExpandFrom(t, <<Last(res)>> \o SubSeq(s, after, Len(s)), 1, expanding, out \o Front(res))
        ELSE ExpandFrom(t, s, after, expanding, out \o res)
  IN IF i > Len(s) THEN out
     ELSE IF id \notin DOMAIN t \/ id \in expanding THEN keep(i + 1)
     ELSE IF ~t[id].fn THEN emit(whole(t[id].body, expanding \cup {id}), i + 1)
     ELSE IF i = Len(s) \/ s[i + 1] # "(" THEN keep(i + 1)
     ELSE LET a == Arguments(s, i + 1, t[id])
          IN IF a.after = 0 THEN keep(i + 1)
             ELSE IF Len(a.args) # Len(t[id].params) THEN keep(a.after)
             ELSE LET args == [j \in DOMAIN a.args |-> whole(a.args[j], expanding)]
                  IN emit(whole(ppSubstParams(t[id].body, t[id].params, args), expanding \cup {id}), a.after)

ppExpand(t, s) == ExpandFrom(t, s, 1, {}, <<>>)

-----------------------------------------------------------------------------
\* C: a token carries the macros it may no longer be replaced by, and a replacement is
\* read again together with all that follows it.
Tok(s, hide) == [i \in DOMAIN s |-> [t |-> s[i], hide |-> hide]]
Spellings(s) == [i \in DOMAIN s |-> s[i].t]
Hide(s, hide) == [i \in DOMAIN s |-> [s[i] EXCEPT !.hide = @ \cup hide]]

RECURSIVE CloseOf(_, _, _)
CloseOf(s, p, depth) ==
  IF p > Len(s) THEN 0
  ELSE IF s[p].t = ")" /\ depth = 0 THEN p
  ELSE CloseOf(s, p + 1, depth + (CASE s[p].t = "(" -> 1 [] s[p].t = ")" -> -1 [] OTHER -> 0))

\* The arguments between the parentheses at k and e, as sequences of tokens.
CArgs(s, k, e, mac) ==
  LET inner == SubSeq(s, k + 1, e - 1)
      net(p) == Cardinality({q \in 1 .. p : inner[q].t = "("}) - Cardinality({q \in 1 .. p : inner[q].t = ")"})
      commas == {p \in DOMAIN inner : inner[p].t = "," /\ net(p) = 0}
      cuts == SetToSortSeq(commas \cup {0, Len(inner) + 1}, <)
  IN IF inner = <<>> /\ mac.params = <<>> THEN <<>>
     ELSE [j \in 1 .. Len(cuts) - 1 |-> SubSeq(inner, cuts[j] + 1, cuts[j + 1] - 1)]

RECURSIVE CExpand(_, _)
CExpand(t, s) ==
  IF s = <<>> THEN <<>>
  ELSE
  LET x == Head(s)
      rest == Tail(s)
      kept == <<x>> \o CExpand(t, rest)
  IN IF x.t \notin DOMAIN t \/ x.t \in x.hide THEN kept
     ELSE IF ~t[x.t].fn THEN CExpand(t, Tok(t[x.t].body, x.hide \cup {x.t}) \o rest)
     ELSE IF rest = <<>> \/ rest[1].t # "(" THEN kept
     ELSE LET e == CloseOf(s, 3, 0)
          IN IF e = 0 THEN kept
             ELSE LET args == CArgs(s, 2, e, t[x.t])
                      hide == (x.hide \cap s[e].hide) \cup {x.t}
                      done == [j \in DOMAIN args |-> CExpand(t, args[j])]
                      body == t[x.t].body
                      put(b) == IF Contains(t[x.t].params, b)
                                THEN done[CHOOSE j \in DOMAIN done : t[x.t].params[j] = b]
                                ELSE <<[t |-> b, hide |-> {}]>>
                  IN IF Len(args) # Len(t[x.t].params)
                     THEN SubSeq(s, 1, e) \o CExpand(t, SubSeq(s, e + 1, Len(s)))
                     ELSE CExpand(t, Hide(FlattenSeq([j \in DOMAIN body |-> put(body[j])]), hide)
                                       \o SubSeq(s, e + 1, Len(s)))

C(t, s) == CExpand(t, Tok(s, {}))

\* A token that C leaves as it is because it stands in its own replacement.
Painted(s) == \E i \in DOMAIN s : s[i].t \in s[i].hide

(* A line becomes what C makes of it, where no name comes out of its own          *)
(* replacement through an argument: the README says what happens there. (ppExpand, *)
(* preprocessor.cpp:115: "C semantics")                                           *)
ExpandedAsC(t, text, result) ==
  \/ result = Spellings(C(t, text))
  \/ Painted(C(t, text)) /\ \E m \in DOMAIN t : t[m].fn
=============================================================================
