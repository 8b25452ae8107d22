---------------------------- MODULE MCToolchain ----------------------------
(* Toolchain.tla with the families of inputs of each part. *)
EXTENDS Toolchain

DF == INSTANCE MCDrivers
PF == INSTANCE MCPreprocessor
YF == INSTANCE MCSyntax
CF == INSTANCE MCCompiled
AF == INSTANCE MCAsync
XF == INSTANCE MCLayout
FF == INSTANCE FlowChecks WITH Globals <- GlobalVars

MCDepsOf == DF!MCDepsOf
MCUpstreams == DF!MCUpstreams
MCRank == DF!MCRank
MCAdds == DF!MCAdds

MCScripts == DF!MCScripts

MCHolds == DF!MCHolds
MCMethod == DF!MCMethod
MCUnder == DF!MCUnder
MCInputs == DF!MCInputs

MCFiles == PF!MCPrograms
MCFilesNamed == PF!MCInputs

Function(s, eh, vs) == [body |-> s, eh |-> eh, vars |-> vs]
MCFunctions ==
  {Function(s, TRUE, {}) : s \in CF!LoopBodies \cup CF!TryBodies}
    \cup {Function(s, FALSE, {}) : s \in {t \in CF!LoopBodies : ~FF!containsEH(t)}}
    \cup {Function(s, FALSE, {"p", "g"}) : s \in CF!NullBodies}
    \cup {Function(s, FALSE, {"x"}) : s \in CF!UninitBodies}
    \cup {Function(s, TRUE, {"x"}) : s \in CF!UninitTries}
FinallyJumps == CF!FinallyJumps

MCJobs == [pass : {"expand"}, table : PF!MCTables, text : PF!MCTexts] \cup PF!ConstantJobs \cup YF!SyntaxJobs
    \cup XF!LayoutJobs \cup XF!CAbiJobs
    \cup [pass : {"async"}, body : AF!AsyncBodies, params : {[x \in {<<"a">>, <<"p">>} |-> x]}, answers : {4}, steps : {40}]
=============================================================================
