---------------------------- MODULE MCEventLoop -----------------------------
(* EventLoop.tla for TLC.                                                   *)
EXTENDS EventLoop, TLC

CONSTANTS a, b, c1, c2, c3

MCSymmetry == Permutations({c1, c2, c3}) \cup Permutations({a, b})
=============================================================================
