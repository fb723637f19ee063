---------------------------- MODULE MCLiveSession ----------------------------
(* Instances of LiveSession for TLC. *)
EXTENDS LiveSession, TLC

CONSTANTS w1, w2, p1, o1, o2, a1

\* Sound for the safety runs: the model never tells threads of a kind apart.
Symmetry == Permutations({o1, o2})
=============================================================================
