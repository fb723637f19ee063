---------------------------- MODULE MCStrategyDesk ----------------------------
(* Instances of StrategyDesk for TLC. *)
EXTENDS StrategyDesk, TLC

CONSTANTS n1, n2, d1, d2, q1, q2, i1, i2, i3, r1, r2, r3

Alike == Permutations(Instances) \cup Permutations(Registries)
             \cup Permutations(Requests) \cup Permutations(Accounts)
=============================================================================
