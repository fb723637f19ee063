---------------------------- MODULE MCOrbSession ----------------------------
(* Instances of OrbSession for TLC. *)
EXTENDS OrbSession, TLC

CONSTANTS s1, p1, p2, t1, t2, y1, y2

OneStrategy == [p \in Proposals |-> s1]
CapOne      == [s \in Strategies |-> 1]

\* Proposals of one strategy, threads and symbol lists are never told apart.
Symmetry == Permutations(Proposals) \cup Permutations(Threads) \cup Permutations(Symbols)
=============================================================================
