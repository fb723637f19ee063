---- MODULE MCLiveEntry ----
(* Instances of LiveEntry for TLC. *)
EXTENDS LiveEntryInv, TLC
CONSTANTS r1, r2, s1, s2, a1, a2, a3
OneRunner == {r1}
TwoRunners == {r1, r2}
OneSymbol == {s1}
TwoSymbols == {s1, s2}
TwoAttempts == {a1, a2}
ThreeAttempts == {a1, a2, a3}
Perms == Permutations(Symbols) \cup Permutations(Attempts)
====
