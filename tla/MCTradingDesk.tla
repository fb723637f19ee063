---------------------------- MODULE MCTradingDesk ----------------------------
(* Instances of TradingDesk for TLC. *)
EXTENDS TradingDesk, TLC

CONSTANTS q1, q2, b1, b2

Alike == Permutations(Requests) \cup Permutations(Bridges)
=============================================================================
