---------------------------- MODULE MCPaperTrades ----------------------------
(* Instances of PaperTrades for TLC. *)
EXTENDS PaperTrades

CONSTANTS a1, a2, x1, x2, t1, t2, s1

OneSymbol == [a \in Trades |-> s1]
=============================================================================
