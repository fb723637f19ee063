------------------------------ MODULE EntrySlots ------------------------------
(***************************************************************************)
(* What the live entry path promises, without how: every symbol has one    *)
(* slot, an attempt takes the free slot of its symbol at most once, no     *)
(* more than MaxOpen slots are taken at a time, and a slot is given back   *)
(* only when the broker has nothing left of the attempt.  LiveEntry is     *)
(* checked to implement this.                                              *)
(***************************************************************************)
EXTENDS Naturals, FiniteSets

CONSTANTS Symbols, Attempts, MaxOpen, None

VARIABLES
    holder,  \* the attempt in the slot of a symbol, or None
    spent    \* attempts that have been in a slot

slots == <<holder, spent>>

Taken == {s \in Symbols : holder[s] # None}

Init == /\ holder = [s \in Symbols |-> None]
        /\ spent = {}

Enter(s, a) ==
    /\ holder[s] = None
    /\ a \notin spent
    /\ Cardinality(Taken) < MaxOpen
    /\ holder' = [holder EXCEPT ![s] = a]
    /\ spent' = spent \cup {a}

Leave(s) ==
    /\ holder[s] # None
    /\ holder' = [holder EXCEPT ![s] = None]
    /\ UNCHANGED spent

Next == \E s \in Symbols : Leave(s) \/ \E a \in Attempts : Enter(s, a)

Spec == Init /\ [][Next]_slots
===============================================================================
