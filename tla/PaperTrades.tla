----------------------------- MODULE PaperTrades -----------------------------
(***************************************************************************)
(* The paper account's trades, from the order the engine places to the     *)
(* SELL that ends them: AutonomousPaperRunner and its engine, the trade    *)
(* store, AutonomousExitManager with its oversell guard, TradeReconciler,  *)
(* and TWS with the caches its callbacks fill.  Quantities are counted, so *)
(* that an order may fill in part and a position may turn short.           *)
(*                                                                         *)
(* Each HTTP request and each tick of the lifecycle worker is a thread.    *)
(* They share the store and the caches and hold no lock between two calls; *)
(* a pass works on the records it read when it began.                      *)
(***************************************************************************)
EXTENDS Integers, FiniteSets

CONSTANTS
    Trades,    \* bound: entry orders; a recorded trade has its entry's name
    Exits,     \* bound: SELL orders
    SymbolOf,  \* the symbol of a trade
    Threads,
    Lot,       \* the shares of a trade
    MaxOpen,   \* max_open_autonomous_trades
    MaxLegs,   \* legs of a basket
    Env,       \* what else may happen, a set of Hazards
    None       \* no order, no trade

(* "overlap"  a request begins while another is at work                    *)
(* "crash"    the process ends while a request is at work                  *)
(* "cancel"   a cancellation reaches the order later than the next request *)
(* "lag"      exits are evaluated on a position that is out of date        *)
(* "partial"  an exit order ends after it has sold a part of its shares    *)
(* "unheard"  an exit that was filled is tried again, its report being late *)
(*            or lost in a restart                                         *)
(* "handoff"  execute-paper, or an entry cancelled by the operator         *)
Hazards == {"overlap", "crash", "cancel", "lag", "partial", "unheard", "handoff"}

Orders  == Trades \cup Exits
Symbols == {SymbolOf[a] : a \in Trades}

ASSUME LotAssumption == Lot \in Nat \ {0}
ASSUME LimitAssumption == MaxOpen \in Nat \ {0} /\ MaxLegs \in Nat \ {0}
ASSUME EnvAssumption == Env \subseteq Hazards
ASSUME DisjointAssumption == Trades \cap Exits = {} /\ None \notin Orders

VARIABLES
    trade,     \* the trade store, replayed
    order,     \* TWS: its orders
    held,      \* TWS: the shares of the account
    reports,   \* orders that are over, the report of it being on its way
    known,     \* orders whose end is among the status reports of the service
    pos,       \* the position cache of the service
    pc, job,   \* where a thread is, and with what
    seen       \* history: the hazards that have happened

tws     == <<order, held>>
service == <<reports, known, pos>>
threads == <<pc, job>>
vars    == <<trade, tws, service, threads, seen>>

Active   == {"ENTRY_PENDING", "OPEN", "EXIT_PENDING"}
Statuses == Active \cup {"none", "CLOSED", "FAILED"}

(* exit      exit_order_id                                                 *)
(* aged      the exit was requested more than 60 seconds ago               *)
Records  == [status : Statuses, exit : Exits \cup {None}, aged : BOOLEAN]
NoRecord == [status |-> "none", exit |-> None, aged |-> FALSE]

(* of        the trade an order buys or sells                              *)
(* left      shares it has still to buy or to sell                         *)
Order   == [state : {"none", "working", "filled", "ended"},
            of : Trades \cup {None}, left : 0..Lot]
NoOrder == [state |-> "none", of |-> None, left |-> Lot]

(* snap      the store as a pass has read it                               *)
(* todo      the trades it has still to look at                            *)
(* then      what follows the pass: exits, or the end of the request       *)
(* trade     the trade, and                                                *)
(* sell      the SELL order, at hand                                       *)
(* legs      the entries placed by this cycle, lead the first of them      *)
(* kept      the cycle is the runner's, which records what it bought       *)
Job   == [snap : [Trades -> Records], todo : SUBSET Trades, then : {"exits", "end"},
          trade : Trades \cup {None}, sell : Exits \cup {None},
          legs : SUBSET Trades, lead : Trades \cup {None}, kept : BOOLEAN]
NoJob == [snap |-> [a \in Trades |-> NoRecord], todo |-> {}, then |-> "end", trade |-> None,
          sell |-> None, legs |-> {}, lead |-> None, kept |-> TRUE]

Pc == {"idle", "pass", "reopen", "evaluate", "sell", "mark", "abandon", "legs"}

Go(t, l, j) ==
    /\ pc' = [pc EXCEPT ![t] = l]
    /\ job' = [job EXCEPT ![t] = IF l = "idle" THEN NoJob ELSE j]

Update(a, r) == trade' = [trade EXCEPT ![a] = r]

\* Hazards happen, if they may.
Suffer(H) == H \subseteq Env /\ seen' = seen \cup H

\* A request arrives at thread t, and is hazardous in the way of H.
Busy == \E t \in Threads : pc[t] # "idle"
Arrives(t, H) == pc[t] = "idle" /\ Suffer(H \cup IF Busy THEN {"overlap"} ELSE {})

Recorded   == {a \in Trades : trade[a].status # "none"}
OpenTrades == {a \in Trades : trade[a].status = "OPEN"}
CountOpen  == Cardinality({a \in Trades : trade[a].status \in {"ENTRY_PENDING", "OPEN"}})

Filled(o) == o \in known /\ order[o].state = "filled"
Ended(o)  == o \in known /\ order[o].state = "ended"

Init ==
    /\ trade = [a \in Trades |-> NoRecord]
    /\ order = [o \in Orders |-> NoOrder]
    /\ held = [s \in Symbols |-> 0]
    /\ reports = {} /\ known = {}
    /\ pos = [s \in Symbols |-> 0]
    /\ pc = [t \in Threads |-> "idle"]
    /\ job = [t \in Threads |-> NoJob]
    /\ seen = {}
-----------------------------------------------------------------------------
(* A cycle: the runner's gates, the engine's orders, the record.           *)

RunOnce(t) ==
    /\ Arrives(t, {})
    /\ CountOpen < MaxOpen
    /\ Go(t, "legs", NoJob)
    /\ UNCHANGED <<trade, tws, service>>

\* The engine without the runner: nothing counts or records its trades.
ExecutePaper(t) ==
    /\ Arrives(t, {"handoff"})
    /\ Go(t, "legs", [NoJob EXCEPT !.kept = FALSE])
    /\ UNCHANGED <<trade, tws, service>>

\* The plan has a leg on every symbol once, and an order for each leg.
BuyLeg(t, a) ==
    /\ pc[t] = "legs"
    /\ order[a].state = "none"
    /\ \A b \in job[t].legs : SymbolOf[b] # SymbolOf[a]
    /\ Cardinality(job[t].legs) < MaxLegs
    /\ order' = [order EXCEPT ![a] = [state |-> "working", of |-> a, left |-> Lot]]
    /\ Go(t, "legs", [job[t] EXCEPT !.legs = @ \cup {a},
                                    !.lead = IF @ = None THEN a ELSE @])
    /\ UNCHANGED <<trade, held, service, seen>>

\* A refusal of the engine before the first leg, or a leg the adapter could not
\* place: the decision is EXECUTION_FAILED and nothing is recorded.
LegsFail(t) ==
    /\ pc[t] = "legs"
    /\ Go(t, "idle", NoJob)
    /\ IF job[t].legs = {} THEN UNCHANGED seen ELSE Suffer({"handoff"})
    /\ UNCHANGED <<trade, tws, service>>

\* The runner records one trade, with the order and the plan of the first leg.
LegsDone(t) ==
    /\ pc[t] = "legs" /\ job[t].legs # {}
    /\ IF job[t].kept THEN Update(job[t].lead, [NoRecord EXCEPT !.status = "ENTRY_PENDING"])
                      ELSE UNCHANGED trade
    /\ Go(t, "idle", NoJob)
    /\ IF job[t].legs = {job[t].lead} THEN UNCHANGED seen ELSE Suffer({"handoff"})
    /\ UNCHANGED <<tws, service>>
-----------------------------------------------------------------------------
(* TradeReconciler.reconcile, over the records it has read.                 *)

Snapshot(then) == [NoJob EXCEPT !.snap = trade, !.todo = Recorded, !.then = then]

\* The page of trades reconciles; a tick, evaluate-exits and close-now
\* reconcile, exit and reconcile again.
Reconcile(t, then) ==
    /\ Arrives(t, {})
    /\ Go(t, "pass", Snapshot(then))
    /\ UNCHANGED <<trade, tws, service>>

\* Trade a of the pass is dealt with; and it is dealt with by writing r.
DoneWith(t, a) == [job[t] EXCEPT !.todo = @ \ {a}, !.snap[a] = NoRecord, !.trade = None]

Settles(t, a, r) ==
    /\ Update(a, r)
    /\ Go(t, "pass", DoneWith(t, a))
    /\ UNCHANGED <<tws, service, seen>>

\* Mutant: an entry that is over counts as filled.
EntryOver(t, a) ==
    /\ pc[t] = "pass" /\ a \in job[t].todo
    /\ job[t].snap[a].status = "ENTRY_PENDING"
    /\ Filled(a) \/ Ended(a)
    /\ Settles(t, a, [trade[a] EXCEPT !.status = "OPEN"])

EntryFilled(t, a) ==
    /\ pc[t] = "pass" /\ a \in job[t].todo
    /\ job[t].snap[a].status = "ENTRY_PENDING"
    /\ Filled(a)
    /\ Settles(t, a, [trade[a] EXCEPT !.status = "OPEN"])

Exiting(t, a) ==
    /\ pc[t] = "pass" /\ a \in job[t].todo
    /\ job[t].snap[a].status = "EXIT_PENDING"

ExitFilled(t, a) ==
    /\ Exiting(t, a)
    /\ Filled(job[t].snap[a].exit)
    /\ Settles(t, a, [trade[a] EXCEPT !.status = "CLOSED"])

Reopened(a) == [trade[a] EXCEPT !.status = "OPEN", !.exit = None, !.aged = FALSE]

\* Mutant: an exit that was refused fails the trade.
ExitEndedFails(t, a) ==
    /\ Exiting(t, a)
    /\ Ended(job[t].snap[a].exit)
    /\ Settles(t, a, [trade[a] EXCEPT !.status = "FAILED"])

ExitEnded(t, a) ==
    /\ Exiting(t, a)
    /\ Ended(job[t].snap[a].exit)
    /\ Settles(t, a, Reopened(a))

\* Mutant: the exit is tried again without cancelling the first.
RetryStale(t, a) ==
    /\ Exiting(t, a)
    /\ job[t].snap[a].aged
    /\ LET x == job[t].snap[a].exit
       IN  ~Filled(x) /\ ~Ended(x)
    /\ Go(t, "reopen", [job[t] EXCEPT !.trade = a])
    /\ UNCHANGED <<trade, tws, service, seen>>

\* Mutant: only an exit order that is still working is cancelled and retried.
CancelWorking(t, a) ==
    /\ Exiting(t, a)
    /\ job[t].snap[a].aged
    /\ LET x == job[t].snap[a].exit
       IN  /\ order[x].state = "working"
           /\ order' = [order EXCEPT ![x].state = "ended"]
           /\ reports' = reports \cup {x}
           /\ IF order[x].left < Lot THEN Suffer({"partial"}) ELSE UNCHANGED seen
    /\ Go(t, "reopen", [job[t] EXCEPT !.trade = a])
    /\ UNCHANGED <<trade, held, known, pos>>

\* An exit of which nothing was heard for a minute is cancelled first.  The
\* cancellation may come too late for the order, or take its time.
CancelStale(t, a) ==
    /\ Exiting(t, a)
    /\ job[t].snap[a].aged
    /\ LET x == job[t].snap[a].exit
       IN  /\ ~Filled(x) /\ ~Ended(x)
           /\ \/ /\ order[x].state = "working"
                 /\ order' = [order EXCEPT ![x].state = "ended"]
                 /\ reports' = reports \cup {x}
                 /\ IF order[x].left < Lot THEN Suffer({"partial"}) ELSE UNCHANGED seen
              \/ /\ order[x].state = "working"
                 /\ Suffer({"cancel"})
                 /\ UNCHANGED <<order, reports>>
              \/ /\ order[x].state # "working"
                 /\ IF order[x].state = "filled" THEN Suffer({"unheard"}) ELSE UNCHANGED seen
                 /\ UNCHANGED <<order, reports>>
    /\ Go(t, "reopen", [job[t] EXCEPT !.trade = a])
    /\ UNCHANGED <<trade, held, known, pos>>

\* The request to cancel was forwarded, and counts as confirmed.
Reopen(t) ==
    /\ pc[t] = "reopen"
    /\ Settles(t, job[t].trade, Reopened(job[t].trade))

\* What the pass leaves alone; and a cancellation that was not forwarded.
PassOver(t, a) ==
    /\ pc[t] = "pass" /\ a \in job[t].todo
    /\ LET r == job[t].snap[a]
       IN  /\ r.status = "ENTRY_PENDING" => ~Filled(a)
           /\ r.status = "EXIT_PENDING" => ~Filled(r.exit) /\ ~Ended(r.exit)
    /\ Go(t, "pass", DoneWith(t, a))
    /\ UNCHANGED <<trade, tws, service, seen>>

EndPass(t) ==
    /\ pc[t] = "pass" /\ job[t].todo = {}
    /\ job[t].then = "end"
    /\ Go(t, "idle", NoJob)
    /\ UNCHANGED <<trade, tws, service, seen>>
-----------------------------------------------------------------------------
(* AutonomousExitManager.                                                   *)

\* evaluate_open_trades reads the open trades, force_close_trade one of them.
Evaluate(t) ==
    /\ pc[t] = "pass" /\ job[t].todo = {}
    /\ job[t].then = "exits"
    /\ \E S \in {OpenTrades} \cup {{a} : a \in OpenTrades} :
         Go(t, "evaluate", [NoJob EXCEPT !.todo = S])
    /\ UNCHANGED <<trade, tws, service, seen>>

\* Target, stop, age, profit and emergency decide, if there is a price.
Stay(t, a) ==
    /\ pc[t] = "evaluate" /\ a \in job[t].todo
    /\ Go(t, "evaluate", [job[t] EXCEPT !.todo = @ \ {a}])
    /\ UNCHANGED <<trade, tws, service, seen>>

\* The exit is wanted, and the oversell guard compares it with the position.
Exit(t, a) ==
    /\ pc[t] = "evaluate" /\ a \in job[t].todo
    /\ LET s == SymbolOf[a]
           j == [job[t] EXCEPT !.todo = @ \ {a}]
       IN  IF pos[s] >= Lot
           THEN /\ Go(t, "sell", [j EXCEPT !.trade = a])
                /\ IF pos[s] # held[s] THEN Suffer({"lag"}) ELSE UNCHANGED seen
           ELSE /\ Go(t, "evaluate", j)
                /\ UNCHANGED seen
    /\ UNCHANGED <<trade, tws, service>>

\* The adapter raises, or the order is at the broker.
SellRaises(t) ==
    /\ pc[t] = "sell"
    /\ Go(t, "evaluate", [job[t] EXCEPT !.trade = None])
    /\ UNCHANGED <<trade, tws, service, seen>>

\* Mutant: one share more than the trade has.
SellMore(t, x) ==
    /\ pc[t] = "sell"
    /\ order[x].state = "none"
    /\ order' = [order EXCEPT ![x] = [state |-> "working", of |-> job[t].trade, left |-> Lot + 1]]
    /\ Go(t, "mark", [job[t] EXCEPT !.sell = x])
    /\ UNCHANGED <<trade, held, service, seen>>

Sell(t, x) ==
    /\ pc[t] = "sell"
    /\ order[x].state = "none"
    /\ order' = [order EXCEPT ![x] = [state |-> "working", of |-> job[t].trade, left |-> Lot]]
    /\ Go(t, "mark", [job[t] EXCEPT !.sell = x])
    /\ UNCHANGED <<trade, held, service, seen>>

MarkExitPending(t) ==
    /\ pc[t] = "mark"
    /\ Update(job[t].trade, [status |-> "EXIT_PENDING", exit |-> job[t].sell, aged |-> FALSE])
    /\ Go(t, "evaluate", [job[t] EXCEPT !.trade = None, !.sell = None])
    /\ UNCHANGED <<tws, service, seen>>

EndEvaluate(t) ==
    /\ pc[t] = "evaluate" /\ job[t].todo = {}
    /\ Go(t, "pass", Snapshot("end"))
    /\ UNCHANGED <<trade, tws, service, seen>>

\* The operator cancels the entry of an OPEN trade: the broker is asked to
\* cancel an order that has been filled, and the trade is written off.
CancelEntry(t, a) ==
    /\ Arrives(t, {"handoff"})
    /\ trade[a].status = "OPEN"
    /\ Go(t, "abandon", [NoJob EXCEPT !.trade = a])
    /\ UNCHANGED <<trade, tws, service>>

Abandon(t) ==
    /\ pc[t] = "abandon"
    /\ Update(job[t].trade, [trade[job[t].trade] EXCEPT !.status = "FAILED"])
    /\ Go(t, "idle", NoJob)
    /\ UNCHANGED <<tws, service, seen>>
-----------------------------------------------------------------------------
(* TWS, its callbacks, the clock and the process.                           *)

Side(o) == IF o \in Trades THEN 1 ELSE -1

Fill(o) ==
    /\ order[o].state = "working"
    /\ order' = [order EXCEPT ![o].left = @ - 1,
                              ![o].state = IF order[o].left = 1 THEN "filled" ELSE @]
    /\ held' = [held EXCEPT ![SymbolOf[order[o].of]] = @ + Side(o)]
    /\ reports' = IF order[o].left = 1 THEN reports \cup {o} ELSE reports
    /\ UNCHANGED <<trade, known, pos, threads, seen>>

\* Rejected, expired at the end of the day, or cancelled.
EndOrder(o) ==
    /\ order[o].state = "working"
    /\ order' = [order EXCEPT ![o].state = "ended"]
    /\ reports' = reports \cup {o}
    /\ IF o \in Exits /\ order[o].left < Lot THEN Suffer({"partial"}) ELSE UNCHANGED seen
    /\ UNCHANGED <<trade, held, known, pos, threads>>

OrderStatus(o) ==
    /\ o \in reports
    /\ reports' = reports \ {o}
    /\ known' = known \cup {o}
    /\ UNCHANGED <<trade, tws, pos, threads, seen>>

UpdatePortfolio(s) ==
    /\ pos[s] # held[s]
    /\ pos' = [pos EXCEPT ![s] = held[s]]
    /\ UNCHANGED <<trade, tws, reports, known, threads, seen>>

Age(a) ==
    /\ trade[a].status = "EXIT_PENDING" /\ ~trade[a].aged
    /\ Update(a, [trade[a] EXCEPT !.aged = TRUE])
    /\ UNCHANGED <<tws, service, threads, seen>>

\* Reports of before a restart are not repeated after it.
Restart ==
    /\ reports' = {} /\ known' = {}
    /\ pos' = [s \in Symbols |-> 0]
    /\ pc' = [t \in Threads |-> "idle"]
    /\ job' = [t \in Threads |-> NoJob]
    /\ IF Busy THEN Suffer({"crash"}) ELSE UNCHANGED seen
    /\ UNCHANGED <<trade, tws>>

Continue(t) ==
    \/ \E a \in Trades : BuyLeg(t, a)
    \/ LegsFail(t) \/ LegsDone(t)
    \/ \E a \in Trades : \/ EntryFilled(t, a) \/ ExitFilled(t, a) \/ ExitEnded(t, a)
                         \/ CancelStale(t, a) \/ PassOver(t, a)
                         \/ Stay(t, a) \/ Exit(t, a)
    \/ Reopen(t) \/ EndPass(t) \/ Evaluate(t)
    \/ SellRaises(t) \/ (\E x \in Exits : Sell(t, x))
    \/ MarkExitPending(t) \/ EndEvaluate(t) \/ Abandon(t)

Request(t) ==
    \/ RunOnce(t) \/ ExecutePaper(t)
    \/ \E then \in {"exits", "end"} : Reconcile(t, then)
    \/ \E a \in Trades : CancelEntry(t, a)

Next ==
    \/ \E t \in Threads : Request(t) \/ Continue(t)
    \/ \E o \in Orders : Fill(o) \/ EndOrder(o) \/ OrderStatus(o)
    \/ \E s \in Symbols : UpdatePortfolio(s)
    \/ \E a \in Trades : Age(a)
    \/ Restart

Spec == Init /\ [][Next]_vars

(* Each request goes on, trades are looked at again and again, minutes      *)
(* pass, a cancellation that is requested again and again is forwarded, and *)
(* restarts do not always come between it and the write that follows.       *)
FairSpec ==
    /\ Spec
    /\ \A t \in Threads : /\ WF_vars(Continue(t))
                          /\ SF_vars(Reconcile(t, "end"))
                          /\ SF_vars(\E a \in Trades : CancelStale(t, a))
                          /\ SF_vars(Reopen(t))
    /\ \A a \in Trades : WF_vars(Age(a))
-----------------------------------------------------------------------------
TypeOK ==
    /\ trade \in [Trades -> Records]
    /\ order \in [Orders -> Order]
    /\ held \in [Symbols -> Int]
    /\ reports \subseteq Orders /\ known \subseteq Orders
    /\ pos \in [Symbols -> Int]
    /\ pc \in [Threads -> Pc]
    /\ job \in [Threads -> Job]
    /\ seen \subseteq Hazards

(* A short position has a cause outside the code.  The guard compares an    *)
(* exit with the shares held, not with what other SELLs have still to sell, *)
(* so what keeps the account long is that an exit is cancelled before it is *)
(* sent again.  That fails when a pass works on records that are not        *)
(* current, when the process ends between a SELL and its record, when a     *)
(* cancellation is under way, and when the position is out of date.  An     *)
(* exit that is retried after it had sold a part, or all unheard of, finds  *)
(* nothing to sell unless another trade has shares of the symbol.           *)
Short(s)  == held[s] < 0
Shared(s) == \E a, b \in Recorded : a # b /\ SymbolOf[a] = s /\ SymbolOf[b] = s
ShortHasACause ==
    \A s \in Symbols : Short(s) =>
        \/ seen \cap {"overlap", "crash", "cancel", "lag"} # {}
        \/ seen \cap {"partial", "unheard"} # {} /\ Shared(s)

(* "The structural safety net that makes flipping a long into a SHORT       *)
(* impossible, even if duplicate exit orders are generated (e.g. a stale    *)
(* working order plus a retry)" (exit_manager.py:695-697).  The model       *)
(* violates it in each of the ways that ShortHasACause lists.               *)
NeverShort == \A s \in Symbols : ~Short(s)

(* The store tells the truth about the broker, whatever reports were lost   *)
(* and whichever passes wrote it from records that were out of date: an     *)
(* OPEN or exiting trade has been bought in full, a CLOSED one was sold in  *)
(* full (TradeReconciler.reconcile).                                        *)
Sold(a) == \E x \in Exits : order[x].of = a /\ order[x].state = "filled"
StoreIsTrue ==
    \A a \in Trades :
        /\ trade[a].status \in {"OPEN", "EXIT_PENDING"} => order[a].state = "filled"
        /\ trade[a].status = "CLOSED" => Sold(a)

(* Shares that were bought, or may still be, and were not sold in full      *)
(* belong to a trade somebody looks after, unless the process ended within  *)
(* a cycle, the engine was used without the runner, more legs were bought   *)
(* than the one the runner records, or the operator gave the trade up.      *)
Exposed(a) == (order[a].state = "working" \/ order[a].left < Lot) /\ ~Sold(a)
ExposureHasACause ==
    \A a \in Trades :
        Exposed(a) =>
            \/ trade[a].status \in Active
            \/ \E t \in Threads : pc[t] = "legs" /\ a \in job[t].legs
            \/ seen \cap {"crash", "handoff"} # {}

(* "Keeping the trade EXIT_PENDING forever hides the failure and blocks     *)
(* re-evaluation" (trade_reconciler.py:141-143): an exit is over at some    *)
(* time, by its fill or by being tried again, even if no report of it ever  *)
(* arrives.                                                                 *)
ExitResolves ==
    \A a \in Trades : trade[a].status = "EXIT_PENDING" ~> trade[a].status # "EXIT_PENDING"

=============================================================================
