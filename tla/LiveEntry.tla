------------------------------ MODULE LiveEntry ------------------------------
(***************************************************************************)
(* Live entries of the autonomous robot: how a run of AutonomousLiveRunner *)
(* turns a trade plan into a bracket order at the broker, and how the      *)
(* three durable logs it keeps (idempotency locks, trade store, order      *)
(* lifecycle) are brought back in line with the broker by every readiness  *)
(* check.                                                                  *)
(*                                                                         *)
(* A runner object is built per HTTP request and per worker tick, so two   *)
(* of them may be in progress at once; each owns its own IdempotencyStore  *)
(* (and its own threading.Lock) over one shared file.  A runner here is    *)
(* one such thread of control.  An "attempt" is one leg of a plan: the     *)
(* lifecycle record, the bracket at the broker and the trade record that   *)
(* come of it share the identity of the attempt.                           *)
(***************************************************************************)
EXTENDS Naturals, FiniteSets

CONSTANTS
    Runners,     \* threads of control that evaluate the gates
    Traders,     \* those of them that may also submit (run_once)
    Symbols,     \* ticker symbols
    Attempts,    \* bound: entry attempts available to one behaviour
    MaxOpen,     \* max_open_live_trades
    MaxPerDay,   \* max_live_trades_per_day
    Env,         \* what the environment is allowed to do, a set of Hazards
    None         \* no attempt, no symbol

(* "disconnect" the socket to TWS drops and may come back                  *)
(* "crash"      the web process dies and is started again                  *)
(* "exits"      the exit manager and the trade reconciler run as well      *)
(* "blind"      an exit may be sent for a trade whose entry fill was never *)
(*              recorded                                                   *)
(* "hand"       the operator sells a position in TWS by hand               *)
(* "late"       an entry may still be working, or its position still       *)
(*              unreported, when the five-minute grace has passed          *)
(* "disk"       an append to a log may fail, or the process die between    *)
(*              the two appends of a stale close                           *)
(* "audit"      the order audit file may be unwritable                     *)
(* "hasty"      the operator clears locks and orphans without looking      *)
Hazards == {"disconnect", "crash", "exits", "blind", "hand", "late", "disk", "audit",
            "hasty"}

ASSUME RunnersAssumption == Traders \subseteq Runners
ASSUME NoneAssumption == None \notin Attempts /\ None \notin Symbols
ASSUME LimitsAssumption == MaxOpen \in Nat /\ MaxPerDay \in Nat
ASSUME EnvAssumption == Env \subseteq Hazards

VARIABLES
    \* durable files
    locks,       \* autonomous_idempotency.jsonl, replayed: key of a symbol
    trade,       \* trade store, replayed: status of the attempt's trade
    priced,      \* trades whose entry_filled_price is recorded
    life,        \* order lifecycle of the entry order, replayed
    dupBlocked,  \* some lifecycle record ended as DUPLICATE_ORDER_BLOCKED
    symbol,      \* the symbol of an attempt, None while the attempt is unused
    \* the broker
    broker,      \* what the broker knows of the attempt's bracket
    aged,        \* trades older than the stale-position grace
    \* the TWS bridge and the ServiceManager caches
    connected,
    fillEvents,  \* execution snapshots not drained yet
    rejectedIds, \* entry orders reported rejected or cancelled, not drained
    exitIds,     \* bracket children reported filled, not drained
    shown,       \* attempts whose orders are in the open-order snapshot
    pos,         \* cached position of a symbol: the holdings it is made of
    statusLog,   \* FILLED statuses in the order cache
    \* local state of a runner
    pc,          \* where the runner is
    events,      \* fill events it drained
    todo,        \* trades it read and has yet to write
    keys,        \* locks it read and has yet to clear
    legs,        \* symbols of the basket it has yet to submit
    leg          \* the attempt it is working on

durable == <<locks, trade, priced, life, dupBlocked, symbol>>
bridge  == <<connected, fillEvents, rejectedIds, exitIds, shown, pos, statusLog>>
local   == <<pc, events, todo, keys, legs, leg>>
vars    == <<durable, broker, aged, bridge, local>>

TradeStatus == {"none", "OPEN", "EXIT_PENDING", "CLOSED", "FAILED"}
LifeState   == {"none", "PLANNED", "SUBMITTED", "FILLED", "CLOSED", "REJECTED",
                "BROKER_DISCONNECTED", "ORPHANED_ORDER", "RECONCILED"}
BrokerState == {"none", "working", "held", "flat", "refused"}
LockStatus  == {"CLEARED", "IN_FLIGHT", "SUBMITTED"}
Lock        == [status : LockStatus, trade : Attempts \cup {None}]
Event       == [role : {"entry", "exit"}, of : Attempts]
Pc          == {"idle", "ingest", "rejects", "exits", "stale", "orphan",
                "release", "preflight", "leg", "acquire", "planned", "execute", "audit",
                "submitted", "record", "mark"}

Fill(role, a) == [role |-> role, of |-> a]

\* An attempt is exposed while its entry rests in the book or its shares are held.
Exposed(a) == broker[a] \in {"working", "held"}

\* trade_store.py: OPEN trades are what list_open and count_open return (the
\* live runner records no ENTRY_PENDING trade); CLOSED and FAILED are final.
OpenTrades  == {a \in Attempts : trade[a] = "OPEN"}
Terminal(a) == trade[a] \in {"CLOSED", "FAILED"}
CountOpen   == Cardinality(OpenTrades)
CountToday  == Cardinality({a \in Attempts : trade[a] \notin {"none", "FAILED"}})

Active(s) == locks[s].status \in {"IN_FLIGHT", "SUBMITTED"}

\* _safe_record_order_lifecycle_transition: an OSError is logged, nothing else.
WriteLife(a, state) ==
    \/ life' = [life EXCEPT ![a] = state]
    \/ "disk" \in Env /\ UNCHANGED life

\* A reconciliation pass updates the trade, then its lifecycle; when the trade
\* cannot be written the pass goes on with the next one.
Settle(a, status, state) ==
    \/ trade' = [trade EXCEPT ![a] = status] /\ WriteLife(a, state)
    \/ "disk" \in Env /\ UNCHANGED <<trade, life>>

\* The idempotency store's clear, by key.
ClearLock(s) ==
    \/ locks' = [locks EXCEPT ![s] = [status |-> "CLEARED", trade |-> @.trade]]
    \/ "disk" \in Env /\ UNCHANGED locks

Init ==
    /\ locks = [s \in Symbols |-> [status |-> "CLEARED", trade |-> None]]
    /\ trade = [a \in Attempts |-> "none"]
    /\ priced = {}
    /\ life = [a \in Attempts |-> "none"]
    /\ dupBlocked = FALSE
    /\ symbol = [a \in Attempts |-> None]
    /\ broker = [a \in Attempts |-> "none"]
    /\ aged = {}
    /\ connected = TRUE
    /\ fillEvents = {} /\ rejectedIds = {} /\ exitIds = {} /\ shown = {}
    /\ pos = [s \in Symbols |-> {}]
    /\ statusLog = {}
    /\ pc = [r \in Runners |-> "idle"]
    /\ events = [r \in Runners |-> {}]
    /\ todo = [r \in Runners |-> {}]
    /\ keys = [r \in Runners |-> {}]
    /\ legs = [r \in Runners |-> {}]
    /\ leg = [r \in Runners |-> None]

-----------------------------------------------------------------------------
(* evaluate_gates: the five reconciliation passes, in their order.          *)

\* _ingest_broker_fill_events: the drain, under the bridge's lock.
DrainFills(r) ==
    /\ pc[r] = "idle"
    /\ pc' = [pc EXCEPT ![r] = "ingest"]
    /\ events' = [events EXCEPT ![r] = fillEvents]
    /\ fillEvents' = {}
    /\ UNCHANGED <<durable, broker, aged, connected, rejectedIds, exitIds, shown,
                   pos, statusLog, todo, keys, legs, leg>>

\* BrokerFillIngestor._apply_fill: an entry fill prices the trade and makes its
\* lifecycle FILLED whatever it was; an exit fill closes the trade.  A trade
\* that is unknown or FAILED matches no event.  A trade that cannot be written
\* ends the ingestion, and the events that were drained are gone.
ApplyFill(r) ==
    /\ pc[r] = "ingest"
    /\ \E e \in events[r] :
          \/ /\ trade[e.of] \in {"none", "FAILED"}
             /\ events' = [events EXCEPT ![r] = @ \ {e}]
             /\ UNCHANGED <<trade, priced, life>>
          \/ /\ trade[e.of] \notin {"none", "FAILED"}
             /\ events' = [events EXCEPT ![r] = @ \ {e}]
             /\ \/ /\ e.role = "entry"
                   /\ priced' = priced \cup {e.of}
                   /\ WriteLife(e.of, "FILLED")
                   /\ UNCHANGED trade
                \/ /\ e.role = "exit"
                   /\ trade' = [trade EXCEPT ![e.of] = "CLOSED"]
                   /\ WriteLife(e.of, "CLOSED")
                   /\ UNCHANGED priced
          \/ /\ "disk" \in Env
             /\ events' = [events EXCEPT ![r] = {}]
             /\ UNCHANGED <<trade, priced, life>>
    /\ UNCHANGED <<locks, dupBlocked, symbol, broker, aged, bridge, pc, todo, keys,
                   legs, leg>>

\* Mutant: an open trade whose orders are not in the snapshot passes for rejected.
DrainRejectsUnseen(r) ==
    /\ pc[r] = "ingest" /\ events[r] = {}
    /\ pc' = [pc EXCEPT ![r] = "rejects"]
    /\ todo' = [todo EXCEPT ![r] = {a \in OpenTrades : a \in rejectedIds \/ a \notin shown}]
    /\ rejectedIds' = {}
    /\ UNCHANGED <<durable, broker, aged, connected, fillEvents, exitIds, shown,
                   pos, statusLog, events, keys, legs, leg>>

\* _reconcile_rejected_trades: drain the rejected ids, find their open trades.
DrainRejects(r) ==
    /\ pc[r] = "ingest" /\ events[r] = {}
    /\ pc' = [pc EXCEPT ![r] = "rejects"]
    /\ todo' = [todo EXCEPT ![r] = OpenTrades \cap rejectedIds]
    /\ rejectedIds' = {}
    /\ UNCHANGED <<durable, broker, aged, connected, fillEvents, exitIds, shown,
                   pos, statusLog, events, keys, legs, leg>>

FailRejected(r) ==
    /\ pc[r] = "rejects"
    /\ \E a \in todo[r] :
          /\ todo' = [todo EXCEPT ![r] = @ \ {a}]
          /\ Settle(a, "FAILED", "REJECTED")
    /\ UNCHANGED <<locks, priced, dupBlocked, symbol, broker, aged, bridge, pc,
                   events, keys, legs, leg>>

\* _reconcile_filled_brackets: drain the filled ids, find the trades they exit.
DrainExits(r) ==
    /\ pc[r] = "rejects" /\ todo[r] = {}
    /\ pc' = [pc EXCEPT ![r] = "exits"]
    /\ todo' = [todo EXCEPT ![r] =
                   {a \in exitIds : trade[a] \in {"OPEN", "EXIT_PENDING"}}]
    /\ exitIds' = {}
    /\ UNCHANGED <<durable, broker, aged, connected, fillEvents, rejectedIds, shown,
                   pos, statusLog, events, keys, legs, leg>>

CloseFilled(r) ==
    /\ pc[r] = "exits"
    /\ \E a \in todo[r] :
          /\ todo' = [todo EXCEPT ![r] = @ \ {a}]
          /\ Settle(a, "CLOSED", "CLOSED")
    /\ UNCHANGED <<locks, priced, dupBlocked, symbol, broker, aged, bridge, pc,
                   events, keys, legs, leg>>

\* Mutant: the five-minute grace is forgotten.
ReadStaleNoGrace(r) ==
    /\ pc[r] = "exits" /\ todo[r] = {}
    /\ pc' = [pc EXCEPT ![r] = "stale"]
    /\ todo' = [todo EXCEPT ![r] = {a \in OpenTrades : pos[symbol[a]] = {}}]
    /\ UNCHANGED <<durable, broker, aged, bridge, events, keys, legs, leg>>

\* Mutant: only trades whose entry fill was seen can go stale.
ReadStalePriced(r) ==
    /\ pc[r] = "exits" /\ todo[r] = {}
    /\ pc' = [pc EXCEPT ![r] = "stale"]
    /\ todo' = [todo EXCEPT ![r] =
                   {a \in OpenTrades \cap aged \cap priced : pos[symbol[a]] = {}}]
    /\ UNCHANGED <<durable, broker, aged, bridge, events, keys, legs, leg>>

\* _reconcile_stale_positions: open trades past the grace whose symbol is not
\* in the cached positions.  It runs before, and whatever, the connection gate.
ReadStale(r) ==
    /\ pc[r] = "exits" /\ todo[r] = {}
    /\ pc' = [pc EXCEPT ![r] = "stale"]
    /\ todo' = [todo EXCEPT ![r] =
                   {a \in OpenTrades \cap aged : pos[symbol[a]] = {}}]
    /\ UNCHANGED <<durable, broker, aged, bridge, events, keys, legs, leg>>

CloseStale(r) ==
    /\ pc[r] = "stale"
    /\ \E a \in todo[r] :
          /\ todo' = [todo EXCEPT ![r] = @ \ {a}]
          /\ \/ /\ trade' = [trade EXCEPT ![a] = "CLOSED"]
                /\ pc' = [pc EXCEPT ![r] = "orphan"]
                /\ leg' = [leg EXCEPT ![r] = a]
             \/ "disk" \in Env /\ UNCHANGED <<trade, pc, leg>>
    /\ UNCHANGED <<locks, priced, life, dupBlocked, symbol, broker, aged, bridge,
                   events, keys, legs>>

\* The trade is closed already when its lifecycle says the order is an orphan.
RecordOrphan(r) ==
    /\ pc[r] = "orphan"
    /\ WriteLife(leg[r], "ORPHANED_ORDER")
    /\ pc' = [pc EXCEPT ![r] = "stale"]
    /\ leg' = [leg EXCEPT ![r] = None]
    /\ UNCHANGED <<locks, trade, priced, dupBlocked, symbol, broker, aged, bridge,
                   events, todo, keys, legs>>

\* Mutant: a lock that names no trade is released with the terminal ones.
ReleasableUntied(s) == /\ Active(s)
                       /\ locks[s].trade = None \/ Terminal(locks[s].trade)

\* _release_terminal_idempotency_locks: the locks whose trade has ended are
\* listed first and cleared, by key, one at a time afterwards.
Releasable(s) == /\ Active(s)
                 /\ locks[s].trade # None
                 /\ Terminal(locks[s].trade)

ReadLocks(r) ==
    /\ pc[r] = "stale" /\ todo[r] = {}
    /\ pc' = [pc EXCEPT ![r] = "release"]
    /\ keys' = [keys EXCEPT ![r] = {s \in Symbols : Releasable(s)}]
    /\ UNCHANGED <<durable, broker, aged, bridge, events, todo, legs, leg>>

ReleaseLock(r) ==
    /\ pc[r] = "release"
    /\ \E s \in keys[r] :
          /\ keys' = [keys EXCEPT ![r] = @ \ {s}]
          /\ ClearLock(s)
    /\ UNCHANGED <<trade, priced, life, dupBlocked, symbol, broker, aged, bridge,
                   pc, events, todo, legs, leg>>
-----------------------------------------------------------------------------
(* The gates, as far as they depend on the state modelled here.             *)

\* ProtectionVerifier: the stop of every open trade is an active broker order.
ProtectionConfirmed == OpenTrades \subseteq shown

\* RecoveryManager: every open trade is matched by a position of its size ...
PositionsMatch == \A a \in OpenTrades : \E b \in Attempts : pos[symbol[a]] = {b}

\* ... every working BUY the bridge knows of belongs to a trade or to a
\* lifecycle record that is not terminal ...
EntryOrdersKnown ==
    \A a \in shown : broker[a] = "working" =>
        \/ trade[a] = "OPEN"
        \/ life[a] \in {"SUBMITTED", "ORPHANED_ORDER"}

\* Mutant: orphans are the dashboard's business.
LifecyclesUnread == ~dupBlocked

\* ... no orphan awaits the operator, no duplicate was ever blocked ...
LifecyclesSettled ==
    /\ \A a \in Attempts : life[a] # "ORPHANED_ORDER"
    /\ ~dupBlocked

\* Mutant: a lock without a trade is taken for a warning.
LocksNamedSettled ==
    \A s \in Symbols : Active(s) /\ locks[s].trade # None =>
        trade[locks[s].trade] \in {"OPEN", "EXIT_PENDING"}

\* ... and every active lock names a recorded trade that has not ended.
LocksSettled ==
    \A s \in Symbols : Active(s) =>
        /\ locks[s].trade # None
        /\ trade[locks[s].trade] \in {"OPEN", "EXIT_PENDING"}

SafeToTrade == PositionsMatch /\ EntryOrdersKnown /\ LifecyclesSettled /\ LocksSettled

GatesReady == /\ connected
              /\ CountOpen < MaxOpen
              /\ CountToday < MaxPerDay
              /\ ProtectionConfirmed
              /\ SafeToTrade

\* A gate is closed (cash, market data, account and the like always may be), or
\* the caller only wanted the status, or the engine had no plan.
EndPass(r) ==
    /\ pc[r] = "release" /\ keys[r] = {}
    /\ pc' = [pc EXCEPT ![r] = "idle"]
    /\ UNCHANGED <<durable, broker, aged, bridge, events, todo, keys, legs, leg>>

\* Mutant: the gates alone are trusted with the size of the basket.
PlanUnbounded(r) ==
    /\ pc[r] = "release" /\ keys[r] = {}
    /\ r \in Traders
    /\ GatesReady
    /\ \E plans \in SUBSET Symbols \ {{}} : legs' = [legs EXCEPT ![r] = plans]
    /\ pc' = [pc EXCEPT ![r] = "preflight"]
    /\ UNCHANGED <<durable, broker, aged, bridge, events, todo, keys, leg>>

\* The gates are open and the engine returns a basket no larger than the slots
\* that were free when the gates were read.
Plan(r) ==
    /\ pc[r] = "release" /\ keys[r] = {}
    /\ r \in Traders
    /\ GatesReady
    /\ \E plans \in SUBSET Symbols \ {{}} :
          /\ Cardinality(plans) + CountOpen <= MaxOpen
          /\ Cardinality(plans) + CountToday <= MaxPerDay
          /\ legs' = [legs EXCEPT ![r] = plans]
    /\ pc' = [pc EXCEPT ![r] = "preflight"]
    /\ UNCHANGED <<durable, broker, aged, bridge, events, todo, keys, leg>>
-----------------------------------------------------------------------------
(* The legs of a basket.                                                    *)

\* What is left of the local state when a run returns.
Return(r) ==
    /\ pc' = [pc EXCEPT ![r] = "idle"]
    /\ legs' = [legs EXCEPT ![r] = {}]
    /\ leg' = [leg EXCEPT ![r] = None]

\* _duplicate_symbol_reason, and the lock acquire and the preflight look at.
Duplicate(s) == \/ \E a \in OpenTrades : symbol[a] = s
                \/ Active(s)

\* _block_duplicate_plan
BlockDuplicate == \/ dupBlocked' = TRUE
                  \/ "disk" \in Env /\ UNCHANGED dupBlocked

\* _preflight_duplicate_basket: one duplicate leg blocks the whole basket.
Preflight(r) ==
    /\ pc[r] = "preflight"
    /\ \/ /\ \E s \in legs[r] : Duplicate(s)
          /\ BlockDuplicate
          /\ Return(r)
       \/ /\ \A s \in legs[r] : ~Duplicate(s)
          /\ pc' = [pc EXCEPT ![r] = "leg"]
          /\ UNCHANGED <<dupBlocked, legs, leg>>
    /\ UNCHANGED <<locks, trade, priced, life, symbol, broker, aged, bridge,
                   events, todo, keys>>

\* _execute_one_live_plan begins: the duplicate check again, then the read half
\* of IdempotencyStore.acquire.
StartLeg(r) ==
    /\ pc[r] = "leg"
    /\ \E s \in legs[r] :
          \/ /\ Duplicate(s)
             /\ BlockDuplicate
             /\ Return(r)
             /\ UNCHANGED symbol
          \/ /\ ~Duplicate(s)
             /\ \E a \in Attempts :
                   /\ symbol[a] = None
                   /\ symbol' = [symbol EXCEPT ![a] = s]
                   /\ leg' = [leg EXCEPT ![r] = a]
             /\ pc' = [pc EXCEPT ![r] = "acquire"]
             /\ UNCHANGED <<dupBlocked, legs>>
    /\ UNCHANGED <<locks, trade, priced, life, broker, aged, bridge, events, todo,
                   keys>>

\* Mutant: the cleared lock of the symbol is reused, trade id and all.
AcquireLockReused(r) ==
    /\ pc[r] = "acquire"
    /\ \/ /\ locks' = [locks EXCEPT ![symbol[leg[r]]] =
                          [status |-> "IN_FLIGHT", trade |-> @.trade]]
          /\ pc' = [pc EXCEPT ![r] = "planned"]
          /\ UNCHANGED <<legs, leg>>
       \/ /\ Return(r)
          /\ UNCHANGED locks
    /\ UNCHANGED <<trade, priced, life, dupBlocked, symbol, broker, aged, bridge,
                   events, todo, keys>>

\* The write half of acquire: a second store over the same file may have
\* appended its own record in between.  If the write fails the run returns.
AcquireLock(r) ==
    /\ pc[r] = "acquire"
    /\ \/ /\ locks' = [locks EXCEPT ![symbol[leg[r]]] =
                          [status |-> "IN_FLIGHT", trade |-> None]]
          /\ pc' = [pc EXCEPT ![r] = "planned"]
          /\ UNCHANGED <<legs, leg>>
       \/ /\ Return(r)
          /\ UNCHANGED locks
    /\ UNCHANGED <<trade, priced, life, dupBlocked, symbol, broker, aged, bridge,
                   events, todo, keys>>

\* Every failure before the trade is recorded ends the same way: the lock of
\* the symbol is cleared, the lifecycle says why, the run returns.
GiveUp(r, state) ==
    /\ ClearLock(symbol[leg[r]])
    /\ WriteLife(leg[r], state)
    /\ Return(r)
    /\ UNCHANGED <<trade, priced, dupBlocked, symbol, aged, events, todo, keys>>

\* PLANNED must be on disk before anything is sent; an OSError gives up.
RecordPlanned(r) ==
    /\ pc[r] = "planned"
    /\ \/ /\ life' = [life EXCEPT ![leg[r]] = "PLANNED"]
          /\ pc' = [pc EXCEPT ![r] = "execute"]
          /\ UNCHANGED <<locks, trade, priced, dupBlocked, symbol, aged, events,
                         todo, keys, legs, leg>>
       \/ GiveUp(r, "none")
    /\ UNCHANGED <<broker, bridge>>

\* OrderExecutor.execute_signal: a safety check refuses, or a check or an
\* adapter raises before anything is sent.
ExecuteRefused(r) ==
    /\ pc[r] = "execute"
    /\ \E state \in {"REJECTED", "BROKER_DISCONNECTED"} : GiveUp(r, state)
    /\ UNCHANGED <<broker, bridge>>

\* OrderExecutor._place_order: the bracket is with the broker.
PlaceBracket(r) ==
    /\ pc[r] = "execute"
    /\ connected
    /\ broker' = [broker EXCEPT ![leg[r]] = "working"]
    /\ pc' = [pc EXCEPT ![r] = "audit"]
    /\ UNCHANGED <<durable, aged, bridge, events, todo, keys, legs, leg>>

\* The audit line is written inside the try block that places the order.
AuditWritten(r) ==
    /\ pc[r] = "audit"
    /\ pc' = [pc EXCEPT ![r] = "submitted"]
    /\ UNCHANGED <<durable, broker, aged, bridge, events, todo, keys, legs, leg>>

AuditFailed(r) ==
    /\ pc[r] = "audit"
    /\ "audit" \in Env
    /\ GiveUp(r, "REJECTED")
    /\ UNCHANGED <<broker, bridge>>

\* The evidence of the submission: lifecycle, then trade, then lock.  Only a
\* trade that cannot be recorded ends the run, with an exception.
RecordSubmitted(r) ==
    /\ pc[r] = "submitted"
    /\ WriteLife(leg[r], "SUBMITTED")
    /\ pc' = [pc EXCEPT ![r] = "record"]
    /\ UNCHANGED <<locks, trade, priced, dupBlocked, symbol, broker, aged, bridge,
                   events, todo, keys, legs, leg>>

\* Mutant: the trade waits for its fill, as the paper runner's does.
RecordTradePending(r) ==
    /\ pc[r] = "record"
    /\ trade' = [trade EXCEPT ![leg[r]] = "ENTRY_PENDING"]
    /\ pc' = [pc EXCEPT ![r] = "mark"]
    /\ UNCHANGED <<locks, priced, life, dupBlocked, symbol, broker, aged, bridge,
                   events, todo, keys, legs, leg>>

\* Mutant: a trade that cannot be recorded is handled like a refusal.
RecordTradeGivesUp(r) ==
    /\ pc[r] = "record"
    /\ \/ /\ trade' = [trade EXCEPT ![leg[r]] = "OPEN"]
          /\ pc' = [pc EXCEPT ![r] = "mark"]
          /\ UNCHANGED <<locks, legs, leg>>
       \/ "disk" \in Env /\ Return(r) /\ ClearLock(symbol[leg[r]]) /\ UNCHANGED trade
    /\ UNCHANGED <<priced, life, dupBlocked, symbol, broker, aged, bridge,
                   events, todo, keys>>

\* _record_trade, whose OSError nobody catches.
RecordTrade(r) ==
    /\ pc[r] = "record"
    /\ \/ /\ trade' = [trade EXCEPT ![leg[r]] = "OPEN"]
          /\ pc' = [pc EXCEPT ![r] = "mark"]
          /\ UNCHANGED <<legs, leg>>
       \/ "disk" \in Env /\ Return(r) /\ UNCHANGED trade
    /\ UNCHANGED <<locks, priced, life, dupBlocked, symbol, broker, aged, bridge,
                   events, todo, keys>>

\* mark_submitted, and on to the next leg of the basket if there is one.
MarkSubmitted(r) ==
    LET s == symbol[leg[r]]
        rest == legs[r] \ {s}
    IN
    /\ pc[r] = "mark"
    /\ \/ locks' = [locks EXCEPT ![s] = [status |-> "SUBMITTED", trade |-> leg[r]]]
       \/ "disk" \in Env /\ UNCHANGED locks
    /\ pc' = [pc EXCEPT ![r] = IF rest = {} THEN "idle" ELSE "leg"]
    /\ legs' = [legs EXCEPT ![r] = rest]
    /\ leg' = [leg EXCEPT ![r] = None]
    /\ UNCHANGED <<trade, priced, life, dupBlocked, symbol, broker, aged, bridge,
                   events, todo, keys>>
-----------------------------------------------------------------------------
(* Exits the robot makes itself, beside the bracket's children.             *)

EntryFillKnown(a) == a \in priced \/ Fill("entry", a) \in statusLog

\* live_close_now and live_evaluate_exits, between their two reconciliations: a
\* SELL for an open trade whose symbol is among the cached positions, and
\* EXIT_PENDING.  The fill of the entry need not be recorded: the exit manager
\* goes by the limit price then.
SubmitExit(a) ==
    /\ "exits" \in Env
    /\ a \in priced \/ "blind" \in Env
    /\ connected
    /\ trade[a] = "OPEN"
    /\ pos[symbol[a]] # {}
    /\ trade' = [trade EXCEPT ![a] = "EXIT_PENDING"]
    /\ UNCHANGED <<locks, priced, life, dupBlocked, symbol, broker, aged, bridge, local>>

\* TradeReconciler.reconcile for one trade.  An exit pending trade without an entry
\* price is FAILED.  A cancel request that was merely forwarded counts as a
\* confirmed cancellation, so an unconfirmed exit may be reverted whatever has
\* become of it.
ReconcileTrade(a) ==
    /\ "exits" \in Env
    /\ \/ /\ trade[a] = "OPEN"
          /\ a \notin priced /\ EntryFillKnown(a)
          /\ priced' = priced \cup {a}
          /\ UNCHANGED trade
       \/ /\ trade[a] = "EXIT_PENDING"
          /\ a \notin priced
          /\ trade' = [trade EXCEPT ![a] = "FAILED"]
          /\ UNCHANGED priced
       \/ /\ trade[a] = "EXIT_PENDING"
          /\ a \in priced /\ Fill("exit", a) \in statusLog
          /\ trade' = [trade EXCEPT ![a] = "CLOSED"]
          /\ UNCHANGED priced
       \/ /\ trade[a] = "EXIT_PENDING"
          /\ a \in priced /\ Fill("exit", a) \notin statusLog
          /\ connected \/ broker[a] = "held"
          /\ trade' = [trade EXCEPT ![a] = "OPEN"]
          /\ UNCHANGED priced
    /\ UNCHANGED <<locks, life, dupBlocked, symbol, broker, aged, bridge, local>>
-----------------------------------------------------------------------------
(* The broker, and its callbacks into the bridge.  A callback that comes while
   the socket is down is lost: nothing asks for it again on reconnection.   *)

Report(e) == /\ fillEvents' = IF connected THEN fillEvents \cup {e} ELSE fillEvents
             /\ statusLog' = IF connected THEN statusLog \cup {e} ELSE statusLog

EntryFills(a) ==
    /\ broker[a] = "working"
    /\ broker' = [broker EXCEPT ![a] = "held"]
    /\ Report(Fill("entry", a))
    /\ UNCHANGED <<durable, aged, connected, rejectedIds, exitIds, shown, pos, local>>

\* Rejected, or cancelled before any fill: error codes 201, 202 and the like.
EntryRefused(a) ==
    /\ broker[a] = "working"
    /\ broker' = [broker EXCEPT ![a] = "refused"]
    /\ rejectedIds' = IF connected THEN rejectedIds \cup {a} ELSE rejectedIds
    /\ shown' = shown \ {a}
    /\ UNCHANGED <<durable, aged, connected, fillEvents, exitIds, pos, statusLog,
                   local>>

\* The target or the stop fills, or the SELL of an exit pending trade does; only
\* a child's id can match a trade in _reconcile_filled_brackets.
ExitFills(a) ==
    /\ broker[a] = "held"
    /\ broker' = [broker EXCEPT ![a] = "flat"]
    /\ Report(Fill("exit", a))
    /\ shown' = shown \ {a}
    /\ \/ exitIds' = IF connected THEN exitIds \cup {a} ELSE exitIds
       \/ trade[a] = "EXIT_PENDING" /\ UNCHANGED exitIds
    /\ UNCHANGED <<durable, aged, connected, rejectedIds, pos, local>>

\* The operator sells the shares and cancels the bracket in TWS.
ManualExit(a) ==
    /\ "hand" \in Env
    /\ broker[a] = "held"
    /\ broker' = [broker EXCEPT ![a] = "flat"]
    /\ shown' = shown \ {a}
    /\ UNCHANGED <<durable, aged, connected, fillEvents, rejectedIds, exitIds, pos,
                   statusLog, local>>

\* openOrder
OpenOrder(a) ==
    /\ connected
    /\ Exposed(a) /\ a \notin shown
    /\ shown' = shown \cup {a}
    /\ UNCHANGED <<durable, broker, aged, connected, fillEvents, rejectedIds, exitIds,
                   pos, statusLog, local>>

Holdings(s) == {a \in Attempts : symbol[a] = s /\ broker[a] = "held"}

\* updatePortfolio, through ServiceManager.update_position / remove_position
UpdatePortfolio(s) ==
    /\ connected
    /\ pos[s] # Holdings(s)
    /\ pos' = [pos EXCEPT ![s] = Holdings(s)]
    /\ UNCHANGED <<durable, broker, aged, connected, fillEvents, rejectedIds, exitIds,
                   shown, statusLog, local>>

\* Five minutes have passed since the entry.  Unless "late" is in Env the broker
\* has settled the entry by then and, on a live socket, reported the position.
GraceExpires(a) ==
    /\ trade[a] = "OPEN" /\ a \notin aged
    /\ "late" \in Env \/ /\ broker[a] # "working"
                         /\ broker[a] = "held" => ~connected \/ a \in pos[symbol[a]]
    /\ aged' = aged \cup {a}
    /\ UNCHANGED <<durable, broker, bridge, local>>

\* The socket is lost: the bridge and its undrained sets go with it, the cached
\* positions are cleared, the order cache is kept.
LoseSocket ==
    /\ connected' = FALSE
    /\ fillEvents' = {} /\ rejectedIds' = {} /\ exitIds' = {} /\ shown' = {}
    /\ pos' = [s \in Symbols |-> {}]

Disconnect ==
    /\ "disconnect" \in Env
    /\ connected
    /\ LoseSocket
    /\ UNCHANGED <<durable, broker, aged, statusLog, local>>

Connect ==
    /\ ~connected
    /\ connected' = TRUE
    /\ UNCHANGED <<durable, broker, aged, fillEvents, rejectedIds, exitIds, shown,
                   pos, statusLog, local>>

\* The process dies: only the files and the broker survive.
Crash ==
    /\ "crash" \in Env
    /\ "disk" \in Env \/ \A r \in Runners : pc[r] # "orphan"
    /\ LoseSocket
    /\ statusLog' = {}
    /\ pc' = [r \in Runners |-> "idle"]
    /\ events' = [r \in Runners |-> {}]
    /\ todo' = [r \in Runners |-> {}]
    /\ keys' = [r \in Runners |-> {}]
    /\ legs' = [r \in Runners |-> {}]
    /\ leg' = [r \in Runners |-> None]
    /\ UNCHANGED <<durable, broker, aged>>
-----------------------------------------------------------------------------
(* The operator.                                                            *)

\* POST /live/acknowledge-orphaned, "after manually confirming".
Acknowledge(a) ==
    /\ life[a] = "ORPHANED_ORDER"
    /\ "hasty" \in Env \/ ~Exposed(a)
    /\ life' = [life EXCEPT ![a] = "RECONCILED"]
    /\ UNCHANGED <<locks, trade, priced, dupBlocked, symbol, broker, aged, bridge,
                   local>>

\* clear_idempotency_lock: a lock no run is working under, once the broker has
\* nothing of the symbol.
OperatorClear(s) ==
    /\ Active(s)
    /\ \A r \in Runners : pc[r] = "idle"
    /\ "hasty" \in Env \/ \A a \in Attempts : symbol[a] = s => ~Exposed(a)
    /\ ClearLock(s)
    /\ UNCHANGED <<trade, priced, life, dupBlocked, symbol, broker, aged, bridge,
                   local>>
-----------------------------------------------------------------------------
Reconcile(r) ==
    \/ DrainFills(r) \/ ApplyFill(r) \/ DrainRejects(r) \/ FailRejected(r)
    \/ DrainExits(r) \/ CloseFilled(r) \/ ReadStale(r) \/ CloseStale(r)
    \/ RecordOrphan(r) \/ ReadLocks(r) \/ ReleaseLock(r) \/ EndPass(r)

RunOnce(r) ==
    \/ Plan(r) \/ Preflight(r) \/ StartLeg(r) \/ AcquireLock(r)
    \/ RecordPlanned(r) \/ ExecuteRefused(r) \/ PlaceBracket(r)
    \/ AuditWritten(r) \/ AuditFailed(r)
    \/ RecordSubmitted(r) \/ RecordTrade(r) \/ MarkSubmitted(r)

Broker == \E a \in Attempts :
    EntryFills(a) \/ EntryRefused(a) \/ ExitFills(a) \/ ManualExit(a)

Callbacks == \/ \E a \in Attempts : OpenOrder(a)
             \/ \E s \in Symbols : UpdatePortfolio(s)

Exits == \E a \in Attempts : SubmitExit(a) \/ ReconcileTrade(a)

Operator == \/ \E a \in Attempts : Acknowledge(a)
            \/ \E s \in Symbols : OperatorClear(s)

Time == \E a \in Attempts : GraceExpires(a)

Next == \/ \E r \in Runners : Reconcile(r) \/ RunOnce(r)
        \/ Exits \/ Broker \/ Callbacks \/ Time \/ Operator
        \/ Disconnect \/ Connect \/ Crash

Spec == Init /\ [][Next]_vars

\* Readiness is checked for ever (dashboard polls and the lifecycle worker call
\* evaluate_gates on a timer) and each check runs to its end; positions are
\* pushed by TWS; time passes.  Nothing is promised of the broker, the operator
\* or the connection.
Fairness == /\ \A r \in Runners : WF_vars(Reconcile(r)) /\ WF_vars(RunOnce(r))
            /\ \A s \in Symbols : WF_vars(UpdatePortfolio(s))
            /\ \A a \in Attempts : WF_vars(GraceExpires(a))

FairSpec == Spec /\ Fairness
-----------------------------------------------------------------------------
TypeOK ==
    /\ locks \in [Symbols -> Lock]
    /\ trade \in [Attempts -> TradeStatus]
    /\ priced \subseteq Attempts
    /\ life \in [Attempts -> LifeState]
    /\ dupBlocked \in BOOLEAN
    /\ symbol \in [Attempts -> Symbols \cup {None}]
    /\ broker \in [Attempts -> BrokerState]
    /\ aged \subseteq Attempts
    /\ connected \in BOOLEAN
    /\ fillEvents \subseteq Event
    /\ rejectedIds \subseteq Attempts
    /\ exitIds \subseteq Attempts
    /\ shown \subseteq Attempts
    /\ pos \in [Symbols -> SUBSET Attempts]
    /\ statusLog \subseteq Event
    /\ pc \in [Runners -> Pc]
    /\ events \in [Runners -> SUBSET Event]
    /\ todo \in [Runners -> SUBSET Attempts]
    /\ keys \in [Runners -> SUBSET Symbols]
    /\ legs \in [Runners -> SUBSET Symbols]
    /\ leg \in [Runners -> Attempts \cup {None}]

\* One live entry per symbol: "No duplicate order for the same signal/basket
\* leg" (docs/AUTONOMOUS_TRADING_SYSTEM_SPEC.md:136).  Two attempts on a symbol
\* never have an entry order working or shares held at the broker together,
\* through crashes, reconnections, lost callbacks and the operator's repairs.
NoDuplicateLiveEntry ==
    \A a, b \in Attempts :
        a # b /\ Exposed(a) /\ Exposed(b) => symbol[a] # symbol[b]

\* Whatever the broker still has of the robot is covered by something that stops
\* the next entry on the symbol: an active lock not tied to another trade, or an
\* orphan (recorded, or about to be) that keeps every gate closed.
ExposureIsCovered ==
    \A a \in Attempts : Exposed(a) =>
        \/ life[a] = "ORPHANED_ORDER"
        \/ \E r \in Runners : pc[r] = "orphan" /\ leg[r] = a
        \/ /\ Active(symbol[a])
           /\ locks[symbol[a]].trade \in {None, a}
           /\ ~Terminal(a)

\* max_open_live_trades bounds the positions and working entries at the broker,
\* not just the OPEN records of the store.
MaxOpenRespected ==
    Cardinality({a \in Attempts : Exposed(a)}) <= MaxOpen

\* "Flip OPEN trades whose symbol the broker no longer holds"
\* (autonomous_live_runner.py:1588): a trade is closed as stale only when the
\* broker has neither its shares nor its entry order.
StaleCloseIsFlat ==
    [][\A r \in Runners :
          pc[r] = "stale" /\ pc'[r] = "orphan" => ~Exposed(leg'[r])]_vars

\* FAILED means the order "never entered the book" (autonomous_live_runner.py:
\* 1350): no trade the broker holds shares of is ever marked FAILED.
FailedHoldsNothing ==
    \A a \in Attempts : trade[a] = "FAILED" => broker[a] # "held"

\* The lock of a trade that is CLOSED or FAILED is cleared without a look at the
\* broker ("trade terminal", autonomous_live_runner.py:1314): nothing must be left
\* there of a trade that the store says has ended.
EndedTradesAreFlat ==
    \A a \in Attempts : Terminal(a) => ~Exposed(a)

\* "so a stranded record never blocks future autonomous trades"
\* (autonomous_live_runner.py:518-521): once the broker is done with an attempt,
\* its trade does not stay open for ever, even if every callback was lost.
StrandedTradeSettles ==
    \A a \in Attempts :
        trade[a] = "OPEN" /\ ~Exposed(a) ~> trade[a] # "OPEN"

\* The promise of EntrySlots: the slot of a symbol is held by the attempt that is
\* exposed on it, and an attempt is sent to the broker once, whatever is retried,
\* restarted or reconciled.
Slots == INSTANCE EntrySlots WITH
    holder <- [s \in Symbols |->
                  IF \E a \in Attempts : symbol[a] = s /\ Exposed(a)
                  THEN CHOOSE a \in Attempts : symbol[a] = s /\ Exposed(a)
                  ELSE None],
    spent <- {a \in Attempts : broker[a] # "none"}
ImplementsEntrySlots == Slots!Spec

=============================================================================
