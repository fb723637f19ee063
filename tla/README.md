# Specifications of tws_robot

TLA+ models of the trading robot in this repository, the TLC configurations
that check them on small instances, and TLAPS proofs of what holds on every
instance. The code is the reference: a definition names, in `PROJECT.json`
under `map`, the lines it stands for.

## 1. The system

The robot is a Flask process that talks to one TWS (Interactive Brokers)
session. Threads meet in it: HTTP request threads, the background lifecycle
worker, the ibapi reader thread that delivers broker callbacks. They share
in-memory caches, append-only JSONL logs under `data/` and a small database.

| Component | State it keeps | Operations | What makes it hard | What it must get right | Module |
|---|---|---|---|---|---|
| Live entry path (`autonomous_live_runner`, `live_basket_patch`) | none of its own: built per request over shared files | `evaluate_gates` (five reconciliation passes, then the gates), `run_once` (duplicate preflight, one bracket per leg, evidence writes) | several runners in progress at once; an order is sent in the middle of a series of durable writes | no second live entry on a symbol; everything at the broker is remembered; the limit on open trades | `LiveEntry` |
| Idempotency store (`idempotency`) | one lock per key in a log | `acquire`, `mark_submitted`, `clear`, replay | its mutex belongs to the object, the file does not | a key is acquired once | `LiveEntry` |
| Trade store, order lifecycle log (`trade_store`, `order_lifecycle`) | snapshot and transition logs | record, update, list | a later append overwrites whatever was there | the logs agree with the broker in the end | `LiveEntry`, `PaperTrades` |
| Fill ingestion, recovery, protection (`broker_fill_ingestor`, `recovery_manager`, `protection_verifier`) | none | apply drained events; classify mismatches | events arrive late or never | an inconsistent state keeps the gates closed | `LiveEntry` |
| Exits (`exit_manager`, `trade_reconciler`) | none | mark, send, confirm, revert an exit | works on the same trades as the runner's passes, from records read before | no trade is written off while shares are held; nothing is sold twice | `LiveEntry` (statuses), `PaperTrades` (shares) |
| TWS bridge and `ServiceManager` | sockets, drained sets, caches, connection and trading state | ibapi callbacks, drains, connect and disconnect | callbacks interleave with everything; a socket that drops reports it twice; nothing is asked for again after a reconnection | drained facts are true facts; the connection state is the socket's | `LiveEntry`, `TradingDesk` |
| Order executor (`order_executor`) | order history, audit file | `execute_signal`, `validate_manual_order` | the order is sent inside a `try` that goes on to write files | a rejection means nothing was sent | `LiveEntry`, `TradingDesk` |
| Session control (`api_autonomous`, `autonomous_mode`, `continuous_supervisor`, `lifecycle_worker`) | mode, supervisor pause and cadence, worker thread, emergency marker | activate, halt, emergency stop and reset, status poll, worker tick | every handler may run in the middle of any other | one cycle at a time; a stop stops; one worker | `LiveSession` |
| Opening-range breakout (`orb_*`, `api_opening_range`) | strategies and sessions in a file; proposals, executor trades, intraday trades in memory | save, arm, propose, execute-paper, monitor, close, emergency stop | four objects with locks of their own; a request calls them one after the other | what is armed may be; a proposal is executed once, within the cap; the stop flattens | `OrbSession` |
| Paper runner and engine (`autonomous_paper_runner`, `autonomous_engine`) | paper trade store | buy a basket, reconcile, evaluate exits | orders placed before they are recorded; exits retried | never short; everything bought is looked after | `PaperTrades` |
| Connection, emergency stop and manual orders of the web application (`services`, `api_connection`, `api_emergency`, `api_orders`) | connection, trading state, emergency flag and file | connect, disconnect, halt, resume, submit | reader threads and requests change the same fields | a halt stays; orders only in the environment that is connected | `TradingDesk` |
| Strategies of the web application (`strategy_registry`, `services`, `strategies/`) | registry of instances, a table of running states | create, start, stop, halt, restore after a restart | the registry is dropped whenever the connection changes | nothing runs twice; what is halted stays stopped | `StrategyDesk` |
| Order manager, event bus, rate limiter | records, subscriptions, windows | | | | none |
| Capital promotion, strategy lifecycle, risk controls | stages, metrics, levels | promote, retire, block | ordering of evidence and decisions | a stage is only reached through its gates | none |
| Evidence, market data, backtest, data pipeline, pages, AI, scripts, ibapi | | | numeric, I/O, presentation or vendored | | none |

Interactions: the routes build a runner per request (`_build_live_runner`) and
pass it providers that read the bridge and the service caches; the runner calls
the executor, the executor the bridge, the bridge TWS; TWS answers through
callbacks that fill the bridge's sets; the next `evaluate_gates`, in any thread,
drains them and rewrites the logs. `ServiceManager` owns the bridge and the
strategy registry, and drops both when the connection changes; the halt of the
web application goes through its risk manager and its registry, the emergency
stops of the live session and of the opening-range desk through state of their own.

## 2. Plan

In order of what can lose money, and each module so that it can be proved about
(constants with named assumptions, one action per operation, no recursive
operators).

| | Module | Subject | State |
|---|---|---|---|
| 1 | `LiveEntry`, abstract `EntrySlots` | from a plan to a bracket at the broker and back: locks, trades, lifecycles, reconciliation, exits | done, proved |
| 2 | `LiveSession` | who may run a cycle: mode, worker, supervisor, polls, halt, emergency stop and reset; its `Run` stands for a `RunOnce` of `LiveEntry` | done, proved |
| 3 | `OrbSession` | arming, proposals, execution, intraday exits and the emergency stop of the opening-range desk | done, proved |
| 4 | `PaperTrades` | paper trades in shares: partial fills, lost reports, retried exits, the oversell guard | done, proved |
| 5 | `TradingDesk` | connections, trading state, halt, resume, manual orders | done, proved |
| 6 | `StrategyDesk` | registries, instances, the rows that restore them, the halt that stops them | done, proved |
| | bracket in shares | the exit manager's SELL against the bracket's own children, a cancellation after a partial fill of a live entry | left out: it needs a broker of three linked orders for each attempt, which `LiveEntry` cannot hold beside its stores |
| | order manager, rate limiter | | left out: the web application does not use the first; the second is a window over the clock |
| | promotion ladders, risk levels | | left out: sequential functions of evidence, with no second actor |

What could follow: an invariant of `LiveEntry` for a socket that drops under several
runners, and a bracket in shares that refines the `working`, `held` and `flat` of
`LiveEntry`.

## 3. LiveEntry

`LiveEntry` is one state machine for the runner, its stores, the bridge and the
broker, because every property worth having relates at least three of them.

| Variable | Code |
|---|---|
| `locks` | `data/autonomous_idempotency.jsonl`, replayed by `IdempotencyStore` |
| `trade`, `priced` | the live trade store: status, `entry_filled_price` known |
| `life`, `dupBlocked` | the order lifecycle log: the entry order's record; a `DUPLICATE_ORDER_BLOCKED` one |
| `broker`, `aged` | TWS: the bracket is working, held, flat or refused; five minutes have passed |
| `fillEvents`, `rejectedIds`, `exitIds`, `shown` | sets and snapshots of `TWSBridge` |
| `pos`, `statusLog`, `connected` | caches of `ServiceManager` |
| `pc`, `events`, `todo`, `keys`, `legs`, `leg` | locals of `evaluate_gates` and `_basket_aware_run_once` in one thread |

A *runner* is a thread that evaluates the gates (poll, worker tick or request),
a *trader* one that may go on to submit. An *attempt* is one leg of one plan;
lifecycle, bracket and trade record of a leg share its identity, and the bound on
attempts bounds how often a behaviour may enter. A basket is a set of distinct
symbols.

| Actions | Code |
|---|---|
| `DrainFills`, `ApplyFill` | `_ingest_broker_fill_events`, `BrokerFillIngestor.ingest` |
| `DrainRejects`, `FailRejected` | `_reconcile_rejected_trades` |
| `DrainExits`, `CloseFilled` | `_reconcile_filled_brackets` |
| `ReadStale`, `CloseStale`, `RecordOrphan` | `_reconcile_stale_positions` |
| `ReadLocks`, `ReleaseLock` | `_release_terminal_idempotency_locks` |
| `EndPass`, `Plan` | the gates, and the planner's answer |
| `Preflight`, `StartLeg`, `AcquireLock`, `RecordPlanned` | `_preflight_duplicate_basket`, `_execute_one_live_plan` up to the submission |
| `ExecuteRefused`, `PlaceBracket`, `AuditWritten`, `AuditFailed` | `OrderExecutor.execute_signal`, `_place_order` |
| `RecordSubmitted`, `RecordTrade`, `MarkSubmitted` | the evidence after the submission |
| `SubmitExit`, `ReconcileTrade` | exit manager, close-now, trade reconciler |
| `EntryFills`, `EntryRefused`, `ExitFills`, `ManualExit`, `OpenOrder`, `UpdatePortfolio` | TWS, and the callbacks it makes (external) |
| `Disconnect`, `Connect`, `Crash`, `GraceExpires`, `Acknowledge`, `OperatorClear` | connection, process, clock, operator |

Each append to a file and each drain of the bridge is a step of its own; what is
read before a step and used in it is in a local variable. The exception is `SubmitExit`,
which reads, sells and marks at once: `PaperTrades` takes these three apart, on the same
exit manager. It sends an exit without a recorded entry fill only in an environment with
`blind`. What is left out:
dry run (a preview writes nothing the gates read), quantities, prices, profit and
cash arithmetic, market-data and profitability gates. All of these can only refuse,
and `EndPass` lets any pass end in a refusal.

## 4. LiveSession

| Variable | Code |
|---|---|
| `session` | `AutonomousModeState.is_on` and `trading_cycle` as one value |
| `dry`, `counted`, `mine` | `dry_run`; `cycles_started > 0`; the trades entered since `activated_at` |
| `confirmed` | a `LiveTradingConfirmation` in `app.config` |
| `trade` | the live trade store: open, over (closed or not entered), failed |
| `marker` | the `EMERGENCY_STOP` file |
| `pausedBy`, `eligible`, `holder` | the supervisor's pause reason, cadence and non-overlap lock |
| `faulted` | history, for `FaultsStay`: a fault paused it since the last resume |
| `handle`, `stop` | the worker in `app.config`, its stop event |
| `pc`, `job` | where a thread is, and its locals; `job.dry` is history for `DryRunSendsNothing` |

Threads are workers, pollers (`GET /live/status`) and operators (one request at a
time each). `Route` to `Advance` are `_supervised_live_lifecycle_tick`,
`ContinuousSupervisor.run_cycle`, `_live_lifecycle_tick` and
`_maybe_advance_live_lifecycle`; `Cycle`, `Run`, `Complete` are
`_run_next_live_cycle`; `Activate`, `TurnOn`, `Start`, `Spawn` are the two
activation endpoints and `_start_lifecycle_worker`; `Wake` is `_loop`; the rest are
halt, emergency stop and reset, run-once and evaluate-exits.

Merged, and why: `is_on` and `trading_cycle` are read by one expression wherever
both matter; `turn_off` empties `activated_at`, so `mine`; the stop event and the
mode are read by `Wake` at once, since a worker that has seen either ends the same
way; `run_once` and `cycles_started += 1` are one step, `run_once` being
`LiveEntry`'s subject; a worker's object is dropped when its thread ends, because
`running` is all that is asked of it. `/live/actual-live/activate` starts no worker
(its `Continue` ends in `idle`): status polls drive such a session.

## 5. OrbSession

| Variable | Code |
|---|---|
| `mode`, `symbols`, `session`, `disk`, `evidence` | `ORBSessionManager._strategies`, `_sessions`, `orb_strategies.json`; the readiness evidence of a symbol list |
| `status`, `born` | `ORBProposalStore`: status and session date of a proposal |
| `executed`, `execStop` | `ORBPaperExecutor._trades`, `_emergency` |
| `state`, `exitStop`, `noEntries` | `ORBTradeStore`, `ORBExitManager._emergency`, strategies with new entries disabled |
| `late` | history: trades filled when the exit manager was tripped already |
| `day`, `hour` | session date; before the entry cutoff, after it, from the force-flat time on |
| `pc`, `job` | where a request is, and its locals |

`Upsert`, `Arm`, `Disarm`, `DisableToday`, `SaveEvidence` are the manager's operations,
each with its write of the file, which may fail; `Create`, `Skip`, `Expire`,
`ListProposals` the proposal store's. The execute-paper route is `BeginExecute`,
`CheckGates`, `CheckNewEntries`, `ExecutePaper`, `RegisterTrade`, `MarkEntryFilled`;
`ExecutePaper` is one step because the executor holds its lock over the whole of it.
`Monitor`, `Evaluate`, `CloseNow`, `RequestExit`, `MarkExitFilled`, `MarkExitFailed` are
the exit routes; `EmergencyStop`, `TripExits`, `SnapshotOpen`, `DisarmAll` the stop.
`Restart` ends the process anywhere: what is not in the file is forgotten, and trades of
the paper simulation with it. Proposals are bounded between two restarts.

A request between `execute_paper` and `mark_entry_filled` may open a trade behind an
emergency stop that has listed the open ones: `StopFlattens` therefore excuses the trades
in `late`, and `StopLeavesNothingOpen`, without the excuse, fails.

## 6. PaperTrades

| Variable | Code |
|---|---|
| `trade` | the paper trade store, replayed: status, `exit_order_id`, whether the exit was requested more than 60 seconds ago |
| `order`, `held` | TWS: orders with the shares they have left, shares of the account (external) |
| `reports`, `known` | orders that are over and whose report is on its way; the order statuses `ServiceManager` has |
| `pos` | its position cache |
| `pc`, `job` | where a request is; its locals, with the records it has read |
| `seen` | history: the hazards that have happened |

| Actions | Code |
|---|---|
| `RunOnce`, `ExecutePaper`, `BuyLeg`, `LegsFail`, `LegsDone` | `AutonomousPaperRunner.run_once`, the engine's basket, the route that uses the engine without the runner |
| `Reconcile`, `EntryFilled`, `ExitFilled`, `ExitEnded`, `CancelStale`, `Reopen`, `PassOver`, `EndPass` | `TradeReconciler.reconcile`, `_cancel_exit_order_before_revert` |
| `Evaluate`, `Stay`, `Exit`, `SellRaises`, `Sell`, `MarkExitPending`, `EndEvaluate` | `evaluate_open_trades`, the oversell guard, the submission and the write after it |
| `CancelEntry`, `Abandon` | the operator's cancel-entry |
| `Fill`, `EndOrder`, `OrderStatus`, `UpdatePortfolio` | TWS and its callbacks (external) |
| `Age`, `Restart` | the clock, the process |

The properties excuse themselves with `seen`. Each hazard in an excuse is needed: without
it the checker finds a behaviour. So a run with all hazards allowed says two things, what
may go wrong at all and through which event. The oversell guard compares an exit with the
shares of the symbol in the cache, not with the shares that other SELLs have still to
sell; what keeps the account long is that an exit is cancelled before it is sent again.

What the model shows the code to do, none of which a property forbids: an
ENTRY_PENDING trade whose order has died is never cleared and counts against the limit for
ever; cancel-entry writes off a trade whose entry has filled; the legs of a basket after
the first are bought and not recorded; the route that calls the engine directly records
nothing; a pass that works on old records can reopen a CLOSED trade; an exit that sold a
part is retried with the full quantity; and an exit that was filled without a report is
reopened, and may then sell the shares of another trade of the symbol. Left out: the
branch for an invalid exit order id (no record has one), emergency marker and mode (they
only refuse), the second attempt of the aggregate-profit loop, the connection.

## 7. TradingDesk

| Variable | Code |
|---|---|
| `conn`, `bridge`, `equity` | `ServiceManager._connected` and `_connection_env`, `_tws_bridge`; the bridge whose account value initialised the equity |
| `tstate`, `armer` | `_trading_state`; history: what armed live trading |
| `flag`, `file`, `halted` | `emergency_stop_active`, the `EMERGENCY_STOP` file; history: a halt has returned and no resume has begun since |
| `socket`, `lost` | sockets of the bridges; losses the reader has still to publish |
| `pc`, `job`, `seen` | threads (requests, and a reader for each bridge) and hazards |

| Actions | Code |
|---|---|
| `Connect`, `BridgeUp`, `BridgeTimesOut`, `ConnectFails`, `AttachBridge`, `SetConnected`, `CheckAccount` | POST /connect, `connect_tws`, `set_connected` |
| `Disconnect`, `DetachBridge`, `CloseBridge`, `SetDisconnected` | POST /disconnect, `disconnect_tws` |
| `SocketDrops`, `ConnectionClosed`, `NoticeLost` | the reader's end, `_on_bridge_connection_lost` |
| `Halt`, `MarkHalted`, `WriteMarker`; `Resume`, `ReleaseFlag`, `ReadConnection`, `RestoreState`, `CapState`, `LowerState` | the emergency routes |
| `SubmitOrder`, `ValidateManualOrder`, `RecordOrder` | manual orders |
| `UpdateAccountValue`, `Restart` | account callbacks, the process |

A lost socket is reported twice by the client library, and the event does not say which
bridge it is about: `NoticeLost` takes whatever is lost for the bridge that is attached, and
drops that (the hazard stray). The excuses are the hazards in `seen`, each of them needed:
a connection may be announced after its socket dropped (early); two connections that overlap
leave a socket nobody closes; a resume that meets a halt leaves the flag set with the
state of a paper session; `CONNECTION_FAILED` replaces `EMERGENCY_STOP` as the state,
which is safe because neither allows orders. Outside the model: the executor looks for
the marker relative to the working directory.

## 8. StrategyDesk

| Variable | Code |
|---|---|
| `login`, `account` | the account TWS is logged in to; `current_account_id` |
| `registry`, `scope` | `ServiceManager._strategy_registry`; the account a registry was built for |
| `inst` | strategy objects: name, registry, account, state |
| `rows` | table `strategy_instances`: running state by account and name |
| `halted`, `seen` | history: accounts whose strategies a halt has stopped and nobody has started since; hazards |
| `pc`, `job` | where a request is, and its locals |

`Create`, `Start`, `Stop`, `Halt` arrive; `Access`, `Build`, `Load`, `LoadFails`, `Refuse` are the
property `strategy_registry`, which builds a registry on first use and restores what the
rows say; `Find`, `Instantiate`, `SaveInstance`, `StartInstance`, `StopInstance`, `ReadState`,
`WriteRow` are the registry's methods, a start or a stop being followed by a write of the
state read after it; `BeginStopAll`, `EndStopAll` are `stop_all`; `Connect`,
`UpdateConnectedAccount`, `Disconnect` drop the registry; `Fail` is a strategy that stops in
ERROR; `Restart` keeps the rows.

A dropped registry's instances stay subscribed to the event bus and go on running, where
no halt reaches them, and a reconnection restores them a second time: `RunsOnce` excuses
reconnections under a running strategy, and `StrategyDeskGhost` refutes what the
documentation says of the halt. Also: a halt while disconnected stops only the registry of
no account; creating a strategy again keeps the RUNNING of its old row. Left out: pausing,
removal, reloading of configuration, strategies inferred from positions.

## 9. Runs

All end without error but the three marked violation, which refute what a text of the
repository says (`findings` in `PROJECT.json` quotes it).

| Run | Instance | Env | Distinct states | Question |
|---|---|---|---|---|
| `LiveEntryRestart` | 1 runner, 2 symbols, 2 attempts, 1 slot | disconnect, crash, hand | 0.6 M | no duplicate, exposure covered, slots, refinement of `EntrySlots` |
| `LiveEntryBasket` | 1 runner, 2 symbols, 2 attempts, 2 slots | disk, hand | 4.5 M | baskets, any append failing: exposure covered, ended trades and stale closes are flat |
| `LiveEntryPoller` | 2 runners, 1 trader, 1 symbol, 3 attempts | exits | violation | a poll clears by key the lock of a newer trade, whose exit is then no duplicate |
| `LiveEntrySettles` | 1 runner, 1 symbol, 2 attempts | disconnect, hand | 0.14 M | liveness: a stranded trade leaves OPEN |
| `LiveEntryLapses` | 1 runner, 1 symbol, 2 attempts | disconnect, exits, audit, late, hasty | 1.8 M | FAILED holds nothing, in the least friendly environment |
| `LiveEntryTwoTraders` | 2 traders, 1 symbol, 2 attempts | none | violation | two stores over one file: the key of a symbol is acquired twice |
| `LiveSessionLives` | 1 operator, 2 workers, poller, 1 trade | faults | 0.5 M | one cycle at a time, single trades enter once, one worker; workers end, continuous sessions go on |
| `OrbSessionDay` | 1 strategy, 2 proposals, 2 requests, cap 1, 2 symbol lists, 2 days | restart | 1.5 M | arming, cap, one trade for each execution, exits and the emergency stop |
| `PaperTradesExits` | 1 trade of 2 shares, 2 exit orders, 1 request | all seven | 0.4 M | shares, store, exposure; liveness: exits resolve |
| `TradingDeskStops` | 2 requests, 2 bridges | all eight, two in a behaviour | 2.9 M | the stop is remembered, seen and shown; connection, sockets, account data |
| `StrategyDeskHalts` | 2 requests, 1 name, 1 account and none, 2 instances, 2 registries | all four, one in a behaviour | 1.2 M | halts last, nothing runs twice, the table follows |
| `StrategyDeskGhost` | the same | reconnect | violation | a running strategy that no halt reaches |

Every action is taken by one of the passing runs, except the behaviours that `hurried`
allows in `LiveSession`.

Why these bounds are enough for the question asked. `LiveEntry`: a duplicate needs two
attempts on one symbol, and a third only when a lock that was listed for the first is
cleared under the second (`LiveEntryPoller`), which one runner cannot do: what it has
listed still holds when it clears (`PassesCurrent`, proved). Two symbols are what it takes
for a lock, an orphan or a slot of one symbol to be confused with another's, and for
a basket; two threads for an interleaving. `MaxPerDay` is out of the way (3) so that the
slots decide. `LiveSession`: an operator, a worker and a poller for requests and ticks to
meet, two workers for one to be replaced while it stops; one trade is the least that can be
open, over and failed. `OrbSession`: two proposals for a cap of one, two requests, two
symbol lists for evidence that is not for the list there is, two days for what outlives a
session. `PaperTrades`: two shares for a partial fill, two exits for a retry; with one
trade no two trades share a symbol, so the second excuse of `ShortHasACause` is idle in
this run and the theorem is what says it of several. `TradingDesk` and `StrategyDesk`: two
requests to meet, two bridges or registries for an old one and a new one. `MaxSeen` bounds
how many kinds of hazard one behaviour meets (two and one); the proofs have no such bound.
The failing write of `OrbSession`'s file (`disk`) is outside the run and within the proofs.

Deadlock: `LiveEntry` stops when its attempts are used up and its gates stay closed, and
`PaperTrades` when its orders are: their configurations switch the check off. The other
modules are checked for it.

Symmetry: symbols, attempts, requests, proposals and the like are interchangeable and no
property names one; the liveness runs use none.

Fairness. `LiveEntry`: readiness is evaluated for ever (the dashboard polls, the
worker ticks) and each evaluation runs to its end; TWS pushes positions; time passes.
Nothing is assumed of the connection, the operator or the broker's orders: if the
socket never came back, the property would have to hold anyway, and it does because
the stale pass does not need it. `LiveSession`: each thread goes on with what it has
begun, the dashboard polls, time passes; no request ever has to be made. `PaperTrades`:
requests go on, passes are started again and again, minutes pass, a cancellation that is
requested again and again is forwarded once (strong fairness: the code retries it at every
pass), and restarts do not always come between it and the write that follows. That an
order fills or that a report arrives is not assumed.

### What breaks in a wider environment of LiveEntry

`Env` says what may happen. With one symbol and one trader unless said otherwise
(`MaxOpen` 1) the checker gives the following. "No" is what the model of the code does.

| Environment | duplicate | covered | FAILED holds nothing | stale close is flat | slots |
|---|---|---|---|---|---|
| one runner: `disk`, `hand` | ok | ok | ok | ok | ok |
| `disconnect`, `crash`, `hand` | ok | ok | ok | **no**: an empty position cache passes for a flat account | ok |
| `exits`, with any one of the two rows above | ok | ok | ok | as above | no, with two symbols: EXIT_PENDING is not counted |
| `blind` and `exits` | no | no | **no**: an exit sent before the fill was ingested marks the trade FAILED, its lock is released | ok | no |
| `late` | no: an entry that works longer than the grace is closed as stale | no | ok | no | no |
| `disk` and `crash` | no: between the two appends of a stale close | no | ok | no | no |
| `audit` | **no**: an order at the broker is reported rejected, and its lock cleared | no | ok | ok | no |
| `hasty` | ok | no: by definition of the operator's haste | ok | ok | ok |
| one trader among pollers: `hand`, `hasty` | ok | no: a poll clears a lock that was taken since it looked | ok | ok | ok |
| one trader among pollers, `exits` | **no** (`LiveEntryPoller`): the same poll, and no OPEN record either | no | ok | ok | no |
| two runners and `disconnect` or `crash` | no: a second thread's pass takes the cleared cache for a flat account | no | ok | no | no |
| two traders | **no** (`LiveEntryTwoTraders`) | no | ok | ok | no |

Every "ok" of the first three rows and of the first pollers' row is a theorem, and so are
two columns: "FAILED holds nothing" in every environment without `blind`, "stale close is
flat" in every one without `disconnect`, `crash` and `late`, both for any number of runners
and traders (section 10).

### Known failures

What the modules state and the code does not keep, so that no configuration checks it there:

- `FailedHoldsNothing` (`LiveEntry`) with `blind`: the exit manager goes by the limit price
  when no fill is recorded, so a SELL may be out before the fill of the entry is ingested;
  the reconciler then takes the missing price for an entry that never filled.
- `DryRunSendsNothing` (`LiveSession`): a cycle of a dry-run session has found the mode on; the
  session is halted, which resets `dry_run`; the cycle goes on, reads `dry_run` as false and
  sends orders. It takes one operator, one worker and no fault.
- `FaultsStay` (`LiveSession`): a fault pauses the supervisor; an emergency stop overwrites the
  reason; its reset finds a pause of its own and resumes. The fault was never cleared.
- `StopLeavesNothingOpen` (`OrbSession`): see section 5.
- `NeverShort` (`PaperTrades`): see section 6.
- For `LiveSession`, `hurried` (a request that starts a cycle while threads are busy)
  breaks `OneCycleAtATime` and `SingleTradeOnce`: a tick that has passed its checks
  meets the first cycle of the new session.

## 10. Proofs

Every property of a passing run but the four of liveness is a theorem, for all values of
the constants that meet the assumptions of the modules. What is assumed beyond those is
said here.

`LiveEntry` has one invariant for each reason why its properties hold, all of them in
`LiveEntryInv`; which of them an environment keeps decides what is true in it.

`LiveEntry_proofs` is about any number of runners. The types, `LegInv` (legs of different
runs are different attempts, and one that was not sent left no trace) and `ExitsTrue` (what
the bridge reports of exits is so) hold in every environment. `FailedInv` (a refusal is
final) needs no more than that no exit is blind, and gives `FailedHolds`. `StaleInv` (on a
socket that stays up, an aged trade that is held is among the cached positions) gives
`StaleCloseHolds`. The three together make `EndedInv` inductive: every way a trade can end
(an exit fill, a filled child, a rejection, a stale close, the reconciler) is shown to
meet a broker that has nothing left, which is `EndedHolds`. On it rests `TraderInv`: with one
trader, what is at the broker is OPEN in the store or is the leg in hand, so that the
duplicate check finds it although a poll may have cleared the lock
(`NoDuplicateWithPollers`).

`LiveEntrySafety_proofs` is about one runner (`Runners = {r}`). On a socket that may drop and
a process that may die (`CoreEnv`), a stale close may meet a live position, and the argument
is `IInv`: covering what is at the broker depends on locks being released only for trades
that have ended (`PassesCurrent`: what a pass has read still holds when it writes), trades
being ended only on true reports (`EventsTrue`), orphans not being overwritten by a late fill
(`OrphansAreQuiet`, which needs `GraceMeansSettled`), and a run having its symbol to itself
from the lock to the mark (`RunsAlone`). There is one lemma per action, with a step for each
conjunct the action can disturb. With a disk that fails instead (`DiskEnv`), an orphan may
go unrecorded, and the argument is `LockInv`, on top of `EndedInv`: an ended trade has nothing
at the broker, so releasing its lock uncovers nothing. Both environments allow the robot's own
exits.

`LiveEntrySlots_proofs` builds on both modules. What its argument needs of a setting is
`Orderly`: the leg in hand is alone on its symbol, and when the gates are open everything at
the broker is in the store as OPEN, where the gate counts it. `OrderlyHolds` shows this in
three settings (`SlotEnv`), from `IInv`, `LockInv` and `TraderInv`; exits are not among them,
for EXIT_PENDING is not counted. `MaxOpenRespected` then follows from `SlotInv`: what the
broker has plus the legs a run has still to send is at most `MaxOpen`. A plan establishes it
because the basket fits what is left; sending a leg moves it from one summand to the other.
`EntrySlotsImplemented` is the refinement: `NoDuplicateLiveEntry` makes the CHOOSE of the
mapping unique, so a step changes the mapped slots exactly as it changes who is exposed;
`SlotInv` gives the guard of `Enter`. Both need finitely many symbols.

`LiveSession_proofs` proves the types of `LiveSession` in every environment, and
`OneCycleAtATime`, `SingleTradeOnce` and `OneWorker` for any numbers of workers,
pollers, operators and trades, faults included, under `Patient` (no hurried
requests). `AdmissionInv` says what admits a thread to a cycle: the lock for ticks of
a continuous session, being first for an activation, and `cycles_started` to keep
them apart. `WorkerInv` says that a live worker is the one in `app.config`, and that a thread
about to spawn one found the place empty and is alone in doing so.

`OrbSession_proofs` has no assumption beyond the module's. `ExecutorInv` counts the executed
trades of a session against the cap, which works because the executor checks and records under
one lock; `ManagedInv` names, for every trade without a final entry, the request that is at
work on it; `StopInv` says that once the exit manager is tripped, every trade that is exposed
and not late is still ahead of some stop that is walking its list.

`PaperTrades_proofs`: `StoreInv` extends the truth of the store to every record a pass has
read, for records are true when read and truths of this kind do not pass; `ExposureInv` needs
only to remember which threads handed something off; `SellInv` says, as long as requests did
not overlap, no cycle was cut short and no cancellation was late (`Calm`), that a trade has at
most one exit that may still sell, from which follow `OneSell` and, with `CoverInv` for a trade
that is alone in its symbol and `StockInv` (the shares held are those bought and not sold) for
several, `ShortHasACause`.

`TradingDesk_proofs`: `HaltInv`, `ShownInv`, `ConnectedInv` for the stop and the trading state,
`ThreadInv` and `SocketInv` for which thread may have which bridge in hand while a connection is
made or unmade.

`StrategyDesk_proofs`: `PlaceInv` (where objects are) holds whatever happens; `HaltInv`,
`OwnInv` and `FollowInv` hold as long as the hazards of their excuse have not happened, and
say what the one request at work has in hand.

Only model-checked: the liveness properties `StrandedTradeSettles`, `WorkersEnd`,
`ContinuousAdvances` and `ExitResolves` (out of the prover's reach).

## 11. What is not modelled

Capital promotion, risk levels and the strategy lifecycle are sequential functions of
evidence; the order manager and the data pipeline are not used by the web application;
the rate limiter is a window over the clock; the event bus delivers in the thread that
publishes, and is modelled where it is used. Evidence and ranking, market data, indicators,
the opening-range arithmetic and the backtest are arithmetic over inputs with no
protocol to get wrong. Web pages, AI assistant, database and scripts are I/O. `ibapi` is
vendored; TWS appears as external actions of `LiveEntry`, `PaperTrades` and `TradingDesk`.
These are the larger part of the repository by lines.

Within the modelled parts: quantities and partial fills of live entries and commission
reports that emit an execution again (`LiveEntry` has one value for a bracket and a set for
its events); the lock file's 120-minute staleness; the global emergency marker of other
endpoints; the paper half of emergency stop and reset; failures to read a file; close-all's
clearing of the cached positions. No proof covers several runners on a
socket that drops, where the model of the code has duplicates.
