------------------------------ MODULE OrbSession ------------------------------
(***************************************************************************)
(* The opening-range-breakout desk on the paper account: strategies that a *)
(* trader arms for a session, proposals that are executed once, the trades *)
(* that come of them and the exits that flatten them, and the emergency    *)
(* stop that goes over all of it.                                          *)
(*                                                                         *)
(* Four objects, each with a lock of its own: ORBSessionManager (persisted *)
(* strategies and sessions), ORBProposalStore, ORBPaperExecutor and        *)
(* ORBExitManager with its ORBTradeStore (in memory).  A request calls     *)
(* them one after the other and holds no lock in between, so a request     *)
(* that calls several has a step for each call.  A trade shares the        *)
(* identity of the proposal it came from.                                  *)
(***************************************************************************)
EXTENDS Naturals, FiniteSets

CONSTANTS
    Strategies,
    Proposals,  \* bound: proposals between two starts of the process
    StrategyOf, \* the strategy a proposal is made by
    Threads,    \* request threads
    UsedModes,  \* bound: the modes a trader chooses among
    Symbols,    \* bound: the symbol lists a trader chooses among
    Cap,        \* max_total_orb_trades_per_session of a strategy
    LastDay,    \* bound: the days of a behaviour
    Env,        \* what else may happen, a set of Hazards
    None        \* no thread

(* "restart"  the process ends at any point and starts again               *)
(* "disk"     the file of strategies and sessions cannot be written        *)
Hazards == {"restart", "disk"}

ASSUME StrategyOfAssumption == StrategyOf \in [Proposals -> Strategies]
ASSUME CapAssumption == Cap \in [Strategies -> Nat \ {0}]
ASSUME DayAssumption == LastDay \in Nat \ {0}
ASSUME EnvAssumption == Env \subseteq Hazards
ASSUME NoneAssumption == None \notin Threads \cup Proposals

VARIABLES
    day, hour,   \* the session date, and the part of it the clock is in
    mode, symbols, \* mode and symbol list of a strategy
    session,     \* its entry in _sessions
    disk,        \* orb_strategies.json: all three as last written
    evidence,    \* READY_FOR_PAPER: the symbol lists a strategy has it for
    status,      \* the proposal store
    born,        \* session_date of a proposal
    executed,    \* the executor's trades
    execStop,    \* the executor's _emergency
    state,       \* the intraday trade store
    exitStop,    \* the exit manager's _emergency
    noEntries,   \* strategies with new entries disabled
    late,        \* history: trades filled when _emergency was set
    pc, job      \* where a thread is, and with what

clock     == <<day, hour>>
manager   == <<mode, symbols, session, disk, evidence>>
executor  == <<executed, execStop>>
exits     == <<state, exitStop, noEntries, late>>
threads   == <<pc, job>>
proposals == <<status, born>>
vars      == <<clock, manager, proposals, executor, exits, threads>>

Days == 1..LastDay
\* Before the entry cutoff, after it, and from the force-flat time on.
Hours == {"entry", "late", "flat"}

LockedModes     == {"tiny_live_candidate", "assisted_live"}
NonArmableModes == LockedModes \cup {"off", "backtest_only"}
Modes           == NonArmableModes \cup {"recommend_only", "paper_autonomous"}
ASSUME UsedModesAssumption == UsedModes \subseteq Modes

Sessions       == [kind : {"none", "armed", "disabled"}, day : 0..LastDay + 1]
NoSession      == [kind |-> "none", day |-> 0]
ArmedFor(d)    == [kind |-> "armed", day |-> d]
DisabledFor(d) == [kind |-> "disabled", day |-> d]

Statuses == {"none", "pending", "skipped", "expired", "executed"}
Active   == {"ENTRY_PENDING", "OPEN", "EXIT_PENDING"}
States   == Active \cup {"absent", "CLOSED", "FAILED"}

ExecutePc == {"gates", "entries", "execute", "register", "fill"}
ExitPc    == {"evaluate", "flatten", "abandon", "settle"}
Pc        == {"idle", "trip", "snapshot", "disarm"} \cup ExecutePc \cup ExitPc

(* trade     the proposal being executed, or the trade being exited        *)
(* todo      trades of list_open that are still to be evaluated            *)
(* stopping  the request is the emergency stop                             *)
Job   == [trade : Proposals \cup {None}, todo : SUBSET Proposals, stopping : BOOLEAN]
NoJob == [trade |-> None, todo |-> {}, stopping |-> FALSE]

Go(t, l, j) ==
    /\ pc' = [pc EXCEPT ![t] = l]
    /\ job' = [job EXCEPT ![t] = IF l = "idle" THEN NoJob ELSE j]
Goto(t, l) == Go(t, l, job[t])

Open == {p \in Proposals : state[p] = "OPEN"}

\* expires_at is the entry cutoff of the session.
Due(p) == /\ status[p] = "pending"
          /\ day > born[p] \/ hour # "entry"
FlatDue(p) == day > born[p] \/ hour = "flat"

Init ==
    /\ day = 1 /\ hour = "entry"
    /\ mode = [s \in Strategies |-> "off"]
    /\ session = [s \in Strategies |-> NoSession]
    /\ symbols \in [Strategies -> Symbols]
    /\ disk = [mode |-> mode, symbols |-> symbols, session |-> session]
    /\ evidence = [s \in Strategies |-> {}]
    /\ status = [p \in Proposals |-> "none"]
    /\ born = [p \in Proposals |-> 1]
    /\ executed = {} /\ execStop = FALSE
    /\ state = [p \in Proposals |-> "absent"]
    /\ exitStop = FALSE /\ noEntries = {} /\ late = {}
    /\ pc = [t \in Threads |-> "idle"]
    /\ job = [t \in Threads |-> NoJob]
-----------------------------------------------------------------------------
(* ORBSessionManager.  Every operation is one critical section, with the    *)
(* file written inside it.                                                  *)

\* A write that fails is logged and otherwise ignored.
Save == LET content == [mode |-> mode', symbols |-> symbols', session |-> session']
        IN  disk' \in IF "disk" \in Env THEN {content, disk} ELSE {content}

\* Mutant: only new parameters disarm.
UpsertKeeping(s, m, y, params) ==
    /\ mode' = [mode EXCEPT ![s] = m]
    /\ symbols' = [symbols EXCEPT ![s] = y]
    /\ session' = IF params THEN [session EXCEPT ![s] = NoSession] ELSE session
    /\ UNCHANGED <<clock, evidence, proposals, executor, exits, threads>>
    /\ Save

\* A change of mode, symbols or parameters disarms.
Upsert(s, m, y, params) ==
    /\ mode' = [mode EXCEPT ![s] = m]
    /\ symbols' = [symbols EXCEPT ![s] = y]
    /\ session' = IF m \in NonArmableModes \/ m # mode[s] \/ y # symbols[s] \/ params
                  THEN [session EXCEPT ![s] = NoSession]
                  ELSE session
    /\ UNCHANGED <<clock, evidence, proposals, executor, exits, threads>>
    /\ Save

\* Mutant: the session after the one that was asked for.
ArmNext(s, d) ==
    /\ d \in {day, day + 1}
    /\ mode[s] \notin NonArmableModes
    /\ mode[s] = "paper_autonomous" => symbols[s] \in evidence[s]
    /\ session[s] # DisabledFor(d)
    /\ session' = [session EXCEPT ![s] = ArmedFor(d + 1)]
    /\ UNCHANGED <<clock, mode, symbols, evidence, proposals, executor, exits, threads>>
    /\ Save

Arm(s, d) ==
    /\ d \in {day, day + 1}
    /\ mode[s] \notin NonArmableModes
    /\ mode[s] = "paper_autonomous" => symbols[s] \in evidence[s]
    /\ session[s] # DisabledFor(d)
    /\ session' = [session EXCEPT ![s] = ArmedFor(d)]
    /\ UNCHANGED <<clock, mode, symbols, evidence, proposals, executor, exits, threads>>
    /\ Save

Disarm(s) ==
    /\ session' = [session EXCEPT ![s] = NoSession]
    /\ UNCHANGED <<clock, mode, symbols, evidence, proposals, executor, exits, threads>>
    /\ Save

DisableToday(s) ==
    /\ session' = [session EXCEPT ![s] = DisabledFor(day)]
    /\ UNCHANGED <<clock, mode, symbols, evidence, proposals, executor, exits, threads>>
    /\ Save

\* A backtest that is READY_FOR_PAPER is saved; evidence is never deleted.
SaveEvidence(s) ==
    /\ symbols[s] \notin evidence[s]
    /\ evidence' = [evidence EXCEPT ![s] = @ \cup {symbols[s]}]
    /\ UNCHANGED <<clock, mode, symbols, session, disk, proposals, executor, exits, threads>>
-----------------------------------------------------------------------------
(* ORBProposalStore.                                                        *)

\* The setups come from outside the desk: nothing under src/ makes cards yet.
Create(p) ==
    /\ status[p] = "none"
    /\ status' = [status EXCEPT ![p] = "pending"]
    /\ born' = [born EXCEPT ![p] = day]
    /\ UNCHANGED <<clock, manager, executor, exits, threads>>

Skip(p) ==
    /\ status[p] = "pending"
    /\ status' = [status EXCEPT ![p] = "skipped"]
    /\ UNCHANGED <<clock, manager, born, executor, exits, threads>>

\* Mutant: an executed proposal expires like a pending one.
ExpireExecuted(p) ==
    /\ status[p] \in {"pending", "executed"}
    /\ status' = [status EXCEPT ![p] = "expired"]
    /\ UNCHANGED <<clock, manager, born, executor, exits, threads>>

Expire(p) ==
    /\ status[p] = "pending"
    /\ status' = [status EXCEPT ![p] = "expired"]
    /\ UNCHANGED <<clock, manager, born, executor, exits, threads>>

ExpireDue == status' = [p \in Proposals |-> IF Due(p) THEN "expired" ELSE status[p]]

ListProposals ==
    /\ \E p \in Proposals : Due(p)
    /\ ExpireDue
    /\ UNCHANGED <<clock, manager, born, executor, exits, threads>>
-----------------------------------------------------------------------------
(* POST /proposals/<id>/execute-paper.                                      *)

BeginExecute(t, p) ==
    /\ pc[t] = "idle" /\ status[p] # "none"
    /\ ExpireDue
    /\ IF execStop THEN UNCHANGED threads
                   ELSE Go(t, "gates", [NoJob EXCEPT !.trade = p])
    /\ UNCHANGED <<clock, manager, born, executor, exits>>

\* The record of get_strategy: mode and session, read together.
CheckGates(t) ==
    /\ pc[t] = "gates"
    /\ LET p == job[t].trade
           s == StrategyOf[p]
       IN  Goto(t, IF mode[s] = "paper_autonomous" /\ session[s] = ArmedFor(born[p])
                   THEN "entries" ELSE "idle")
    /\ UNCHANGED <<clock, manager, proposals, executor, exits>>

CheckNewEntries(t) ==
    /\ pc[t] = "entries"
    /\ Goto(t, IF StrategyOf[job[t].trade] \in noEntries THEN "idle" ELSE "execute")
    /\ UNCHANGED <<clock, manager, proposals, executor, exits>>

\* session_trade_count
SessionTrades(s, d) == {p \in executed : StrategyOf[p] = s /\ born[p] = d}

\* Mutant: the cap is compared with the trades before this one.
ExecutableAtCap(p) ==
    /\ ~execStop
    /\ status[p] = "pending"
    /\ Cardinality(SessionTrades(StrategyOf[p], born[p])) <= Cap[StrategyOf[p]]

\* Mutant: only the request looks at the emergency flag, when it arrives.
ExecutableStopped(p) ==
    /\ status[p] = "pending"
    /\ Cardinality(SessionTrades(StrategyOf[p], born[p])) < Cap[StrategyOf[p]]

Executable(p) ==
    /\ ~execStop
    /\ status[p] = "pending"
    /\ Cardinality(SessionTrades(StrategyOf[p], born[p])) < Cap[StrategyOf[p]]

\* Mutant: a proposal that was refused is registered as if it had a trade.
ExecutePaperAnyway(t) ==
    /\ pc[t] = "execute"
    /\ LET p == job[t].trade
       IN  IF p \notin executed /\ Executable(p)
           THEN /\ status' = [status EXCEPT ![p] = "executed"]
                /\ executed' = executed \cup {p}
           ELSE UNCHANGED <<status, executed>>
    /\ Goto(t, "register")
    /\ UNCHANGED <<clock, manager, born, execStop, exits>>

\* execute_paper, one critical section: a proposal that has a trade returns it
\* again, one that may be executed is marked in its store and then indexed.
ExecutePaper(t) ==
    /\ pc[t] = "execute"
    /\ LET p == job[t].trade
       IN  \/ /\ p \in executed
              /\ Goto(t, "register")
              /\ UNCHANGED <<status, executed>>
           \/ /\ p \notin executed /\ Executable(p)
              /\ status' = [status EXCEPT ![p] = "executed"]
              /\ executed' = executed \cup {p}
              /\ Goto(t, "register")
           \/ /\ p \notin executed /\ ~Executable(p)
              /\ Goto(t, "idle")
              /\ UNCHANGED <<status, executed>>
    /\ UNCHANGED <<clock, manager, born, execStop, exits>>

\* Mutant: the request ends before the simulated fill.
RegisterTradeOnly(t) ==
    /\ pc[t] = "register"
    /\ state' = [state EXCEPT ![job[t].trade] = IF @ = "absent" THEN "ENTRY_PENDING" ELSE @]
    /\ Goto(t, "idle")
    /\ UNCHANGED <<clock, manager, proposals, executor, exitStop, noEntries, late>>

\* A trade that is registered already is returned as it is.
RegisterTrade(t) ==
    /\ pc[t] = "register"
    /\ state' = [state EXCEPT ![job[t].trade] = IF @ = "absent" THEN "ENTRY_PENDING" ELSE @]
    /\ Goto(t, "fill")
    /\ UNCHANGED <<clock, manager, proposals, executor, exitStop, noEntries, late>>

\* The entry is simulated: filled at once.
MarkEntryFilled(t) ==
    /\ pc[t] = "fill"
    /\ state' = [state EXCEPT ![job[t].trade] = IF @ = "ENTRY_PENDING" THEN "OPEN" ELSE @]
    /\ late' = IF exitStop THEN late \cup {job[t].trade} ELSE late
    /\ Goto(t, "idle")
    /\ UNCHANGED <<clock, manager, proposals, executor, exitStop, noEntries>>
-----------------------------------------------------------------------------
(* ORBExitManager.                                                          *)

CancelEntry(p) ==
    /\ state[p] = "ENTRY_PENDING"
    /\ state' = [state EXCEPT ![p] = "CLOSED"]
    /\ UNCHANGED <<clock, manager, proposals, executor, exitStop, noEntries, late, threads>>

SetNewEntries(S) ==
    /\ S # noEntries
    /\ noEntries' = S
    /\ UNCHANGED <<clock, manager, proposals, executor, state, exitStop, late, threads>>

\* The trades of list_open, or one trade that is OPEN: a snapshot.
Monitor(t, S) ==
    /\ pc[t] = "idle"
    /\ S = Open \/ \E p \in Open : S = {p}
    /\ S # {}
    /\ Go(t, "evaluate", [NoJob EXCEPT !.todo = S])
    /\ UNCHANGED <<clock, manager, proposals, executor, exits>>

\* What follows when a trade of the snapshot has been dealt with.
NextTrade(t, j) ==
    Go(t, IF j.todo # {} THEN "evaluate" ELSE IF j.stopping THEN "disarm" ELSE "idle",
       [j EXCEPT !.trade = None])

\* Mutant: an emergency is no reason to exit.
EvaluateCalm(t) ==
    /\ pc[t] = "evaluate"
    /\ \E p \in job[t].todo, priced \in BOOLEAN, reached \in BOOLEAN :
         LET j == [job[t] EXCEPT !.todo = @ \ {p}, !.trade = p]
         IN  IF FlatDue(p) \/ reached
             THEN Go(t, IF priced THEN "flatten" ELSE "abandon", j)
             ELSE NextTrade(t, j)
    /\ UNCHANGED <<clock, manager, proposals, executor, exits>>

\* _evaluate_one up to its decision.  The market decides whether there is a
\* price, and whether target, stop or holding time are reached.
Evaluate(t) ==
    /\ pc[t] = "evaluate"
    /\ \E p \in job[t].todo, priced \in BOOLEAN, reached \in BOOLEAN :
         LET j == [job[t] EXCEPT !.todo = @ \ {p}, !.trade = p]
         IN  IF exitStop \/ FlatDue(p) \/ reached
             THEN Go(t, IF priced THEN "flatten" ELSE "abandon", j)
             ELSE NextTrade(t, j)
    /\ UNCHANGED <<clock, manager, proposals, executor, exits>>

\* Without a price nothing can be closed and the trade stays OPEN.
CloseNow(t, p) ==
    /\ pc[t] = "idle" /\ state[p] = "OPEN"
    /\ Go(t, "flatten", [NoJob EXCEPT !.trade = p])
    /\ UNCHANGED <<clock, manager, proposals, executor, exits>>

\* Mutant: whoever decided on an exit sends it.
RequestExitAgain(t) ==
    /\ pc[t] = "flatten"
    /\ state' = [state EXCEPT ![job[t].trade] = "EXIT_PENDING"]
    /\ Goto(t, "settle")
    /\ UNCHANGED <<clock, manager, proposals, executor, exitStop, noEntries, late>>

\* request_exit: only an OPEN trade gets an exit order.
RequestExit(t) ==
    /\ pc[t] = "flatten"
    /\ IF state[job[t].trade] = "OPEN"
       THEN /\ state' = [state EXCEPT ![job[t].trade] = "EXIT_PENDING"]
            /\ Goto(t, "settle")
       ELSE /\ NextTrade(t, job[t])
            /\ UNCHANGED state
    /\ UNCHANGED <<clock, manager, proposals, executor, exitStop, noEntries, late>>

MarkExitFilled(t) ==
    /\ pc[t] = "settle"
    /\ state' = [state EXCEPT ![job[t].trade] = IF @ = "EXIT_PENDING" THEN "CLOSED" ELSE @]
    /\ NextTrade(t, job[t])
    /\ UNCHANGED <<clock, manager, proposals, executor, exitStop, noEntries, late>>

\* No price to flatten at: the trade has failed, whoever else is closing it.
MarkExitFailed(t) ==
    /\ pc[t] = "abandon"
    /\ state' = [state EXCEPT ![job[t].trade] =
                    IF @ \in {"OPEN", "EXIT_PENDING"} THEN "FAILED" ELSE @]
    /\ NextTrade(t, job[t])
    /\ UNCHANGED <<clock, manager, proposals, executor, exitStop, noEntries, late>>
-----------------------------------------------------------------------------
(* POST /emergency-stop: entries are blocked, open trades flattened, and    *)
(* then the sessions disarmed.                                              *)

EmergencyStop(t) ==
    /\ pc[t] = "idle"
    /\ execStop' = TRUE
    /\ Go(t, "trip", [NoJob EXCEPT !.stopping = TRUE])
    /\ UNCHANGED <<clock, manager, proposals, executed, exits>>

TripExits(t) ==
    /\ pc[t] = "trip"
    /\ exitStop' = TRUE
    /\ Goto(t, "snapshot")
    /\ UNCHANGED <<clock, manager, proposals, executor, state, noEntries, late>>

SnapshotOpen(t) ==
    /\ pc[t] = "snapshot"
    /\ NextTrade(t, [job[t] EXCEPT !.todo = Open])
    /\ UNCHANGED <<clock, manager, proposals, executor, exits>>

DisarmAll(t) ==
    /\ pc[t] = "disarm"
    /\ session' = [s \in Strategies |-> NoSession]
    /\ Goto(t, "idle")
    /\ UNCHANGED <<clock, mode, symbols, evidence, proposals, executor, exits>>
    /\ Save
-----------------------------------------------------------------------------
(* The world.                                                               *)

PassTime ==
    /\ \/ hour = "entry" /\ hour' = "late" /\ UNCHANGED day
       \/ hour = "late" /\ hour' = "flat" /\ UNCHANGED day
       \/ /\ hour = "flat" /\ day < LastDay
          /\ day' = day + 1 /\ hour' = "entry"
    /\ UNCHANGED <<manager, proposals, executor, exits, threads>>

\* Only the file of strategies and sessions, and the evidence, survive.
Restart ==
    /\ "restart" \in Env
    /\ mode' = disk.mode /\ symbols' = disk.symbols /\ session' = disk.session
    /\ status' = [p \in Proposals |-> "none"]
    /\ born' = [p \in Proposals |-> 1]
    /\ executed' = {} /\ execStop' = FALSE
    /\ state' = [p \in Proposals |-> "absent"]
    /\ exitStop' = FALSE /\ noEntries' = {} /\ late' = {}
    /\ pc' = [t \in Threads |-> "idle"]
    /\ job' = [t \in Threads |-> NoJob]
    /\ UNCHANGED <<clock, disk, evidence>>

Manage == \E s \in Strategies :
    \/ \E m \in UsedModes, y \in Symbols, params \in BOOLEAN : Upsert(s, m, y, params)
    \/ \E d \in {day, day + 1} : Arm(s, d)
    \/ Disarm(s)
    \/ DisableToday(s)
    \/ SaveEvidence(s)

Propose == ListProposals \/ \E p \in Proposals : Create(p) \/ Skip(p) \/ Expire(p)

Operate == \/ \E p \in Proposals : CancelEntry(p)
           \/ \E S \in SUBSET Strategies : SetNewEntries(S)

Arrive(t) == \/ \E p \in Proposals : BeginExecute(t, p) \/ CloseNow(t, p)
             \/ \E S \in SUBSET Proposals : Monitor(t, S)
             \/ EmergencyStop(t)

\* A request that has arrived goes on to its end.
Proceed(t) ==
    \/ CheckGates(t) \/ CheckNewEntries(t) \/ ExecutePaper(t)
    \/ RegisterTrade(t) \/ MarkEntryFilled(t)
    \/ Evaluate(t) \/ RequestExit(t) \/ MarkExitFilled(t) \/ MarkExitFailed(t)
    \/ TripExits(t) \/ SnapshotOpen(t) \/ DisarmAll(t)

Next == \/ Manage \/ Propose \/ Operate
        \/ \E t \in Threads : Arrive(t) \/ Proceed(t)
        \/ PassTime \/ Restart

Spec == Init /\ [][Next]_vars
-----------------------------------------------------------------------------
(* Properties.                                                              *)

TypeOK ==
    /\ day \in Days /\ hour \in Hours
    /\ mode \in [Strategies -> Modes]
    /\ symbols \in [Strategies -> Symbols]
    /\ session \in [Strategies -> Sessions]
    /\ disk \in [mode : [Strategies -> Modes], symbols : [Strategies -> Symbols],
                 session : [Strategies -> Sessions]]
    /\ evidence \in [Strategies -> SUBSET Symbols]
    /\ status \in [Proposals -> Statuses]
    /\ born \in [Proposals -> Days]
    /\ executed \subseteq Proposals
    /\ execStop \in BOOLEAN
    /\ state \in [Proposals -> States]
    /\ exitStop \in BOOLEAN
    /\ noEntries \subseteq Strategies /\ late \subseteq Proposals
    /\ pc \in [Threads -> Pc]
    /\ job \in [Threads -> Job]

Handling(t, p) == job[t].trade = p /\ pc[t] \in ExecutePc

(* An armed session, in memory or in the file, is always one that may be    *)
(* armed: of an armable mode and, for paper trading, with evidence for the  *)
(* symbols it has now; so neither an edited strategy nor a file that was    *)
(* not written any more arms what the gates of arm() would have refused     *)
(* (upsert_strategy, _load).                                                *)
Admitted(m, y, ses) ==
    \A s \in Strategies :
        ses[s].kind = "armed" => /\ m[s] \notin NonArmableModes
                                 /\ m[s] = "paper_autonomous" => y[s] \in evidence[s]
ArmedIsAdmitted == /\ Admitted(mode, symbols, session)
                   /\ Admitted(disk.mode, disk.symbols, disk.session)

(* A strategy never has more trades in a session than its cap, however many *)
(* requests execute its proposals at once (execute_paper).                  *)
CapRespected ==
    \A s \in Strategies, d \in Days : Cardinality(SessionTrades(s, d)) <= Cap[s]

(* A proposal is EXECUTED exactly when it has a trade: a skip or an expiry  *)
(* that comes in between never leaves one without the other.                *)
ExecutedHasTrade == \A p \in Proposals : status[p] = "executed" <=> p \in executed

(* No trade of the executor is left without an exit manager: once no        *)
(* request is at work on it, it has an intraday record whose entry is over. *)
TradesAreManaged ==
    \A p \in executed :
        (\A t \in Threads : ~Handling(t, p)) => state[p] \notin {"absent", "ENTRY_PENDING"}

(* The exit manager never holds what was not executed.                      *)
ManagedWereExecuted == \A p \in Proposals : state[p] # "absent" => p \in executed

(* An exit is requested once, a trade that has ended stays ended, and no    *)
(* step takes a trade back, whichever requests evaluate, close or abandon   *)
(* it at the same time; only a restart forgets it.                          *)
Onward == [absent |-> {"ENTRY_PENDING"}, ENTRY_PENDING |-> {"OPEN", "CLOSED"},
           OPEN |-> {"EXIT_PENDING", "FAILED"}, EXIT_PENDING |-> {"CLOSED", "FAILED"},
           CLOSED |-> {}, FAILED |-> {}]
TradesMoveOn ==
    [][Restart \/ \A p \in Proposals : state'[p] \in {state[p]} \cup Onward[state[p]]]_vars

(* Once the emergency stop has been tripped no proposal becomes a trade,    *)
(* not even in a request that had passed every gate before.                 *)
NoEntryAfterStop ==
    [][Restart \/ (execStop => /\ executed' = executed
                              /\ \A p \in Proposals : status'[p] = "executed" => status[p] = "executed")]_vars

(* What an emergency stop that is over has left OPEN was filled after it    *)
(* had tripped the exit manager: every trade that was in the market before  *)
(* is out of it, whichever request closes or abandons it.                   *)
Stopped == exitStop /\ \A t \in Threads : ~job[t].stopping
StopFlattens == Stopped => Open \subseteq late

(* What one would like of the stop: when it is over nothing is open.  A     *)
(* request between execute_paper and mark_entry_filled can open a trade     *)
(* behind it, so this is not an invariant and no configuration checks it.   *)
StopLeavesNothingOpen == Stopped => Open = {}

=============================================================================
