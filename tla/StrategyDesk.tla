----------------------------- MODULE StrategyDesk -----------------------------
(***************************************************************************)
(* The strategies of the web application: the registry that ServiceManager *)
(* builds on first use for the connected account and drops whenever the    *)
(* connection changes, the instances it creates or restores, the rows that *)
(* let them survive a restart, and the halt that stops them.               *)
(*                                                                         *)
(* A thread is an HTTP request.  An instance that its registry has dropped *)
(* stays subscribed to the event bus: it goes on for as long as its state  *)
(* is RUNNING, whatever registry there is.                                 *)
(***************************************************************************)
EXTENDS Naturals, FiniteSets

CONSTANTS
    Names,      \* of strategies
    Accounts,
    Requests,   \* threads
    Instances,  \* bound: strategy objects of one process
    Registries, \* bound: registry objects of one process
    Env,        \* what else may happen, a set of Hazards
    MaxSeen,    \* bound: hazards of one run
    None        \* no account (or not known), no registry, no instance

(* "overlap"    a request begins while another is at work                  *)
(* "reconnect"  the connection changes while a strategy is running         *)
(* "midway"     the connection changes while a request is at work          *)
(* "unknown"    the account of a connection is not known when it is made   *)
Hazards == {"overlap", "reconnect", "midway", "unknown"}

ASSUME EnvAssumption == Env \subseteq Hazards
ASSUME NoneAssumption == None \notin Accounts \cup Registries \cup Instances \cup Names
\* "none" is the scope of a registry that is not built.
ASSUME ScopeAssumption == "none" \notin Accounts \cup {None}

VARIABLES
    login,     \* the account TWS is logged in to
    account,   \* current_account_id
    registry,  \* _strategy_registry
    scope,     \* account_id of a registry
    inst,      \* the strategy objects
    rows,      \* the table strategy_instances: running_state by account and name
    halted,    \* history: accounts whose strategies a halt has stopped,
               \*          and nobody has asked to start one since
    pc, job,   \* where a request is, and with what
    seen       \* history: the hazards that have happened

connection == <<login, account>>
objects    == <<registry, scope, inst>>
threads    == <<pc, job>>
vars       == <<connection, objects, rows, halted, threads, seen>>

Keys   == Accounts \cup {None}
States == {"READY", "RUNNING", "STOPPED", "ERROR"}

(* reg      the registry that created it                                   *)
(* account  account_id of its configuration                                *)
Instance   == [name : Names \cup {None}, reg : Registries \cup {None},
               account : Keys, state : States \cup {"none"}]
NoInstance == [name |-> None, reg |-> None, account |-> None, state |-> "none"]

(* act      what the request is for                                        *)
(* name     the strategy, and account its configuration's (create)         *)
(* reg      the registry at hand                                           *)
(* found    it has the strategy; the registry is then asked for once more  *)
(* todo     instances stop_all has still to stop                           *)
(* on       the instance at hand, value what was read of its state         *)
Job   == [act : {"create", "start", "stop", "halt"}, name : Names \cup {None},
          account : Keys, reg : Registries \cup {None}, found : BOOLEAN,
          todo : SUBSET Instances, on : Instances \cup {None},
          value : States \cup {"none"}]
NoJob == [act |-> "halt", name |-> None, account |-> None, reg |-> None, found |-> FALSE,
          todo |-> {}, on |-> None, value |-> "none"]

Pc == {"idle", "access", "build", "load", "act", "save", "read", "write", "next"}

Go(t, l, j) ==
    /\ pc' = [pc EXCEPT ![t] = l]
    /\ job' = [job EXCEPT ![t] = IF l = "idle" THEN NoJob ELSE j]

\* Hazards happen, if they may.
Suffer(H) ==
    /\ H \subseteq Env
    /\ seen' = seen \cup H
    /\ Cardinality(seen \cup H) <= MaxSeen

Busy == \E t \in Requests : pc[t] # "idle"

Members(r)  == {i \in Instances : inst[i].reg = r /\ inst[i].state # "none"}
Named(r, n) == {i \in Members(r) : inst[i].name = n}
Unused      == {i \in Instances : inst[i].state = "none"}
Unbuilt     == {r \in Registries : scope[r] = "none"}

\* strategy.config.account_id or self.account_id
KeyOf(i) == IF inst[i].account # None THEN inst[i].account ELSE scope[inst[i].reg]

Init ==
    /\ login = None /\ account = None
    /\ registry = None
    /\ scope = [r \in Registries |-> "none"]
    /\ inst = [i \in Instances |-> NoInstance]
    /\ rows = [k \in Keys |-> [n \in Names |-> "none"]]
    /\ halted = {}
    /\ pc = [t \in Requests |-> "idle"]
    /\ job = [t \in Requests |-> NoJob]
    /\ seen = {}
-----------------------------------------------------------------------------
(* Requests, and the registry they find or build.                           *)

Arrive(t, j) ==
    /\ pc[t] = "idle"
    /\ Suffer(IF Busy THEN {"overlap"} ELSE {})
    /\ halted' = IF j.act = "start" THEN {} ELSE halted
    /\ Go(t, "access", j)
    /\ UNCHANGED <<connection, objects, rows>>

Create(t, n) == Arrive(t, [NoJob EXCEPT !.act = "create", !.name = n, !.account = account])
Start(t, n)  == Arrive(t, [NoJob EXCEPT !.act = "start", !.name = n])
Stop(t, n)   == Arrive(t, [NoJob EXCEPT !.act = "stop", !.name = n])
Halt(t)      == Arrive(t, NoJob)

\* The registry there is; without one, a new one is made for the account that
\* is known, published, and loaded afterwards.
Access(t) ==
    /\ pc[t] = "access"
    /\ IF registry # None THEN Go(t, "act", [job[t] EXCEPT !.reg = registry])
                          ELSE Go(t, "build", job[t])
    /\ UNCHANGED <<connection, objects, rows, halted, seen>>

Build(t, r) ==
    /\ pc[t] = "build"
    /\ r \in Unbuilt
    /\ registry' = r
    /\ scope' = [scope EXCEPT ![r] = account]
    /\ Go(t, "load", [job[t] EXCEPT !.reg = r])
    /\ UNCHANGED <<connection, inst, rows, halted, seen>>

Restored(r, n, i) ==
    [name |-> n, reg |-> r, account |-> scope[r],
     state |-> IF rows[scope[r]][n] = "RUNNING" THEN "RUNNING" ELSE "READY"]

\* Mutant: every strategy that is restored is started.
LoadStarting(t) ==
    /\ pc[t] = "load" /\ registry # None
    /\ LET names == {n \in Names : /\ rows[scope[registry]][n] # "none"
                                  /\ Named(registry, n) = {}}
       IN  \E f \in [names -> Unused] :
             /\ \A n, m \in names : f[n] = f[m] => n = m
             /\ inst' = [i \in Instances |->
                    IF \E n \in names : f[n] = i
                    THEN [Restored(registry, CHOOSE n \in names : f[n] = i, i)
                            EXCEPT !.state = "RUNNING"]
                    ELSE inst[i]]
    /\ Go(t, "act", job[t])
    /\ UNCHANGED <<connection, registry, scope, rows, halted, seen>>

\* load_persisted_strategies, of the registry there is by now.
Load(t) ==
    /\ pc[t] = "load" /\ registry # None
    /\ LET names == {n \in Names : /\ rows[scope[registry]][n] # "none"
                                  /\ Named(registry, n) = {}}
       IN  \E f \in [names -> Unused] :
             /\ \A n, m \in names : f[n] = f[m] => n = m
             /\ inst' = [i \in Instances |->
                    IF \E n \in names : f[n] = i
                    THEN Restored(registry, CHOOSE n \in names : f[n] = i, i)
                    ELSE inst[i]]
    /\ Go(t, "act", [job[t] EXCEPT !.reg = registry])
    /\ UNCHANGED <<connection, registry, scope, rows, halted, seen>>

\* The registry was dropped while it was being built: the request fails.
LoadFails(t) ==
    /\ pc[t] = "load" /\ registry = None
    /\ Go(t, "idle", NoJob)
    /\ UNCHANGED <<connection, objects, rows, halted, seen>>
-----------------------------------------------------------------------------
(* create_strategy, start_strategy, stop_strategy and stop_all.             *)

\* The name is taken, or unknown, or the classes are not yet registered.
Refuse(t) ==
    /\ pc[t] = "act"
    /\ \/ job[t].act = "create" /\ Named(job[t].reg, job[t].name) # {}
       \/ job[t].act = "create" /\ \E u \in Requests : pc[u] = "load"
       \/ job[t].act \in {"start", "stop"} /\ Named(job[t].reg, job[t].name) = {}
    /\ Go(t, "idle", NoJob)
    /\ UNCHANGED <<connection, objects, rows, halted, seen>>

Find(t) ==
    /\ pc[t] = "act" /\ job[t].act \in {"start", "stop"} /\ ~job[t].found
    /\ Named(job[t].reg, job[t].name) # {}
    /\ Go(t, "access", [job[t] EXCEPT !.found = TRUE])
    /\ UNCHANGED <<connection, objects, rows, halted, seen>>

\* Mutant: a strategy of that name may exist.
InstantiateAgain(t, i) ==
    /\ pc[t] = "act" /\ job[t].act = "create"
    /\ i \in Unused
    /\ inst' = [inst EXCEPT ![i] = [name |-> job[t].name, reg |-> job[t].reg,
                                    account |-> job[t].account, state |-> "READY"]]
    /\ Go(t, "save", [job[t] EXCEPT !.on = i])
    /\ UNCHANGED <<connection, registry, scope, rows, halted, seen>>

Instantiate(t, i) ==
    /\ pc[t] = "act" /\ job[t].act = "create"
    /\ Named(job[t].reg, job[t].name) = {}
    /\ i \in Unused
    /\ inst' = [inst EXCEPT ![i] = [name |-> job[t].name, reg |-> job[t].reg,
                                    account |-> job[t].account, state |-> "READY"]]
    /\ Go(t, "save", [job[t] EXCEPT !.on = i])
    /\ UNCHANGED <<connection, registry, scope, rows, halted, seen>>

\* An upsert that leaves the running state of a row alone.
SaveInstance(t) ==
    /\ pc[t] = "save"
    /\ LET k == KeyOf(job[t].on)
       IN  rows' = [rows EXCEPT ![k][job[t].name] = IF @ = "none" THEN "READY" ELSE @]
    /\ Go(t, "idle", NoJob)
    /\ UNCHANGED <<connection, objects, halted, seen>>

\* start() leaves a strategy in ERROR alone.
StartInstance(t, i) ==
    /\ pc[t] = "act" /\ job[t].act = "start" /\ job[t].found
    /\ i \in Named(job[t].reg, job[t].name)
    /\ inst' = [inst EXCEPT ![i].state = IF @ \in {"READY", "STOPPED"} THEN "RUNNING" ELSE @]
    /\ Go(t, "read", [job[t] EXCEPT !.on = i])
    /\ UNCHANGED <<connection, registry, scope, rows, halted, seen>>

\* Mutant: a strategy is paused, not stopped.
PauseInstance(t, i) ==
    /\ \/ /\ pc[t] = "act" /\ job[t].act = "stop" /\ job[t].found
          /\ i \in Named(job[t].reg, job[t].name)
       \/ pc[t] = "next" /\ i \in job[t].todo /\ inst[i].state # "STOPPED"
    /\ inst' = [inst EXCEPT ![i].state = "PAUSED"]
    /\ Go(t, "read", [job[t] EXCEPT !.on = i, !.todo = @ \ {i}])
    /\ UNCHANGED <<connection, registry, scope, rows, halted, seen>>

StopInstance(t, i) ==
    /\ \/ /\ pc[t] = "act" /\ job[t].act = "stop" /\ job[t].found
          /\ i \in Named(job[t].reg, job[t].name)
       \/ pc[t] = "next" /\ i \in job[t].todo /\ inst[i].state # "STOPPED"
    /\ inst' = [inst EXCEPT ![i].state = "STOPPED"]
    /\ Go(t, "read", [job[t] EXCEPT !.on = i, !.todo = @ \ {i}])
    /\ UNCHANGED <<connection, registry, scope, rows, halted, seen>>

\* The state is read, and the row updated with it, if there is a row.
ReadState(t) ==
    /\ pc[t] = "read"
    /\ Go(t, "write", [job[t] EXCEPT !.value = inst[job[t].on].state])
    /\ UNCHANGED <<connection, objects, rows, halted, seen>>

\* Mutant: only the strategies that were asked for are persisted.
WriteUnlessHalting(t) ==
    /\ pc[t] = "write"
    /\ LET k == KeyOf(job[t].on)
           n == inst[job[t].on].name
       IN  rows' = [rows EXCEPT ![k][n] =
                       IF @ = "none" \/ job[t].act = "halt" THEN @ ELSE job[t].value]
    /\ Go(t, IF job[t].act = "halt" THEN "next" ELSE "idle",
             [job[t] EXCEPT !.on = None, !.value = "none"])
    /\ UNCHANGED <<connection, objects, halted, seen>>

WriteRow(t) ==
    /\ pc[t] = "write"
    /\ LET k == KeyOf(job[t].on)
           n == inst[job[t].on].name
       IN  rows' = [rows EXCEPT ![k][n] = IF @ = "none" THEN @ ELSE job[t].value]
    /\ Go(t, IF job[t].act = "halt" THEN "next" ELSE "idle",
             [job[t] EXCEPT !.on = None, !.value = "none"])
    /\ UNCHANGED <<connection, objects, halted, seen>>

\* stop_all works on a copy of the registry's strategies.
BeginStopAll(t) ==
    /\ pc[t] = "act" /\ job[t].act = "halt"
    /\ Go(t, "next", [job[t] EXCEPT !.todo = Members(job[t].reg)])
    /\ UNCHANGED <<connection, objects, rows, halted, seen>>

EndStopAll(t) ==
    /\ pc[t] = "next"
    /\ \A i \in job[t].todo : inst[i].state = "STOPPED"
    /\ halted' = IF \E u \in Requests : pc[u] # "idle" /\ job[u].act = "start"
                 THEN halted ELSE halted \cup {scope[job[t].reg]}
    /\ Go(t, "idle", NoJob)
    /\ UNCHANGED <<connection, objects, rows, seen>>
-----------------------------------------------------------------------------
(* The connection, the market and the process.                              *)

Running == {i \in Instances : inst[i].state = "RUNNING"}
Moving  == (IF Running # {} THEN {"reconnect"} ELSE {}) \cup (IF Busy THEN {"midway"} ELSE {})

\* set_connected; the account may be configured, or come with a callback.
Connect(a) ==
    /\ login = None /\ login' = a
    /\ registry' = None
    /\ \/ account' = a /\ Suffer(Moving)
       \/ account' = None /\ Suffer({"unknown"} \cup Moving)
    /\ UNCHANGED <<scope, inst, rows, halted, threads>>

UpdateConnectedAccount ==
    /\ login # None /\ account # login
    /\ account' = login
    /\ UNCHANGED <<login, objects, rows, halted, threads, seen>>

Disconnect ==
    /\ login # None /\ login' = None /\ account' = None
    /\ registry' = None
    /\ Suffer(Moving)
    /\ UNCHANGED <<scope, inst, rows, halted, threads>>

\* on_bar raises.
Fail(i) ==
    /\ i \in Running
    /\ inst' = [inst EXCEPT ![i].state = "ERROR"]
    /\ UNCHANGED <<connection, registry, scope, rows, halted, threads, seen>>

\* The process may end at any point; the table stays.
Restart ==
    /\ login' = None /\ account' = None /\ registry' = None
    /\ scope' = [r \in Registries |-> "none"]
    /\ inst' = [i \in Instances |-> NoInstance]
    /\ pc' = [t \in Requests |-> "idle"]
    /\ job' = [t \in Requests |-> NoJob]
    /\ UNCHANGED <<rows, halted, seen>>

Request(t) ==
    \/ \E n \in Names : Create(t, n) \/ Start(t, n) \/ Stop(t, n)
    \/ Halt(t)

Continue(t) ==
    \/ Access(t) \/ (\E r \in Registries : Build(t, r)) \/ Load(t) \/ LoadFails(t)
    \/ Refuse(t) \/ Find(t)
    \/ \E i \in Instances : Instantiate(t, i) \/ StartInstance(t, i) \/ StopInstance(t, i)
    \/ SaveInstance(t) \/ ReadState(t) \/ WriteRow(t)
    \/ BeginStopAll(t) \/ EndStopAll(t)

Next ==
    \/ \E t \in Requests : Request(t) \/ Continue(t)
    \/ \E a \in Accounts : Connect(a)
    \/ UpdateConnectedAccount \/ Disconnect
    \/ \E i \in Instances : Fail(i)
    \/ Restart

Spec == Init /\ [][Next]_vars
-----------------------------------------------------------------------------
TypeOK ==
    /\ login \in Keys /\ account \in Keys
    /\ registry \in Registries \cup {None}
    /\ scope \in [Registries -> Keys \cup {"none"}]
    /\ inst \in [Instances -> Instance]
    /\ rows \in [Keys -> [Names -> States \cup {"none"}]]
    /\ halted \subseteq Keys
    /\ pc \in [Requests -> Pc]
    /\ job \in [Requests -> Job]
    /\ seen \subseteq Hazards

(* What a halt has stopped stays stopped, over restarts and connections,    *)
(* until somebody asks for a start: no row of the account brings a strategy *)
(* back, and none of its registry runs - unless other requests were at work *)
(* at the same time.  (api_emergency.py:68, stop_all.)                      *)
HaltedStayStopped ==
    \A k \in halted :
        \/ /\ \A n \in Names : rows[k][n] # "RUNNING"
           /\ \A i \in Running : inst[i].reg = registry => scope[registry] # k
        \/ "overlap" \in seen

(* Nothing runs twice: a strategy of an account has one running instance,   *)
(* unless the connection changed under one that was running or under a      *)
(* request, or two requests built the registry together                     *)
(* (services.strategy_registry, set_connected).                             *)
RunsOnce ==
    \A i, j \in Running :
        \/ i = j
        \/ inst[i].name # inst[j].name \/ KeyOf(i) # KeyOf(j)
        \/ seen \cap {"overlap", "reconnect", "midway"} # {}

(* A restart brings back what was running and nothing else: between         *)
(* requests, the table says RUNNING of a strategy of the registry just when *)
(* it runs, or has failed (load_persisted_strategies).                      *)
RowsFollow ==
    \A r \in {registry} \ {None} : \A i \in Members(r) :
        \/ inst[i].state = "RUNNING" <=> rows[KeyOf(i)][inst[i].name] = "RUNNING"
        \/ inst[i].state = "ERROR"
        \/ Busy
        \/ seen \cap {"overlap", "unknown", "midway"} # {}

(* "Activate emergency stop: blocks all new orders and stops all running    *)
(* strategies." (docs/WEB_API_REFERENCE.md:1969.)  When a halt has returned *)
(* and nobody has asked for a start since, nothing runs.                    *)
HaltStopsAll == halted # {} /\ ~Busy => Running = {}

=============================================================================
