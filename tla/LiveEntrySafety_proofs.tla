------------------------ MODULE LiveEntrySafety_proofs ------------------------
(***************************************************************************)
(* One runner, exits of its own and by hand, and either a broker           *)
(* connection that may drop and a process that may die, or a disk that may *)
(* fail: whatever the symbols, the attempts and the limits, the broker     *)
(* never has two live entries on a symbol and everything it has is         *)
(* covered.  For the first, IInv (LiveEntryInv) is inductive: every action *)
(* has a lemma of its own, with a step for each conjunct whose variables   *)
(* the action changes.  For the second, LockInv is.                        *)
(***************************************************************************)
EXTENDS LiveEntry_proofs

\* The environment of these proofs.  TLC shows what goes wrong beyond it.
CoreEnv == Env \subseteq {"disconnect", "crash", "hand", "exits"}

USE DEF InRun, BeforeSend, AfterSend

\* The hazards the actions ask about are absent.
LEMMA CoreEnvExcludes ==
    CoreEnv => {"disk", "hasty", "late", "audit", "blind"} \cap Env = {}
BY DEF CoreEnv

LEMMA DrainFillsKeepsIInv ==
    ASSUME TypeOK, TypeOK', ExitsTrue', ExitsPriced', IInv, CoreEnv, NEW r, Runners = {r},
           DrainFills(r)
    PROVE  IInv'
<1>1. UnusedIsBlank' /\ NoDuplicateLiveEntry'
  BY DEF IInv, DrainFills, durable, UnusedIsBlank, NoDuplicateLiveEntry, Exposed
<1>2. EventsTrue'
  BY DEF IInv, DrainFills, Pending, EventsTrue
<1>3. GraceMeansSettled'
  BY DEF IInv, DrainFills, durable, GraceMeansSettled
<1>4. OrphansAreQuiet'
  BY DEF IInv, DrainFills, durable, Pending, Exposed, OrphansAreQuiet,
     PassesCurrent
<1>5. PassesCurrent'
  BY DEF IInv, DrainFills, Terminal, PassesCurrent, TypeOK
<1>6. RunsAlone'
  BY DEF IInv, DrainFills, Active, RunsAlone, PassesCurrent, ExposureIsCovered
<1>7. ExposureIsCovered'
  BY DEF IInv, DrainFills, durable, Exposed, Active, Terminal,
     ExposureIsCovered, PassesCurrent
<1> QED BY <1>1, <1>2, <1>3, <1>4, <1>5, <1>6, <1>7 DEF IInv

LEMMA ApplyFillKeepsIInv ==
    ASSUME TypeOK, TypeOK', ExitsTrue', ExitsPriced', IInv, CoreEnv, NEW r, Runners = {r},
           ApplyFill(r)
    PROVE  IInv'
<1>0. {"disk", "hasty", "late", "audit", "blind"} \cap Env = {}
  BY CoreEnvExcludes
<1>1. NoDuplicateLiveEntry'
  BY DEF IInv, ApplyFill, WriteLife, bridge, NoDuplicateLiveEntry, Exposed
<1>2. UnusedIsBlank'
  BY DEF IInv, ApplyFill, WriteLife, bridge, UnusedIsBlank, PassesCurrent,
     TypeOK
<1>3. EventsTrue'
  BY DEF IInv, ApplyFill, WriteLife, bridge, Pending, EventsTrue, TypeOK
<1>4. GraceMeansSettled'
  BY NoneAssumption DEF IInv, ApplyFill, WriteLife, bridge, GraceMeansSettled,
     UnusedIsBlank, TypeOK
<1>5. OrphansAreQuiet'
  BY DEF IInv, ApplyFill, WriteLife, bridge, Pending, Exposed, OrphansAreQuiet,
     PassesCurrent, TypeOK
<1>6. PassesCurrent'
  BY DEF IInv, ApplyFill, WriteLife, bridge, Terminal, PassesCurrent
<1>7. RunsAlone'
  BY DEF IInv, ApplyFill, WriteLife, bridge, Active, RunsAlone, PassesCurrent,
     ExposureIsCovered
<1>8. ExposureIsCovered'
  <2> SUFFICES ASSUME NEW a \in Attempts, Exposed(a)'
               PROVE  \/ life'[a] = "ORPHANED_ORDER"
                      \/ /\ Active(symbol[a])
                         /\ locks[symbol[a]].trade \in {None, a}
                         /\ ~Terminal(a)'
    BY DEF ExposureIsCovered, ApplyFill, bridge, Active
  <2>1. PICK e \in events[r] : \/ UNCHANGED <<trade, life>>
                              \/ /\ e.role = "entry"
                                 /\ life' = [life EXCEPT ![e.of] = "FILLED"]
                                 /\ UNCHANGED trade
                              \/ /\ e.role = "exit"
                                 /\ trade' = [trade EXCEPT ![e.of] = "CLOSED"]
                                 /\ life' = [life EXCEPT ![e.of] = "CLOSED"]
    BY <1>0 DEF ApplyFill, WriteLife
  <2>2. /\ pc[r] = "ingest" /\ Exposed(a)
        /\ e.of \in Attempts /\ e = Fill(e.role, e.of)
    BY DEF ApplyFill, bridge, Exposed, TypeOK, Event, Fill
  <2>3. e.role = "exit" => e.of # a
    BY <2>2 DEF IInv, EventsTrue, ExitsTrue, Pending, Exposed
  <2>4. e.role = "entry" /\ e.of = a => life[a] # "ORPHANED_ORDER"
    BY <2>2 DEF IInv, OrphansAreQuiet, Pending
  <2>5. \/ life[a] = "ORPHANED_ORDER"
        \/ /\ Active(symbol[a])
           /\ locks[symbol[a]].trade \in {None, a}
           /\ ~Terminal(a)
    BY <2>2 DEF IInv, ExposureIsCovered
  <2> QED BY <2>1, <2>2, <2>3, <2>4, <2>5 DEF Terminal, TypeOK
<1> QED BY <1>1, <1>2, <1>3, <1>4, <1>5, <1>6, <1>7, <1>8 DEF IInv

LEMMA DrainRejectsKeepsIInv ==
    ASSUME TypeOK, TypeOK', ExitsTrue', ExitsPriced', IInv, CoreEnv, NEW r, Runners = {r},
           DrainRejects(r)
    PROVE  IInv'
<1>1. UnusedIsBlank' /\ GraceMeansSettled' /\ NoDuplicateLiveEntry'
  BY DEF IInv, DrainRejects, durable, UnusedIsBlank, GraceMeansSettled,
     NoDuplicateLiveEntry, Exposed
<1>2. EventsTrue'
  BY DEF IInv, DrainRejects, Pending, EventsTrue
<1>3. OrphansAreQuiet'
  BY DEF IInv, DrainRejects, durable, Pending, Exposed, OrphansAreQuiet,
     PassesCurrent
<1>4. PassesCurrent'
  BY DEF IInv, DrainRejects, Terminal, PassesCurrent, EventsTrue, TypeOK
<1>5. RunsAlone'
  BY DEF IInv, DrainRejects, Active, RunsAlone, PassesCurrent, ExposureIsCovered
<1>6. ExposureIsCovered'
  BY DEF IInv, DrainRejects, durable, Exposed, Active, Terminal,
     ExposureIsCovered, PassesCurrent
<1> QED BY <1>1, <1>2, <1>3, <1>4, <1>5, <1>6 DEF IInv

LEMMA FailRejectedKeepsIInv ==
    ASSUME TypeOK, TypeOK', ExitsTrue', ExitsPriced', IInv, CoreEnv, NEW r, Runners = {r},
           FailRejected(r)
    PROVE  IInv'
<1>1. EventsTrue' /\ NoDuplicateLiveEntry'
  BY DEF IInv, FailRejected, Settle, WriteLife, bridge, EventsTrue,
     NoDuplicateLiveEntry, Pending, Exposed
<1>2. UnusedIsBlank'
  BY DEF IInv, FailRejected, Settle, WriteLife, bridge, UnusedIsBlank,
     PassesCurrent, TypeOK
<1>3. GraceMeansSettled'
  BY NoneAssumption DEF IInv, FailRejected, Settle, WriteLife, bridge,
     GraceMeansSettled, TypeOK
<1>4. OrphansAreQuiet'
  BY DEF IInv, FailRejected, Settle, WriteLife, bridge, Pending, Exposed,
     OrphansAreQuiet, PassesCurrent, TypeOK
<1>5. PassesCurrent'
  BY DEF IInv, FailRejected, Settle, WriteLife, bridge, Terminal, PassesCurrent
<1>6. RunsAlone'
  BY DEF IInv, FailRejected, Settle, WriteLife, bridge, Active, RunsAlone,
     PassesCurrent, ExposureIsCovered
<1>7. ExposureIsCovered'
  BY DEF IInv, FailRejected, Settle, WriteLife, bridge, Exposed, Active,
     Terminal, ExposureIsCovered, PassesCurrent, TypeOK
<1> QED BY <1>1, <1>2, <1>3, <1>4, <1>5, <1>6, <1>7 DEF IInv

LEMMA DrainExitsKeepsIInv ==
    ASSUME TypeOK, TypeOK', ExitsTrue', ExitsPriced', IInv, CoreEnv, NEW r, Runners = {r},
           DrainExits(r)
    PROVE  IInv'
<1>1. UnusedIsBlank' /\ GraceMeansSettled' /\ NoDuplicateLiveEntry'
  BY DEF IInv, DrainExits, durable, UnusedIsBlank, GraceMeansSettled,
     NoDuplicateLiveEntry, Exposed
<1>2. EventsTrue'
  BY DEF IInv, DrainExits, Pending, EventsTrue
<1>3. OrphansAreQuiet'
  BY DEF IInv, DrainExits, durable, Pending, Exposed, OrphansAreQuiet,
     PassesCurrent
<1>4. PassesCurrent'
  BY DEF IInv, DrainExits, Terminal, PassesCurrent, EventsTrue, ExitsTrue, TypeOK
<1>5. RunsAlone'
  BY DEF IInv, DrainExits, Active, RunsAlone, PassesCurrent, ExposureIsCovered
<1>6. ExposureIsCovered'
  BY DEF IInv, DrainExits, durable, Exposed, Active, Terminal,
     ExposureIsCovered, PassesCurrent
<1> QED BY <1>1, <1>2, <1>3, <1>4, <1>5, <1>6 DEF IInv

LEMMA CloseFilledKeepsIInv ==
    ASSUME TypeOK, TypeOK', ExitsTrue', ExitsPriced', IInv, CoreEnv, NEW r, Runners = {r},
           CloseFilled(r)
    PROVE  IInv'
<1>1. EventsTrue' /\ NoDuplicateLiveEntry'
  BY DEF IInv, CloseFilled, Settle, WriteLife, bridge, EventsTrue,
     NoDuplicateLiveEntry, Pending, Exposed
<1>2. UnusedIsBlank'
  BY DEF IInv, CloseFilled, Settle, WriteLife, bridge, UnusedIsBlank,
     PassesCurrent, TypeOK
<1>3. GraceMeansSettled'
  BY NoneAssumption DEF IInv, CloseFilled, Settle, WriteLife, bridge,
     GraceMeansSettled, TypeOK
<1>4. OrphansAreQuiet'
  BY DEF IInv, CloseFilled, Settle, WriteLife, bridge, Pending, Exposed,
     OrphansAreQuiet, PassesCurrent, TypeOK
<1>5. PassesCurrent'
  BY DEF IInv, CloseFilled, Settle, WriteLife, bridge, Terminal, PassesCurrent
<1>6. RunsAlone'
  BY DEF IInv, CloseFilled, Settle, WriteLife, bridge, Active, RunsAlone,
     PassesCurrent, ExposureIsCovered
<1>7. ExposureIsCovered'
  BY DEF IInv, CloseFilled, Settle, WriteLife, bridge, Exposed, Active,
     Terminal, ExposureIsCovered, PassesCurrent, TypeOK
<1> QED BY <1>1, <1>2, <1>3, <1>4, <1>5, <1>6, <1>7 DEF IInv

LEMMA ReadStaleKeepsIInv ==
    ASSUME TypeOK, TypeOK', ExitsTrue', ExitsPriced', IInv, CoreEnv, NEW r, Runners = {r},
           ReadStale(r)
    PROVE  IInv'
<1>1. UnusedIsBlank' /\ EventsTrue' /\ GraceMeansSettled' /\
      NoDuplicateLiveEntry'
  BY DEF IInv, ReadStale, durable, bridge, UnusedIsBlank, EventsTrue,
     GraceMeansSettled, NoDuplicateLiveEntry, Pending, Exposed
<1>2. OrphansAreQuiet'
  BY DEF IInv, ReadStale, durable, bridge, Pending, Exposed, OrphansAreQuiet,
     GraceMeansSettled, PassesCurrent
<1>3. PassesCurrent'
  BY DEF IInv, ReadStale, bridge, Terminal, PassesCurrent, TypeOK
<1>4. RunsAlone'
  BY DEF IInv, ReadStale, bridge, Active, RunsAlone, PassesCurrent,
     ExposureIsCovered
<1>5. ExposureIsCovered'
  BY DEF IInv, ReadStale, durable, bridge, Exposed, Active, Terminal,
     ExposureIsCovered, PassesCurrent
<1> QED BY <1>1, <1>2, <1>3, <1>4, <1>5 DEF IInv

LEMMA CloseStaleKeepsIInv ==
    ASSUME TypeOK, TypeOK', ExitsTrue', ExitsPriced', IInv, CoreEnv, NEW r, Runners = {r},
           CloseStale(r)
    PROVE  IInv'
<1>1. EventsTrue' /\ NoDuplicateLiveEntry'
  BY DEF IInv, CloseStale, bridge, EventsTrue, NoDuplicateLiveEntry, Pending,
     Exposed
<1>2. UnusedIsBlank'
  BY DEF IInv, CloseStale, bridge, UnusedIsBlank, PassesCurrent,
     OrphansAreQuiet, GraceMeansSettled, TypeOK
<1>3. GraceMeansSettled'
  BY DEF IInv, CloseStale, bridge, GraceMeansSettled, UnusedIsBlank, TypeOK
<1>4. OrphansAreQuiet'
  BY DEF IInv, CloseStale, bridge, Pending, Exposed, OrphansAreQuiet,
     PassesCurrent, TypeOK
<1>5. PassesCurrent'
  BY DEF IInv, CloseStale, bridge, Terminal, PassesCurrent, TypeOK
<1>6. RunsAlone'
  BY DEF IInv, CloseStale, bridge, Active, RunsAlone, PassesCurrent,
     ExposureIsCovered, TypeOK
<1>7. ExposureIsCovered'
  BY DEF IInv, CloseStale, bridge, Exposed, Active, Terminal, ExposureIsCovered,
     PassesCurrent, TypeOK
<1> QED BY <1>1, <1>2, <1>3, <1>4, <1>5, <1>6, <1>7 DEF IInv

LEMMA RecordOrphanKeepsIInv ==
    ASSUME TypeOK, TypeOK', ExitsTrue', ExitsPriced', IInv, CoreEnv, NEW r, Runners = {r},
           RecordOrphan(r)
    PROVE  IInv'
<1>0. {"disk", "hasty", "late", "audit", "blind"} \cap Env = {}
  BY CoreEnvExcludes
<1>1. UnusedIsBlank' /\ EventsTrue' /\ GraceMeansSettled' /\
      NoDuplicateLiveEntry'
  BY DEF IInv, RecordOrphan, WriteLife, bridge, UnusedIsBlank, EventsTrue,
     GraceMeansSettled, NoDuplicateLiveEntry, Pending, Exposed
<1>2. OrphansAreQuiet'
  BY DEF IInv, RecordOrphan, WriteLife, bridge, Pending, Exposed,
     OrphansAreQuiet, PassesCurrent, TypeOK
<1>3. PassesCurrent'
  BY DEF IInv, RecordOrphan, WriteLife, bridge, Terminal, PassesCurrent, TypeOK
<1>4. RunsAlone'
  BY DEF IInv, RecordOrphan, WriteLife, bridge, Active, RunsAlone,
     PassesCurrent, ExposureIsCovered
<1>5. ExposureIsCovered'
  BY <1>0 DEF IInv, RecordOrphan, WriteLife, bridge, Exposed, Active, Terminal,
     ExposureIsCovered, PassesCurrent, TypeOK
<1> QED BY <1>1, <1>2, <1>3, <1>4, <1>5 DEF IInv

LEMMA ReadLocksKeepsIInv ==
    ASSUME TypeOK, TypeOK', ExitsTrue', ExitsPriced', IInv, CoreEnv, NEW r, Runners = {r},
           ReadLocks(r)
    PROVE  IInv'
<1>1. UnusedIsBlank' /\ EventsTrue' /\ GraceMeansSettled' /\
      NoDuplicateLiveEntry'
  BY DEF IInv, ReadLocks, durable, bridge, Releasable, UnusedIsBlank,
     EventsTrue, GraceMeansSettled, NoDuplicateLiveEntry, Pending, Exposed
<1>2. OrphansAreQuiet'
  BY DEF IInv, ReadLocks, durable, bridge, Releasable, Pending, Exposed,
     OrphansAreQuiet, PassesCurrent
<1>3. PassesCurrent'
  BY DEF IInv, ReadLocks, durable, bridge, Releasable, Terminal, PassesCurrent,
     TypeOK
<1>4. RunsAlone'
  BY DEF IInv, ReadLocks, bridge, Releasable, Active, RunsAlone, PassesCurrent,
     ExposureIsCovered
<1>5. ExposureIsCovered'
  BY DEF IInv, ReadLocks, durable, bridge, Releasable, Exposed, Active,
     Terminal, ExposureIsCovered, PassesCurrent
<1> QED BY <1>1, <1>2, <1>3, <1>4, <1>5 DEF IInv

LEMMA ReleaseLockKeepsIInv ==
    ASSUME TypeOK, TypeOK', ExitsTrue', ExitsPriced', IInv, CoreEnv, NEW r, Runners = {r},
           ReleaseLock(r)
    PROVE  IInv'
<1>0. {"disk", "hasty", "late", "audit", "blind"} \cap Env = {}
  BY CoreEnvExcludes
<1>1. UnusedIsBlank' /\ EventsTrue' /\ GraceMeansSettled' /\ OrphansAreQuiet'
      /\ NoDuplicateLiveEntry'
  BY DEF IInv, ReleaseLock, ClearLock, bridge, UnusedIsBlank, EventsTrue,
     GraceMeansSettled, OrphansAreQuiet, NoDuplicateLiveEntry, Pending, Exposed
<1>2. PassesCurrent'
  BY DEF IInv, ReleaseLock, ClearLock, bridge, Terminal, PassesCurrent, TypeOK
<1>3. RunsAlone'
  BY DEF IInv, ReleaseLock, ClearLock, bridge, Active, RunsAlone, PassesCurrent,
     ExposureIsCovered
<1>4. ExposureIsCovered'
  <2>1. PICK s \in keys[r] :
           /\ locks' = [locks EXCEPT ![s] = [status |-> "CLEARED", trade |-> @.trade]]
           /\ pc[r] = "release"
    BY <1>0 DEF ReleaseLock, ClearLock
  <2>2. /\ s \in Symbols
        /\ \A t \in Symbols \ {s} : locks'[t] = locks[t]
    BY <2>1 DEF TypeOK
  <2>3. locks[s].trade # None /\ Terminal(locks[s].trade)
    BY <2>1 DEF IInv, PassesCurrent
  <2>4. UNCHANGED <<trade, life, symbol, broker, pc, leg>>
    BY DEF ReleaseLock, bridge
  <2>5. ASSUME NEW a \in Attempts, Exposed(a), life[a] # "ORPHANED_ORDER"
        PROVE  symbol[a] \in Symbols \ {s} /\ Active(symbol[a])
               /\ locks[symbol[a]].trade \in {None, a} /\ ~Terminal(a)
    BY <2>1, <2>3, <2>5 DEF IInv, ExposureIsCovered, UnusedIsBlank, Exposed, TypeOK
  <2> QED BY <2>2, <2>4, <2>5 DEF ExposureIsCovered, Exposed, Active, Terminal
<1> QED BY <1>1, <1>2, <1>3, <1>4 DEF IInv

LEMMA EndPassKeepsIInv ==
    ASSUME TypeOK, TypeOK', ExitsTrue', ExitsPriced', IInv, CoreEnv, NEW r, Runners = {r},
           EndPass(r)
    PROVE  IInv'
<1>1. UnusedIsBlank' /\ EventsTrue' /\ GraceMeansSettled' /\
      NoDuplicateLiveEntry'
  BY DEF IInv, EndPass, durable, bridge, UnusedIsBlank, EventsTrue,
     GraceMeansSettled, NoDuplicateLiveEntry, Pending, Exposed
<1>2. OrphansAreQuiet'
  BY DEF IInv, EndPass, durable, bridge, Pending, Exposed, OrphansAreQuiet,
     PassesCurrent
<1>3. PassesCurrent'
  BY DEF IInv, EndPass, bridge, Terminal, PassesCurrent
<1>4. RunsAlone'
  BY DEF IInv, EndPass, bridge, Active, RunsAlone, PassesCurrent,
     ExposureIsCovered
<1>5. ExposureIsCovered'
  BY DEF IInv, EndPass, durable, bridge, Exposed, Active, Terminal,
     ExposureIsCovered, PassesCurrent
<1> QED BY <1>1, <1>2, <1>3, <1>4, <1>5 DEF IInv

LEMMA PlanKeepsIInv ==
    ASSUME TypeOK, TypeOK', ExitsTrue', ExitsPriced', IInv, CoreEnv, NEW r, Runners = {r},
           Plan(r)
    PROVE  IInv'
<1>1. UnusedIsBlank' /\ EventsTrue' /\ GraceMeansSettled' /\
      NoDuplicateLiveEntry'
  BY DEF IInv, Plan, durable, bridge, GatesReady, SafeToTrade,
     LifecyclesSettled, UnusedIsBlank, EventsTrue, GraceMeansSettled,
     NoDuplicateLiveEntry, Pending, Exposed
<1>2. OrphansAreQuiet'
  BY DEF IInv, Plan, durable, bridge, GatesReady, SafeToTrade,
     LifecyclesSettled, OrphansAreQuiet, PassesCurrent
<1>3. PassesCurrent'
  BY DEF IInv, Plan, bridge, GatesReady, SafeToTrade, LifecyclesSettled,
     Terminal, PassesCurrent
<1>4. RunsAlone'
  BY DEF IInv, Plan, durable, bridge, GatesReady, SafeToTrade,
     LifecyclesSettled, Active, RunsAlone, PassesCurrent, ExposureIsCovered
<1>5. ExposureIsCovered'
  BY DEF IInv, Plan, durable, bridge, GatesReady, SafeToTrade,
     LifecyclesSettled, Exposed, Active, Terminal, ExposureIsCovered, PassesCurrent
<1> QED BY <1>1, <1>2, <1>3, <1>4, <1>5 DEF IInv

LEMMA PreflightKeepsIInv ==
    ASSUME TypeOK, TypeOK', ExitsTrue', ExitsPriced', IInv, CoreEnv, NEW r, Runners = {r},
           Preflight(r)
    PROVE  IInv'
<1>1. UnusedIsBlank' /\ EventsTrue' /\ GraceMeansSettled' /\
      NoDuplicateLiveEntry'
  BY DEF IInv, Preflight, Return, bridge, UnusedIsBlank, EventsTrue,
     GraceMeansSettled, NoDuplicateLiveEntry, Pending, Exposed
<1>2. OrphansAreQuiet'
  BY DEF IInv, Preflight, Return, bridge, OrphansAreQuiet, PassesCurrent,
     RunsAlone, TypeOK
<1>3. PassesCurrent'
  BY DEF IInv, Preflight, Return, bridge, Terminal, PassesCurrent, TypeOK
<1>4. RunsAlone'
  BY DEF IInv, Preflight, Return, bridge, Active, RunsAlone, PassesCurrent,
     ExposureIsCovered, TypeOK
<1>5. ExposureIsCovered'
  BY DEF IInv, Preflight, Return, bridge, Exposed, Active, Terminal,
     ExposureIsCovered, PassesCurrent
<1> QED BY <1>1, <1>2, <1>3, <1>4, <1>5 DEF IInv

LEMMA StartLegKeepsIInv ==
    ASSUME TypeOK, TypeOK', ExitsTrue', ExitsPriced', IInv, CoreEnv, NEW r, Runners = {r},
           StartLeg(r)
    PROVE  IInv'
<1>1. EventsTrue'
  BY DEF IInv, StartLeg, Return, bridge, Duplicate, OpenTrades, EventsTrue,
     Pending
<1>2. UnusedIsBlank'
  BY DEF IInv, StartLeg, Return, bridge, Duplicate, OpenTrades, UnusedIsBlank,
     PassesCurrent, TypeOK
<1>3. GraceMeansSettled'
  BY DEF IInv, StartLeg, Return, bridge, Duplicate, OpenTrades,
     GraceMeansSettled, UnusedIsBlank, TypeOK
<1>4. OrphansAreQuiet'
  BY DEF IInv, StartLeg, Return, bridge, Duplicate, OpenTrades, OrphansAreQuiet,
     PassesCurrent, RunsAlone, TypeOK
<1>5. PassesCurrent'
  BY DEF IInv, StartLeg, Return, bridge, Duplicate, OpenTrades, Terminal,
     PassesCurrent, TypeOK
<1>6. RunsAlone'
  BY DEF IInv, StartLeg, Return, bridge, Duplicate, OpenTrades, Exposed, Active,
     RunsAlone, PassesCurrent, UnusedIsBlank, ExposureIsCovered, TypeOK
<1>7. ExposureIsCovered'
  <2>1. /\ UNCHANGED <<locks, trade, life, broker>>
        /\ \A a \in Attempts : broker[a] # "none" => symbol'[a] = symbol[a]
        /\ pc[r] # "orphan"
    BY DEF StartLeg, IInv, UnusedIsBlank, TypeOK
  <2> QED BY <2>1 DEF IInv, ExposureIsCovered, Exposed, Active, Terminal
<1>8. NoDuplicateLiveEntry'
  <2>1. /\ UNCHANGED broker
        /\ \A a \in Attempts : broker[a] # "none" => symbol'[a] = symbol[a]
    BY DEF StartLeg, IInv, UnusedIsBlank, TypeOK
  <2> QED BY <2>1 DEF IInv, NoDuplicateLiveEntry, Exposed
<1> QED BY <1>1, <1>2, <1>3, <1>4, <1>5, <1>6, <1>7, <1>8 DEF IInv

LEMMA AcquireLockKeepsIInv ==
    ASSUME TypeOK, TypeOK', ExitsTrue', ExitsPriced', IInv, CoreEnv, NEW r, Runners = {r},
           AcquireLock(r)
    PROVE  IInv'
<1>1. UnusedIsBlank' /\ EventsTrue' /\ GraceMeansSettled' /\
      NoDuplicateLiveEntry'
  BY DEF IInv, AcquireLock, Return, bridge, UnusedIsBlank, EventsTrue,
     GraceMeansSettled, NoDuplicateLiveEntry, Pending, Exposed
<1>2. OrphansAreQuiet'
  BY DEF IInv, AcquireLock, Return, bridge, OrphansAreQuiet, PassesCurrent,
     RunsAlone, TypeOK
<1>3. PassesCurrent'
  BY DEF IInv, AcquireLock, Return, bridge, Terminal, PassesCurrent, TypeOK
<1>4. RunsAlone'
  BY DEF IInv, AcquireLock, Return, bridge, Exposed, Active, RunsAlone,
     PassesCurrent, ExposureIsCovered, TypeOK
<1>5. ExposureIsCovered'
  <2>1. \A a \in Attempts : Exposed(a) => symbol[a] \in Symbols \ {symbol[leg[r]]}
    BY DEF AcquireLock, IInv, RunsAlone, UnusedIsBlank, Exposed, TypeOK
  <2>2. /\ \A t \in Symbols \ {symbol[leg[r]]} : locks'[t] = locks[t]
        /\ UNCHANGED <<trade, life, symbol, broker>>
        /\ pc[r] # "orphan"
    BY DEF AcquireLock, bridge, TypeOK
  <2> QED BY <2>1, <2>2 DEF IInv, ExposureIsCovered, Exposed, Active, Terminal
<1> QED BY <1>1, <1>2, <1>3, <1>4, <1>5 DEF IInv

LEMMA RecordPlannedKeepsIInv ==
    ASSUME TypeOK, TypeOK', ExitsTrue', ExitsPriced', IInv, CoreEnv, NEW r, Runners = {r},
           RecordPlanned(r)
    PROVE  IInv'
<1>0. {"disk", "hasty", "late", "audit", "blind"} \cap Env = {}
  BY CoreEnvExcludes
<1>1. UnusedIsBlank' /\ EventsTrue' /\ GraceMeansSettled' /\
      NoDuplicateLiveEntry'
  BY DEF IInv, RecordPlanned, GiveUp, Return, WriteLife, ClearLock, bridge,
     UnusedIsBlank, EventsTrue, GraceMeansSettled, NoDuplicateLiveEntry, Pending,
     Exposed
<1>2. OrphansAreQuiet'
  BY DEF IInv, RecordPlanned, GiveUp, Return, WriteLife, ClearLock, bridge,
     OrphansAreQuiet, PassesCurrent, RunsAlone, TypeOK
<1>3. PassesCurrent'
  BY DEF IInv, RecordPlanned, GiveUp, Return, WriteLife, ClearLock, bridge,
     Terminal, PassesCurrent, TypeOK
<1>4. RunsAlone'
  BY DEF IInv, RecordPlanned, GiveUp, Return, WriteLife, ClearLock, bridge,
     Exposed, Active, RunsAlone, PassesCurrent, ExposureIsCovered, TypeOK
<1>5. ExposureIsCovered'
  <2>1. \A a \in Attempts : Exposed(a) => symbol[a] \in Symbols \ {symbol[leg[r]]}
    BY DEF RecordPlanned, IInv, RunsAlone, UnusedIsBlank, Exposed, TypeOK
  <2>2. /\ \A t \in Symbols \ {symbol[leg[r]]} : locks'[t] = locks[t]
        /\ \A a \in Attempts : Exposed(a) => life'[a] = life[a]
        /\ UNCHANGED <<trade, symbol, broker>>
        /\ pc[r] # "orphan"
    BY <1>0 DEF RecordPlanned, GiveUp, ClearLock, WriteLife, IInv, RunsAlone, Exposed,
                bridge, TypeOK
  <2> QED BY <2>1, <2>2 DEF IInv, ExposureIsCovered, Exposed, Active, Terminal
<1> QED BY <1>1, <1>2, <1>3, <1>4, <1>5 DEF IInv

LEMMA ExecuteRefusedKeepsIInv ==
    ASSUME TypeOK, TypeOK', ExitsTrue', ExitsPriced', IInv, CoreEnv, NEW r, Runners = {r},
           ExecuteRefused(r)
    PROVE  IInv'
<1>0. {"disk", "hasty", "late", "audit", "blind"} \cap Env = {}
  BY CoreEnvExcludes
<1>1. UnusedIsBlank' /\ EventsTrue' /\ GraceMeansSettled' /\
      NoDuplicateLiveEntry'
  BY DEF IInv, ExecuteRefused, GiveUp, Return, WriteLife, ClearLock, bridge,
     UnusedIsBlank, EventsTrue, GraceMeansSettled, NoDuplicateLiveEntry, Pending,
     Exposed
<1>2. OrphansAreQuiet'
  BY DEF IInv, ExecuteRefused, GiveUp, Return, WriteLife, ClearLock, bridge,
     OrphansAreQuiet, PassesCurrent, RunsAlone, TypeOK
<1>3. PassesCurrent'
  BY DEF IInv, ExecuteRefused, GiveUp, Return, WriteLife, ClearLock, bridge,
     Terminal, PassesCurrent
<1>4. RunsAlone'
  BY DEF IInv, ExecuteRefused, GiveUp, Return, WriteLife, ClearLock, bridge,
     Active, RunsAlone, PassesCurrent, ExposureIsCovered, TypeOK
<1>5. ExposureIsCovered'
  <2>1. \A a \in Attempts : Exposed(a) => symbol[a] \in Symbols \ {symbol[leg[r]]}
    BY DEF ExecuteRefused, IInv, RunsAlone, UnusedIsBlank, Exposed, TypeOK
  <2>2. /\ \A t \in Symbols \ {symbol[leg[r]]} : locks'[t] = locks[t]
        /\ \A a \in Attempts : Exposed(a) => life'[a] = life[a]
        /\ UNCHANGED <<trade, symbol, broker>>
        /\ pc[r] # "orphan"
    BY <1>0 DEF ExecuteRefused, GiveUp, ClearLock, WriteLife, IInv, RunsAlone, Exposed,
                bridge, TypeOK
  <2> QED BY <2>1, <2>2 DEF IInv, ExposureIsCovered, Exposed, Active, Terminal
<1> QED BY <1>1, <1>2, <1>3, <1>4, <1>5 DEF IInv

LEMMA PlaceBracketKeepsIInv ==
    ASSUME TypeOK, TypeOK', ExitsTrue', ExitsPriced', IInv, CoreEnv, NEW r, Runners = {r},
           PlaceBracket(r)
    PROVE  IInv'
<1>1. UnusedIsBlank'
  BY NoneAssumption DEF IInv, PlaceBracket, durable, bridge, UnusedIsBlank,
     RunsAlone, PassesCurrent
<1>2. EventsTrue'
  BY DEF IInv, PlaceBracket, bridge, Pending, EventsTrue, RunsAlone
<1>3. GraceMeansSettled'
  <2>1. leg[r] \in Attempts /\ leg[r] \notin aged
    BY DEF PlaceBracket, IInv, RunsAlone, GraceMeansSettled
  <2>2. \A a \in aged : broker'[a] = broker[a]
    BY <2>1 DEF PlaceBracket, TypeOK
  <2> QED BY <2>2 DEF IInv, GraceMeansSettled, PlaceBracket, durable, bridge
<1>4. OrphansAreQuiet'
  BY DEF IInv, PlaceBracket, durable, bridge, OrphansAreQuiet, PassesCurrent,
     RunsAlone
<1>5. PassesCurrent'
  BY DEF IInv, PlaceBracket, bridge, Terminal, PassesCurrent
<1>6. RunsAlone'
  BY DEF IInv, PlaceBracket, durable, bridge, Exposed, Active, RunsAlone,
     PassesCurrent, ExposureIsCovered, TypeOK
<1>7. ExposureIsCovered'
  BY DEF IInv, PlaceBracket, durable, bridge, Exposed, Active, Terminal,
     ExposureIsCovered, PassesCurrent, RunsAlone
<1>8. NoDuplicateLiveEntry'
  BY DEF IInv, PlaceBracket, durable, bridge, Exposed, NoDuplicateLiveEntry,
     RunsAlone
<1> QED BY <1>1, <1>2, <1>3, <1>4, <1>5, <1>6, <1>7, <1>8 DEF IInv

LEMMA AuditWrittenKeepsIInv ==
    ASSUME TypeOK, TypeOK', ExitsTrue', ExitsPriced', IInv, CoreEnv, NEW r, Runners = {r},
           AuditWritten(r)
    PROVE  IInv'
<1>1. UnusedIsBlank' /\ EventsTrue' /\ GraceMeansSettled' /\
      NoDuplicateLiveEntry'
  BY DEF IInv, AuditWritten, durable, bridge, UnusedIsBlank, EventsTrue,
     GraceMeansSettled, NoDuplicateLiveEntry, Pending, Exposed
<1>2. OrphansAreQuiet'
  BY DEF IInv, AuditWritten, durable, bridge, OrphansAreQuiet, PassesCurrent,
     RunsAlone
<1>3. PassesCurrent'
  BY DEF IInv, AuditWritten, bridge, Terminal, PassesCurrent
<1>4. RunsAlone'
  BY DEF IInv, AuditWritten, durable, bridge, Exposed, Active, RunsAlone,
     PassesCurrent, ExposureIsCovered
<1>5. ExposureIsCovered'
  BY DEF IInv, AuditWritten, durable, bridge, Exposed, Active, Terminal,
     ExposureIsCovered, PassesCurrent
<1> QED BY <1>1, <1>2, <1>3, <1>4, <1>5 DEF IInv

LEMMA RecordSubmittedKeepsIInv ==
    ASSUME TypeOK, TypeOK', ExitsTrue', ExitsPriced', IInv, CoreEnv, NEW r, Runners = {r},
           RecordSubmitted(r)
    PROVE  IInv'
<1>1. UnusedIsBlank' /\ EventsTrue' /\ GraceMeansSettled' /\
      NoDuplicateLiveEntry'
  BY DEF IInv, RecordSubmitted, WriteLife, bridge, UnusedIsBlank, EventsTrue,
     GraceMeansSettled, NoDuplicateLiveEntry, Pending, Exposed
<1>2. OrphansAreQuiet'
  BY DEF IInv, RecordSubmitted, WriteLife, bridge, OrphansAreQuiet,
     PassesCurrent, RunsAlone, TypeOK
<1>3. PassesCurrent'
  BY DEF IInv, RecordSubmitted, WriteLife, bridge, Terminal, PassesCurrent
<1>4. RunsAlone'
  BY DEF IInv, RecordSubmitted, WriteLife, bridge, Exposed, Active, RunsAlone,
     PassesCurrent, ExposureIsCovered, TypeOK
<1>5. ExposureIsCovered'
  BY DEF IInv, RecordSubmitted, WriteLife, bridge, Exposed, Active, Terminal,
     ExposureIsCovered, PassesCurrent, RunsAlone
<1> QED BY <1>1, <1>2, <1>3, <1>4, <1>5 DEF IInv

LEMMA RecordTradeKeepsIInv ==
    ASSUME TypeOK, TypeOK', ExitsTrue', ExitsPriced', IInv, CoreEnv, NEW r, Runners = {r},
           RecordTrade(r)
    PROVE  IInv'
<1>1. EventsTrue' /\ NoDuplicateLiveEntry'
  BY DEF IInv, RecordTrade, Return, bridge, EventsTrue, NoDuplicateLiveEntry,
     Pending, Exposed
<1>2. UnusedIsBlank'
  BY NoneAssumption DEF IInv, RecordTrade, Return, bridge, UnusedIsBlank,
     RunsAlone, PassesCurrent, TypeOK
<1>3. GraceMeansSettled'
  BY DEF IInv, RecordTrade, Return, bridge, GraceMeansSettled, UnusedIsBlank,
     TypeOK
<1>4. OrphansAreQuiet'
  BY DEF IInv, RecordTrade, Return, bridge, OrphansAreQuiet, PassesCurrent,
     RunsAlone, TypeOK
<1>5. PassesCurrent'
  BY DEF IInv, RecordTrade, Return, bridge, Terminal, PassesCurrent, TypeOK
<1>6. RunsAlone'
  BY DEF IInv, RecordTrade, Return, bridge, Exposed, Active, RunsAlone,
     PassesCurrent, ExposureIsCovered, TypeOK
<1>7. ExposureIsCovered'
  BY DEF IInv, RecordTrade, Return, bridge, Exposed, Active, Terminal,
     ExposureIsCovered, PassesCurrent, TypeOK
<1> QED BY <1>1, <1>2, <1>3, <1>4, <1>5, <1>6, <1>7 DEF IInv

LEMMA MarkSubmittedKeepsIInv ==
    ASSUME TypeOK, TypeOK', ExitsTrue', ExitsPriced', IInv, CoreEnv, NEW r, Runners = {r},
           MarkSubmitted(r)
    PROVE  IInv'
<1>0. {"disk", "hasty", "late", "audit", "blind"} \cap Env = {}
  BY CoreEnvExcludes
<1>1. UnusedIsBlank' /\ EventsTrue' /\ GraceMeansSettled' /\
      NoDuplicateLiveEntry'
  BY DEF IInv, MarkSubmitted, bridge, UnusedIsBlank, EventsTrue,
     GraceMeansSettled, NoDuplicateLiveEntry, Pending, Exposed
<1>2. OrphansAreQuiet'
  BY DEF IInv, MarkSubmitted, bridge, OrphansAreQuiet, PassesCurrent, RunsAlone
<1>3. PassesCurrent'
  BY DEF IInv, MarkSubmitted, bridge, Terminal, PassesCurrent
<1>4. RunsAlone'
  BY DEF IInv, MarkSubmitted, bridge, Active, RunsAlone, PassesCurrent,
     ExposureIsCovered, TypeOK
<1>5. ExposureIsCovered'
  <2> DEFINE s == symbol[leg[r]]
  <2>1. /\ s \in Symbols /\ leg[r] \in Attempts
        /\ Exposed(leg[r]) => ~Terminal(leg[r])
        /\ \A a \in Attempts \ {leg[r]} : Exposed(a) => symbol[a] \in Symbols \ {s}
    BY DEF MarkSubmitted, IInv, RunsAlone, UnusedIsBlank, ExposureIsCovered, Exposed, TypeOK
  <2>2. /\ locks'[s] = [status |-> "SUBMITTED", trade |-> leg[r]]
        /\ \A t \in Symbols \ {s} : locks'[t] = locks[t]
        /\ UNCHANGED <<trade, life, symbol, broker>>
        /\ pc[r] # "orphan"
    BY <1>0, <2>1 DEF MarkSubmitted, bridge, TypeOK
  <2> QED BY <2>1, <2>2 DEF IInv, ExposureIsCovered, Exposed, Active, Terminal
<1> QED BY <1>1, <1>2, <1>3, <1>4, <1>5 DEF IInv

LEMMA EntryFillsKeepsIInv ==
    ASSUME TypeOK, TypeOK', ExitsTrue', ExitsPriced', IInv, CoreEnv, NEW r, Runners = {r},
           NEW a \in Attempts, EntryFills(a)
    PROVE  IInv'
<1>1. UnusedIsBlank'
  BY DEF IInv, EntryFills, Report, durable, local, UnusedIsBlank, PassesCurrent
<1>2. EventsTrue'
  BY DEF IInv, EntryFills, Report, local, Pending, Fill, EventsTrue
<1>3. GraceMeansSettled'
  BY DEF IInv, EntryFills, Report, durable, local, Fill, GraceMeansSettled,
     TypeOK
<1>4. OrphansAreQuiet'
  BY DEF IInv, EntryFills, Report, durable, local, Pending, Fill, Exposed,
     OrphansAreQuiet, GraceMeansSettled, PassesCurrent
<1>5. PassesCurrent'
  BY DEF IInv, EntryFills, Report, durable, local, Terminal, PassesCurrent
<1>6. RunsAlone'
  BY DEF IInv, EntryFills, Report, durable, local, Exposed, Active, RunsAlone,
     PassesCurrent, ExposureIsCovered
<1>7. ExposureIsCovered'
  BY DEF IInv, EntryFills, Report, durable, local, Exposed, Active, Terminal,
     ExposureIsCovered, PassesCurrent
<1>8. NoDuplicateLiveEntry'
  BY DEF IInv, EntryFills, Report, durable, local, Exposed, NoDuplicateLiveEntry
<1> QED BY <1>1, <1>2, <1>3, <1>4, <1>5, <1>6, <1>7, <1>8 DEF IInv

LEMMA EntryRefusedKeepsIInv ==
    ASSUME TypeOK, TypeOK', ExitsTrue', ExitsPriced', IInv, CoreEnv, NEW r, Runners = {r},
           NEW a \in Attempts, EntryRefused(a)
    PROVE  IInv'
<1>1. UnusedIsBlank'
  BY DEF IInv, EntryRefused, durable, local, UnusedIsBlank, PassesCurrent
<1>2. EventsTrue'
  BY DEF IInv, EntryRefused, local, Pending, EventsTrue, TypeOK
<1>3. GraceMeansSettled'
  BY DEF IInv, EntryRefused, durable, local, GraceMeansSettled, TypeOK
<1>4. OrphansAreQuiet'
  BY DEF IInv, EntryRefused, durable, local, Pending, Exposed, OrphansAreQuiet,
     PassesCurrent
<1>5. PassesCurrent'
  BY DEF IInv, EntryRefused, durable, local, Terminal, PassesCurrent
<1>6. RunsAlone'
  BY DEF IInv, EntryRefused, durable, local, Exposed, Active, RunsAlone,
     PassesCurrent, ExposureIsCovered
<1>7. ExposureIsCovered'
  BY DEF IInv, EntryRefused, durable, local, Exposed, Active, Terminal,
     ExposureIsCovered, PassesCurrent
<1>8. NoDuplicateLiveEntry'
  BY DEF IInv, EntryRefused, durable, local, Exposed, NoDuplicateLiveEntry
<1> QED BY <1>1, <1>2, <1>3, <1>4, <1>5, <1>6, <1>7, <1>8 DEF IInv

LEMMA ExitFillsKeepsIInv ==
    ASSUME TypeOK, TypeOK', ExitsTrue', ExitsPriced', IInv, CoreEnv, NEW r, Runners = {r},
           NEW a \in Attempts, ExitFills(a)
    PROVE  IInv'
<1>1. UnusedIsBlank'
  BY DEF IInv, ExitFills, Report, durable, local, UnusedIsBlank, PassesCurrent
<1>2. EventsTrue'
  BY DEF IInv, ExitFills, Report, local, Pending, Fill, EventsTrue, TypeOK
<1>3. GraceMeansSettled'
  BY DEF IInv, ExitFills, Report, durable, local, Fill, GraceMeansSettled,
     TypeOK
<1>4. OrphansAreQuiet'
  BY DEF IInv, ExitFills, Report, durable, local, Pending, Fill, Exposed,
     OrphansAreQuiet, PassesCurrent
<1>5. PassesCurrent'
  BY DEF IInv, ExitFills, Report, durable, local, Terminal, PassesCurrent
<1>6. RunsAlone'
  BY DEF IInv, ExitFills, Report, durable, local, Exposed, Active, RunsAlone,
     PassesCurrent, ExposureIsCovered
<1>7. ExposureIsCovered'
  BY DEF IInv, ExitFills, Report, durable, local, Exposed, Active, Terminal,
     ExposureIsCovered, PassesCurrent
<1>8. NoDuplicateLiveEntry'
  BY DEF IInv, ExitFills, Report, durable, local, Exposed, NoDuplicateLiveEntry
<1> QED BY <1>1, <1>2, <1>3, <1>4, <1>5, <1>6, <1>7, <1>8 DEF IInv

LEMMA ManualExitKeepsIInv ==
    ASSUME TypeOK, TypeOK', ExitsTrue', ExitsPriced', IInv, CoreEnv, NEW r, Runners = {r},
           NEW a \in Attempts, ManualExit(a)
    PROVE  IInv'
<1>1. UnusedIsBlank'
  BY DEF IInv, ManualExit, durable, local, UnusedIsBlank, PassesCurrent
<1>2. EventsTrue'
  BY DEF IInv, ManualExit, local, Pending, EventsTrue
<1>3. GraceMeansSettled'
  BY DEF IInv, ManualExit, durable, local, GraceMeansSettled, TypeOK
<1>4. OrphansAreQuiet'
  BY DEF IInv, ManualExit, durable, local, Pending, Exposed, OrphansAreQuiet,
     PassesCurrent
<1>5. PassesCurrent'
  BY DEF IInv, ManualExit, durable, local, Terminal, PassesCurrent
<1>6. RunsAlone'
  BY DEF IInv, ManualExit, durable, local, Exposed, Active, RunsAlone,
     PassesCurrent, ExposureIsCovered
<1>7. ExposureIsCovered'
  BY DEF IInv, ManualExit, durable, local, Exposed, Active, Terminal,
     ExposureIsCovered, PassesCurrent
<1>8. NoDuplicateLiveEntry'
  BY DEF IInv, ManualExit, durable, local, Exposed, NoDuplicateLiveEntry
<1> QED BY <1>1, <1>2, <1>3, <1>4, <1>5, <1>6, <1>7, <1>8 DEF IInv

LEMMA OpenOrderKeepsIInv ==
    ASSUME TypeOK, TypeOK', ExitsTrue', ExitsPriced', IInv, CoreEnv, NEW r, Runners = {r},
           NEW a \in Attempts, OpenOrder(a)
    PROVE  IInv'
<1>1. UnusedIsBlank' /\ EventsTrue' /\ GraceMeansSettled' /\ OrphansAreQuiet'
      /\ PassesCurrent' /\ RunsAlone' /\ ExposureIsCovered' /\
      NoDuplicateLiveEntry'
  BY DEF IInv, OpenOrder, durable, local, UnusedIsBlank, EventsTrue,
     GraceMeansSettled, OrphansAreQuiet, PassesCurrent, RunsAlone,
     ExposureIsCovered, NoDuplicateLiveEntry, Pending, Exposed, Terminal, Active
<1> QED BY <1>1 DEF IInv

LEMMA UpdatePortfolioKeepsIInv ==
    ASSUME TypeOK, TypeOK', ExitsTrue', ExitsPriced', IInv, CoreEnv, NEW r, Runners = {r},
           NEW s \in Symbols, UpdatePortfolio(s)
    PROVE  IInv'
<1>1. UnusedIsBlank' /\ EventsTrue' /\ OrphansAreQuiet' /\ PassesCurrent' /\
      RunsAlone' /\ ExposureIsCovered' /\ NoDuplicateLiveEntry'
  BY DEF IInv, UpdatePortfolio, Holdings, durable, local, UnusedIsBlank,
     EventsTrue, OrphansAreQuiet, PassesCurrent, RunsAlone, ExposureIsCovered,
     NoDuplicateLiveEntry, Pending, Exposed, Terminal, Active
<1>2. GraceMeansSettled'
  BY DEF IInv, UpdatePortfolio, Holdings, durable, local, GraceMeansSettled,
     UnusedIsBlank, TypeOK
<1> QED BY <1>1, <1>2 DEF IInv

LEMMA GraceExpiresKeepsIInv ==
    ASSUME TypeOK, TypeOK', ExitsTrue', ExitsPriced', IInv, CoreEnv, NEW r, Runners = {r},
           NEW a \in Attempts, GraceExpires(a)
    PROVE  IInv'
<1>0. {"disk", "hasty", "late", "audit", "blind"} \cap Env = {}
  BY CoreEnvExcludes
<1>1. UnusedIsBlank' /\ EventsTrue' /\ PassesCurrent' /\ RunsAlone' /\
      ExposureIsCovered' /\ NoDuplicateLiveEntry'
  BY DEF IInv, GraceExpires, durable, bridge, local, UnusedIsBlank, EventsTrue,
     PassesCurrent, RunsAlone, ExposureIsCovered, NoDuplicateLiveEntry, Pending,
     Terminal, Exposed, Active
<1>2. GraceMeansSettled'
  BY <1>0 DEF IInv, GraceExpires, durable, bridge, local, GraceMeansSettled,
     EventsTrue
<1>3. OrphansAreQuiet'
  BY DEF IInv, GraceExpires, durable, bridge, local, Pending, Exposed,
     OrphansAreQuiet, PassesCurrent
<1> QED BY <1>1, <1>2, <1>3 DEF IInv

LEMMA DisconnectKeepsIInv ==
    ASSUME TypeOK, TypeOK', ExitsTrue', ExitsPriced', IInv, CoreEnv, NEW r, Runners = {r},
           Disconnect
    PROVE  IInv'
<1>1. UnusedIsBlank' /\ PassesCurrent' /\ RunsAlone' /\ ExposureIsCovered' /\
      NoDuplicateLiveEntry'
  BY DEF IInv, Disconnect, LoseSocket, durable, local, UnusedIsBlank,
     PassesCurrent, RunsAlone, ExposureIsCovered, NoDuplicateLiveEntry, Terminal,
     Exposed, Active
<1>2. EventsTrue'
  BY DEF IInv, Disconnect, LoseSocket, local, Pending, EventsTrue
<1>3. GraceMeansSettled'
  BY DEF IInv, Disconnect, LoseSocket, durable, local, GraceMeansSettled
<1>4. OrphansAreQuiet'
  BY DEF IInv, Disconnect, LoseSocket, durable, local, Pending, Exposed,
     OrphansAreQuiet, PassesCurrent
<1> QED BY <1>1, <1>2, <1>3, <1>4 DEF IInv

LEMMA ConnectKeepsIInv ==
    ASSUME TypeOK, TypeOK', ExitsTrue', ExitsPriced', IInv, CoreEnv, NEW r, Runners = {r},
           Connect
    PROVE  IInv'
<1>1. UnusedIsBlank' /\ GraceMeansSettled' /\ OrphansAreQuiet' /\
      PassesCurrent' /\ RunsAlone' /\ ExposureIsCovered' /\
      NoDuplicateLiveEntry'
  BY DEF IInv, Connect, durable, local, UnusedIsBlank, GraceMeansSettled,
     OrphansAreQuiet, PassesCurrent, RunsAlone, ExposureIsCovered,
     NoDuplicateLiveEntry, Pending, Exposed, Terminal, Active
<1>2. EventsTrue'
  BY DEF IInv, Connect, local, Pending, EventsTrue
<1> QED BY <1>1, <1>2 DEF IInv

LEMMA CrashKeepsIInv ==
    ASSUME TypeOK, TypeOK', ExitsTrue', ExitsPriced', IInv, CoreEnv, NEW r, Runners = {r},
           Crash
    PROVE  IInv'
<1>0. {"disk", "hasty", "late", "audit", "blind"} \cap Env = {}
  BY CoreEnvExcludes
<1>1. UnusedIsBlank' /\ NoDuplicateLiveEntry'
  BY DEF IInv, Crash, LoseSocket, durable, UnusedIsBlank, NoDuplicateLiveEntry,
     Exposed
<1>2. EventsTrue'
  BY DEF IInv, Crash, LoseSocket, Pending, EventsTrue
<1>3. GraceMeansSettled'
  BY DEF IInv, Crash, LoseSocket, durable, GraceMeansSettled
<1>4. OrphansAreQuiet'
  BY DEF IInv, Crash, LoseSocket, durable, Pending, OrphansAreQuiet,
     PassesCurrent
<1>5. PassesCurrent'
  BY DEF IInv, Crash, LoseSocket, Terminal, PassesCurrent
<1>6. RunsAlone'
  BY DEF IInv, Crash, LoseSocket, Active, RunsAlone, PassesCurrent,
     ExposureIsCovered
<1>7. ExposureIsCovered'
  BY <1>0 DEF IInv, Crash, LoseSocket, durable, Exposed, Active, Terminal,
     ExposureIsCovered, PassesCurrent
<1> QED BY <1>1, <1>2, <1>3, <1>4, <1>5, <1>6, <1>7 DEF IInv

LEMMA AcknowledgeKeepsIInv ==
    ASSUME TypeOK, TypeOK', ExitsTrue', ExitsPriced', IInv, CoreEnv, NEW r, Runners = {r},
           NEW a \in Attempts, Acknowledge(a)
    PROVE  IInv'
<1>0. {"disk", "hasty", "late", "audit", "blind"} \cap Env = {}
  BY CoreEnvExcludes
<1>1. UnusedIsBlank' /\ EventsTrue' /\ GraceMeansSettled' /\ PassesCurrent' /\
      NoDuplicateLiveEntry'
  BY DEF IInv, Acknowledge, bridge, local, UnusedIsBlank, EventsTrue,
     GraceMeansSettled, PassesCurrent, NoDuplicateLiveEntry, Pending, Terminal,
     Exposed
<1>2. OrphansAreQuiet'
  BY DEF IInv, Acknowledge, bridge, local, Pending, Exposed, OrphansAreQuiet,
     PassesCurrent
<1>3. RunsAlone'
  BY DEF IInv, Acknowledge, bridge, local, Active, RunsAlone, PassesCurrent,
     ExposureIsCovered
<1>4. ExposureIsCovered'
  BY <1>0 DEF IInv, Acknowledge, bridge, local, Exposed, Active, Terminal,
     ExposureIsCovered, PassesCurrent
<1> QED BY <1>1, <1>2, <1>3, <1>4 DEF IInv

LEMMA OperatorClearKeepsIInv ==
    ASSUME TypeOK, TypeOK', ExitsTrue', ExitsPriced', IInv, CoreEnv, NEW r, Runners = {r},
           NEW s \in Symbols, OperatorClear(s)
    PROVE  IInv'
<1>0. {"disk", "hasty", "late", "audit", "blind"} \cap Env = {}
  BY CoreEnvExcludes
<1>1. UnusedIsBlank' /\ EventsTrue' /\ GraceMeansSettled' /\ OrphansAreQuiet'
      /\ NoDuplicateLiveEntry'
  BY DEF IInv, OperatorClear, ClearLock, bridge, local, UnusedIsBlank,
     EventsTrue, GraceMeansSettled, OrphansAreQuiet, NoDuplicateLiveEntry, Pending,
     Exposed
<1>2. PassesCurrent'
  BY DEF IInv, OperatorClear, ClearLock, bridge, local, Terminal, PassesCurrent
<1>3. RunsAlone'
  BY DEF IInv, OperatorClear, ClearLock, bridge, local, Active, RunsAlone,
     PassesCurrent, ExposureIsCovered
<1>4. ExposureIsCovered'
  <2>1. /\ \A t \in Symbols \ {s} : locks'[t] = locks[t]
        /\ \A a \in Attempts : symbol[a] = s => ~Exposed(a)
        /\ UNCHANGED <<trade, life, symbol, broker, pc, leg>>
    BY <1>0 DEF OperatorClear, ClearLock, bridge, local, TypeOK
  <2>2. \A a \in Attempts : Exposed(a) => symbol[a] \in Symbols \ {s}
    BY <2>1 DEF IInv, UnusedIsBlank, Exposed, TypeOK
  <2> QED BY <2>1, <2>2 DEF IInv, ExposureIsCovered, Exposed, Active, Terminal
<1> QED BY <1>1, <1>2, <1>3, <1>4 DEF IInv

\* An exit leaves the lock with its trade.
LEMMA SubmitExitKeepsIInv ==
    ASSUME TypeOK, TypeOK', ExitsTrue', ExitsPriced', IInv, CoreEnv, NEW r, Runners = {r},
           NEW a \in Attempts, SubmitExit(a)
    PROVE  IInv'
<1>1. /\ trade[a] = "OPEN" /\ trade' = [trade EXCEPT ![a] = "EXIT_PENDING"]
      /\ UNCHANGED <<locks, life, symbol, broker, aged, bridge, local>>
  BY DEF SubmitExit
<1>2. /\ \A b \in Attempts : Terminal(b)' <=> Terminal(b)
      /\ \A b \in Attempts : trade'[b] = "none" <=> trade[b] = "none"
  BY <1>1 DEF Terminal, TypeOK
<1>3. UnusedIsBlank' /\ EventsTrue' /\ GraceMeansSettled' /\ OrphansAreQuiet'
      /\ NoDuplicateLiveEntry'
  BY <1>1, <1>2 DEF IInv, bridge, local, UnusedIsBlank, EventsTrue, GraceMeansSettled,
     OrphansAreQuiet, NoDuplicateLiveEntry, Pending, Exposed
<1>4. PassesCurrent'
  BY <1>1, <1>2 DEF IInv, local, PassesCurrent, TypeOK, Lock
<1>5. RunsAlone'
  BY <1>1, <1>2 DEF IInv, local, RunsAlone, Exposed
<1>6. ExposureIsCovered'
  BY <1>1, <1>2 DEF IInv, local, ExposureIsCovered, Exposed, Active
<1> QED BY <1>3, <1>4, <1>5, <1>6 DEF IInv

\* The reconciler ends an exit only on the report of its fill, or gives the trade
\* back.
LEMMA ReconcileTradeKeepsIInv ==
    ASSUME TypeOK, TypeOK', ExitsTrue', ExitsPriced', IInv, CoreEnv, NEW r, Runners = {r},
           NEW a \in Attempts, ReconcileTrade(a)
    PROVE  IInv'
<1>1. UNCHANGED <<locks, life, symbol, broker, aged, bridge, local>>
  BY DEF ReconcileTrade
<1>2. \/ trade' = trade
      \/ /\ trade[a] = "EXIT_PENDING"
         /\ trade' = [trade EXCEPT ![a] = "OPEN"]
      \/ /\ trade[a] = "EXIT_PENDING" /\ broker[a] = "flat"
         /\ trade' = [trade EXCEPT ![a] = "CLOSED"]
  BY DEF ReconcileTrade, IInv, ExitsPriced, EventsTrue, ExitsTrue
<1>3. /\ \A b \in Attempts : Terminal(b) => Terminal(b)'
      /\ \A b \in Attempts : Terminal(b)' => Terminal(b) \/ ~Exposed(b)
      /\ \A b \in Attempts : trade'[b] = "none" <=> trade[b] = "none"
  BY <1>2 DEF Terminal, Exposed, TypeOK
<1>4. /\ UnusedIsBlank' /\ EventsTrue' /\ OrphansAreQuiet' /\ NoDuplicateLiveEntry'
      /\ GraceMeansSettled'
  <2>1. UnusedIsBlank' /\ EventsTrue' /\ OrphansAreQuiet' /\ NoDuplicateLiveEntry'
    BY <1>1, <1>3 DEF IInv, bridge, local, UnusedIsBlank, EventsTrue, OrphansAreQuiet,
       NoDuplicateLiveEntry, Pending, Exposed
  <2>2. GraceMeansSettled'
    BY <1>1, <1>3 DEF IInv, bridge, GraceMeansSettled, TypeOK
  <2> QED BY <2>1, <2>2
<1>5. PassesCurrent'
  BY <1>1, <1>3 DEF IInv, local, PassesCurrent, TypeOK, Lock
<1>6. RunsAlone'
  BY <1>1, <1>3 DEF IInv, local, RunsAlone, Exposed
<1>7. ExposureIsCovered'
  BY <1>1, <1>3 DEF IInv, local, ExposureIsCovered, Exposed, Active
<1> QED BY <1>4, <1>5, <1>6, <1>7 DEF IInv

LEMMA InitIInv == ASSUME Init PROVE IInv
<1>1. UnusedIsBlank /\ NoDuplicateLiveEntry /\ ExposureIsCovered
  BY DEF Init, UnusedIsBlank, NoDuplicateLiveEntry, ExposureIsCovered, Exposed
<1>2. EventsTrue /\ GraceMeansSettled /\ PassesCurrent
  BY DEF Init, EventsTrue, ExitsTrue, Pending, GraceMeansSettled, PassesCurrent
<1>3. OrphansAreQuiet /\ RunsAlone
  BY DEF Init, OrphansAreQuiet, RunsAlone, Exposed
<1>4. ExitsPriced
  BY DEF Init, ExitsPriced
<1> QED BY <1>1, <1>2, <1>3, <1>4 DEF IInv

LEMMA StepIInv ==
    ASSUME TypeOK, TypeOK', ExitsTrue', ExitsPriced', IInv, CoreEnv, NEW r, Runners = {r},
           [Next]_vars
    PROVE  IInv'
<1>0. {"disk", "hasty", "late", "audit", "blind"} \cap Env = {}
  BY CoreEnvExcludes
<1>1. CASE Reconcile(r)
  <2>1. CASE DrainFills(r)
    BY <2>1, DrainFillsKeepsIInv
  <2>2. CASE ApplyFill(r)
    BY <2>2, ApplyFillKeepsIInv
  <2>3. CASE DrainRejects(r)
    BY <2>3, DrainRejectsKeepsIInv
  <2>4. CASE FailRejected(r)
    BY <2>4, FailRejectedKeepsIInv
  <2>5. CASE DrainExits(r)
    BY <2>5, DrainExitsKeepsIInv
  <2>6. CASE CloseFilled(r)
    BY <2>6, CloseFilledKeepsIInv
  <2>7. CASE ReadStale(r)
    BY <2>7, ReadStaleKeepsIInv
  <2>8. CASE CloseStale(r)
    BY <2>8, CloseStaleKeepsIInv
  <2>9. CASE RecordOrphan(r)
    BY <2>9, RecordOrphanKeepsIInv
  <2>10. CASE ReadLocks(r)
    BY <2>10, ReadLocksKeepsIInv
  <2>11. CASE ReleaseLock(r)
    BY <2>11, ReleaseLockKeepsIInv
  <2>12. CASE EndPass(r)
    BY <2>12, EndPassKeepsIInv
  <2> QED BY <1>1, <2>1, <2>2, <2>3, <2>4, <2>5, <2>6, <2>7, <2>8, <2>9,
         <2>10, <2>11, <2>12 DEF Reconcile
<1>2. CASE RunOnce(r)
  <2>1. CASE Plan(r)
    BY <2>1, PlanKeepsIInv
  <2>2. CASE Preflight(r)
    BY <2>2, PreflightKeepsIInv
  <2>3. CASE StartLeg(r)
    BY <2>3, StartLegKeepsIInv
  <2>4. CASE AcquireLock(r)
    BY <2>4, AcquireLockKeepsIInv
  <2>5. CASE RecordPlanned(r)
    BY <2>5, RecordPlannedKeepsIInv
  <2>6. CASE ExecuteRefused(r)
    BY <2>6, ExecuteRefusedKeepsIInv
  <2>7. CASE PlaceBracket(r)
    BY <2>7, PlaceBracketKeepsIInv
  <2>8. CASE AuditWritten(r)
    BY <2>8, AuditWrittenKeepsIInv
  <2>9. CASE RecordSubmitted(r)
    BY <2>9, RecordSubmittedKeepsIInv
  <2>10. CASE RecordTrade(r)
    BY <2>10, RecordTradeKeepsIInv
  <2>11. CASE MarkSubmitted(r)
    BY <2>11, MarkSubmittedKeepsIInv
  <2>12. ~AuditFailed(r)
    BY <1>0 DEF AuditFailed
  <2> QED BY <1>2, <2>1, <2>2, <2>3, <2>4, <2>5, <2>6, <2>7, <2>8, <2>9,
         <2>10, <2>11, <2>12 DEF RunOnce
<1>3. CASE Exits
  BY <1>3, SubmitExitKeepsIInv, ReconcileTradeKeepsIInv DEF Exits
<1>4. CASE Broker
  BY <1>4, EntryFillsKeepsIInv, EntryRefusedKeepsIInv, ExitFillsKeepsIInv,
     ManualExitKeepsIInv DEF Broker
<1>5. CASE Callbacks
  BY <1>5, OpenOrderKeepsIInv, UpdatePortfolioKeepsIInv DEF Callbacks
<1>6. CASE Time
  BY <1>6, GraceExpiresKeepsIInv DEF Time
<1>7. CASE Operator
  BY <1>7, AcknowledgeKeepsIInv, OperatorClearKeepsIInv DEF Operator
<1>8. CASE Disconnect
  BY <1>8, DisconnectKeepsIInv
<1>9. CASE Connect
  BY <1>9, ConnectKeepsIInv
<1>10. CASE Crash
  BY <1>10, CrashKeepsIInv
<1>11. CASE UNCHANGED vars
  <2>1. /\ UnusedIsBlank' /\ EventsTrue' /\ GraceMeansSettled' /\ PassesCurrent'
        /\ NoDuplicateLiveEntry' /\ ExposureIsCovered'
    BY <1>11 DEF vars, durable, bridge, local, IInv, UnusedIsBlank, EventsTrue,
                 Pending, GraceMeansSettled, PassesCurrent, Terminal,
                 NoDuplicateLiveEntry, ExposureIsCovered, Exposed, Active
  <2>2. OrphansAreQuiet' /\ RunsAlone'
    BY <1>11 DEF vars, durable, bridge, local, IInv, OrphansAreQuiet, RunsAlone,
                 Exposed, Pending
  <2> QED BY <2>1, <2>2 DEF IInv
<1> QED BY <1>1, <1>2, <1>3, <1>4, <1>5, <1>6, <1>7, <1>8, <1>9, <1>10, <1>11
        DEF Next

\* The inductive invariant holds of every behaviour of one runner.
THEOREM IInvHolds ==
    ASSUME CoreEnv, NEW r, Runners = {r}
    PROVE  Spec => []IInv
<1>1. Init => IInv
  BY InitIInv
<1>2. TypeOK /\ TypeOK' /\ ExitsTrue' /\ ExitsPriced' /\ IInv /\ [Next]_vars => IInv'
  BY StepIInv
<1>3. Spec => []ExitsPriced
  <2>1. "blind" \notin Env
    BY CoreEnvExcludes
  <2>2. Spec => []FailedInv
    BY <2>1, FailedInvHolds
  <2>3. FailedInv => ExitsPriced
    BY DEF FailedInv
  <2> QED BY <2>2, <2>3, PTL
<1> QED BY <1>1, <1>2, <1>3, TypeCorrect, ExitReportsAreTrue, PTL DEF Spec

\* Two attempts on one symbol are never live at the broker together, through
\* lost connections, crashes between any two steps of a submission, restarts,
\* sales by hand, and exits that are sent, taken back, retried or confirmed.
THEOREM NoDuplicate ==
    ASSUME CoreEnv, NEW r, Runners = {r}
    PROVE  Spec => []NoDuplicateLiveEntry
<1>1. IInv => NoDuplicateLiveEntry
  BY DEF IInv
<1> QED BY <1>1, IInvHolds, PTL

\* Whatever is live at the broker is covered by the lock of its symbol or by an
\* orphan that keeps the gates closed.
THEOREM Covered ==
    ASSUME CoreEnv, NEW r, Runners = {r}
    PROVE  Spec => []ExposureIsCovered
<1>1. IInv => ExposureIsCovered
  BY DEF IInv
<1> QED BY <1>1, IInvHolds, PTL
-----------------------------------------------------------------------------
(* One runner whose disk may fail, on a socket that stays up.               *)

\* The environment of these proofs.
DiskEnv == Env \subseteq {"disk", "hand", "exits"}

LEMMA DiskEnvExcludes ==
    DiskEnv => {"hasty", "audit"} \cap Env = {} /\ SteadyEnv
BY DEF DiskEnv, SteadyEnv

\* A step that writes no lock, exposes nothing, begins neither a leg nor a release,
\* and revives no trade while locks are being released.
LEMMA LocksUntouched ==
    ASSUME LockInv, NEW r, Runners = {r}, UNCHANGED <<locks, symbol>>,
           \A a \in Attempts : Exposed(a)' => Exposed(a),
           pc'[r] = "release" => /\ pc[r] = "release" /\ keys'[r] \subseteq keys[r]
                                 /\ \A a \in Attempts : Terminal(a) => Terminal(a)',
           pc'[r] \in InLeg => /\ pc[r] \in InLeg
                               /\ leg'[r] = leg[r]
                               /\ pc[r] = "acquire" => pc'[r] = "acquire",
           TypeOK
    PROVE  LockInv'
<1>1. \A q \in Runners : pc'[q] = "release" =>
         \A s \in keys'[q] : locks'[s].trade # None /\ Terminal(locks[s].trade)'
  BY DEF LockInv, TypeOK, Lock
<1>2. \A a \in Attempts : Exposed(a)' =>
         Active(symbol[a])' /\ locks'[symbol'[a]].trade \in {None, a}
  BY DEF LockInv, Active
<1>3. LegAlone(r)'
  <2>1. pc[r] \in InLeg => \A b \in Attempts :
           b # leg[r] /\ symbol[b] = symbol[leg[r]] => ~Exposed(b)
    BY DEF LockInv, LegAlone
  <2> QED BY <2>1 DEF LegAlone
<1>4. pc'[r] \in InLeg \ {"acquire"} =>
         locks'[symbol'[leg'[r]]] = [status |-> "IN_FLIGHT", trade |-> None]
  <2>1. pc[r] \in InLeg \ {"acquire"} =>
           locks[symbol[leg[r]]] = [status |-> "IN_FLIGHT", trade |-> None]
    BY DEF LockInv
  <2> QED BY <2>1
<1>5. NoDuplicateLiveEntry'
  BY DEF LockInv, NoDuplicateLiveEntry
<1> QED BY <1>1, <1>2, <1>3, <1>4, <1>5 DEF LockInv

\* The passes only write the store; reading the locks lists those of ended trades.
LEMMA ReconcileKeepsLocks ==
    ASSUME TypeOK, LegInv, EndedInv, LockInv, NEW r, Runners = {r}, Reconcile(r)
    PROVE  LockInv'
<1>1. UNCHANGED <<symbol, broker>>
  BY DEF Reconcile, DrainFills, ApplyFill, DrainRejects, FailRejected, DrainExits,
     CloseFilled, ReadStale, CloseStale, RecordOrphan, ReadLocks, ReleaseLock, EndPass,
     durable
<1>2. CASE ReadLocks(r)
  <2>1. /\ UNCHANGED <<locks, trade>>
        /\ pc' = [pc EXCEPT ![r] = "release"]
        /\ keys'[r] = {s \in Symbols : Releasable(s)}
    BY <1>2 DEF ReadLocks, durable, TypeOK
  <2>2. \A s \in keys'[r] : locks'[s].trade # None /\ Terminal(locks[s].trade)'
    BY <2>1 DEF Releasable, Terminal
  <2> QED BY <1>1, <2>1, <2>2
          DEF LockInv, LegAlone, NoDuplicateLiveEntry, Active, Exposed, InLeg, TypeOK
<1>3. CASE ReleaseLock(r)
  <2>1. PICK s \in keys[r] : /\ keys' = [keys EXCEPT ![r] = @ \ {s}]
                             /\ ClearLock(s)
    BY <1>3 DEF ReleaseLock
  <2>2. /\ pc[r] = "release" /\ s \in Symbols
        /\ UNCHANGED <<trade, pc, leg>>
        /\ locks[s].trade # None /\ Terminal(locks[s].trade)
    BY <1>3 DEF ReleaseLock, LockInv, TypeOK
  <2>3. /\ \A t \in Symbols \ {s} : locks'[t] = locks[t]
        /\ locks'[s].trade = locks[s].trade
    BY <2>1, <2>2 DEF ClearLock, TypeOK, Lock
  <2>4. \A a \in Attempts : Exposed(a) => symbol[a] \in Symbols \ {s}
    BY <2>2 DEF EndedInv, EndedTradesAreFlat, LegInv, UnusedIsBlank, LockInv, Exposed, TypeOK
  <2>5. \A q \in Runners : pc'[q] = "release" =>
           \A t \in keys'[q] : locks'[t].trade # None /\ Terminal(locks[t].trade)'
    BY <2>1, <2>2, <2>3 DEF LockInv, Terminal, TypeOK
  <2>6. \A a \in Attempts : Exposed(a)' =>
           Active(symbol[a])' /\ locks'[symbol'[a]].trade \in {None, a}
    BY <1>1, <2>3, <2>4 DEF LockInv, Active, Exposed
  <2> QED BY <1>1, <2>2, <2>5, <2>6
          DEF LockInv, LegAlone, NoDuplicateLiveEntry, Active, Exposed, InLeg
<1>4. CASE ~ReadLocks(r) /\ ~ReleaseLock(r)
  <2>1. /\ locks' = locks
        /\ pc[r] \notin InLeg /\ pc'[r] \notin InLeg \cup {"release"}
    BY <1>4 DEF Reconcile, DrainFills, ApplyFill, DrainRejects, FailRejected, DrainExits,
       CloseFilled, ReadStale, CloseStale, RecordOrphan, EndPass, durable, InLeg, TypeOK
  <2> QED BY <1>1, <2>1, LocksUntouched DEF Exposed
<1> QED BY <1>2, <1>3, <1>4

\* A lock is taken for the leg, given up before anything is sent, and named after
\* the trade when everything is recorded.
LEMMA RunOnceKeepsLocks ==
    ASSUME TypeOK, LegInv, LockInv, DiskEnv, NEW r, Runners = {r}, RunOnce(r)
    PROVE  LockInv'
<1>0. ~AuditFailed(r)
  BY DiskEnvExcludes DEF AuditFailed
<1>1. CASE Plan(r) \/ Preflight(r) \/ AuditWritten(r) \/ RecordSubmitted(r) \/ RecordTrade(r)
  <2>1. /\ UNCHANGED <<locks, symbol, broker>>
        /\ pc'[r] # "release"
        /\ pc'[r] \in InLeg => /\ pc[r] \in InLeg
                               /\ leg'[r] = leg[r]
                               /\ pc[r] # "acquire"
    BY <1>1 DEF Plan, Preflight, AuditWritten, RecordSubmitted, RecordTrade, Return,
       durable, InLeg, TypeOK
  <2> QED BY <2>1, LocksUntouched DEF Exposed
<1>2. CASE StartLeg(r)
  <2>1. /\ UNCHANGED <<locks, trade, broker>>
        /\ pc[r] = "leg"
        /\ pc' = [pc EXCEPT ![r] = "idle"] \/ pc' = [pc EXCEPT ![r] = "acquire"]
        /\ \A a \in Attempts : broker[a] # "none" => symbol'[a] = symbol[a]
    BY <1>2 DEF StartLeg, Return, LegInv, UnusedIsBlank, TypeOK
  <2>2. pc'[r] = "acquire" =>
          /\ leg'[r] \in Attempts
          /\ symbol'[leg'[r]] \in Symbols
          /\ ~Active(symbol'[leg'[r]])
          /\ broker[leg'[r]] = "none"
    BY <1>2 DEF StartLeg, Return, Duplicate, LegInv, UnusedIsBlank, TypeOK
  <2>3. LegAlone(r)'
    BY <2>1, <2>2 DEF LegAlone, LockInv, Exposed, InLeg, TypeOK
  <2>4. \A a \in Attempts : Exposed(a)' =>
           Active(symbol[a])' /\ locks'[symbol'[a]].trade \in {None, a}
    BY <2>1 DEF LockInv, Exposed, Active
  <2>5. NoDuplicateLiveEntry'
    BY <2>1 DEF LockInv, NoDuplicateLiveEntry, Exposed
  <2>6. pc'[r] \notin (InLeg \ {"acquire"}) \cup {"release"}
    BY <2>1 DEF InLeg, TypeOK
  <2> QED BY <2>3, <2>4, <2>5, <2>6 DEF LockInv
<1>3. CASE AcquireLock(r) \/ RecordPlanned(r) \/ ExecuteRefused(r) \/ MarkSubmitted(r)
  <2> DEFINE a == leg[r]
             s == symbol[leg[r]]
  <2>1. /\ a \in Attempts /\ s \in Symbols
        /\ \A b \in Attempts : b # a /\ symbol[b] = s => ~Exposed(b)
        /\ pc[r] # "mark" => ~Exposed(a)
    BY <1>3 DEF AcquireLock, RecordPlanned, ExecuteRefused, MarkSubmitted, LegInv, LockInv,
       LegAlone, InLeg, Exposed, TypeOK
  <2>2. /\ UNCHANGED <<symbol, broker>>
        /\ \A t \in Symbols \ {s} : locks'[t] = locks[t]
        /\ pc[r] \in InLeg /\ pc'[r] # "release"
    BY <1>3, <2>1 DEF AcquireLock, RecordPlanned, ExecuteRefused, MarkSubmitted, GiveUp,
       Return, ClearLock, bridge, durable, InLeg, TypeOK
  <2>3. pc'[r] \in InLeg => /\ leg'[r] = a /\ pc'[r] # "acquire"
                            /\ locks'[s] = [status |-> "IN_FLIGHT", trade |-> None]
    BY <1>3, <2>1 DEF AcquireLock, RecordPlanned, ExecuteRefused, MarkSubmitted, GiveUp,
       Return, LockInv, InLeg, TypeOK
  <2>4. pc[r] = "mark" => /\ locks'[s].status \in {"IN_FLIGHT", "SUBMITTED"}
                          /\ locks'[s].trade \in {None, a}
    BY <1>3, <2>1 DEF AcquireLock, RecordPlanned, ExecuteRefused, MarkSubmitted, LockInv,
       InLeg, TypeOK
  <2>5. \A b \in Attempts : Exposed(b)' =>
           Active(symbol[b])' /\ locks'[symbol'[b]].trade \in {None, b}
    <3> SUFFICES ASSUME NEW b \in Attempts, Exposed(b)
                 PROVE  /\ locks'[symbol[b]].status \in {"IN_FLIGHT", "SUBMITTED"}
                        /\ locks'[symbol[b]].trade \in {None, b}
      BY <2>2 DEF Exposed, Active
    <3>1. symbol[b] \in Symbols
      BY DEF LegInv, UnusedIsBlank, Exposed, TypeOK
    <3>2. CASE b = a
      BY <2>1, <2>4, <3>2
    <3>3. CASE b # a
      BY <2>1, <2>2, <3>1, <3>3 DEF LockInv, Active
    <3> QED BY <3>2, <3>3
  <2>6. LegAlone(r)' /\ NoDuplicateLiveEntry'
    BY <2>1, <2>2, <2>3 DEF LegAlone, LockInv, NoDuplicateLiveEntry, Exposed
  <2> QED BY <2>2, <2>3, <2>5, <2>6 DEF LockInv
<1>4. CASE PlaceBracket(r)
  <2> DEFINE a == leg[r]
  <2>1. /\ pc[r] = "execute" /\ a \in Attempts
        /\ UNCHANGED <<locks, trade, symbol, leg>>
        /\ broker' = [broker EXCEPT ![a] = "working"]
        /\ pc' = [pc EXCEPT ![r] = "audit"]
    BY <1>4 DEF PlaceBracket, LegInv, durable, InLeg
  <2>2. /\ locks[symbol[a]] = [status |-> "IN_FLIGHT", trade |-> None]
        /\ \A b \in Attempts : b # a /\ symbol[b] = symbol[a] => ~Exposed(b)
    BY <2>1 DEF LockInv, LegAlone, InLeg
  <2>3. \A b \in Attempts : Exposed(b)' => b = a \/ Exposed(b)
    BY <2>1 DEF Exposed, TypeOK
  <2>4. \A b \in Attempts : Exposed(b)' =>
           Active(symbol[b])' /\ locks'[symbol'[b]].trade \in {None, b}
    BY <2>1, <2>2, <2>3 DEF LockInv, Active
  <2>5. LegAlone(r)' /\ NoDuplicateLiveEntry'
    BY <2>1, <2>2, <2>3 DEF LegAlone, LockInv, NoDuplicateLiveEntry
  <2> QED BY <2>1, <2>2, <2>4, <2>5 DEF LockInv, TypeOK
<1> QED BY <1>0, <1>1, <1>2, <1>3, <1>4 DEF RunOnce

\* The operator looks before clearing a lock; nobody else writes one.
LEMMA OthersKeepLocks ==
    ASSUME TypeOK, LegInv, StaleInv, LockInv, DiskEnv, NEW r, Runners = {r},
           \/ Exits \/ Broker \/ Callbacks \/ Time \/ Operator
           \/ Disconnect \/ Connect \/ Crash \/ UNCHANGED vars
    PROVE  LockInv'
<1>0. /\ ~Disconnect /\ ~Connect /\ ~Crash
      /\ "hasty" \notin Env
  BY DiskEnvExcludes DEF Disconnect, Connect, Crash, StaleInv, SteadyEnv
<1>1. CASE \E s \in Symbols : OperatorClear(s)
  <2>1. PICK s \in Symbols : OperatorClear(s)
    BY <1>1
  <2>2. /\ UNCHANGED <<trade, symbol, broker, pc, keys, leg>>
        /\ pc[r] = "idle"
        /\ \A a \in Attempts : symbol[a] = s => ~Exposed(a)
        /\ \A t \in Symbols \ {s} : locks'[t] = locks[t]
    BY <1>0, <2>1 DEF OperatorClear, ClearLock, local, TypeOK
  <2>3. \A a \in Attempts : Exposed(a) => symbol[a] \in Symbols \ {s}
    BY <2>2 DEF LegInv, UnusedIsBlank, Exposed, TypeOK
  <2>4. \A a \in Attempts : Exposed(a)' =>
           Active(symbol[a])' /\ locks'[symbol'[a]].trade \in {None, a}
    BY <2>2, <2>3 DEF LockInv, Active, Exposed
  <2> QED BY <2>2, <2>4 DEF LockInv, LegAlone, NoDuplicateLiveEntry, Exposed, InLeg
<1>2. CASE ~\E s \in Symbols : OperatorClear(s)
  <2>1. UNCHANGED <<locks, symbol, pc, keys, leg>>
    BY <1>0, <1>2 DEF Exits, SubmitExit, ReconcileTrade, Broker, EntryFills, EntryRefused,
       ExitFills, ManualExit, Callbacks, OpenOrder, UpdatePortfolio, Time, GraceExpires,
       Operator, Acknowledge, durable, local, vars
  <2>2. \A a \in Attempts : Exposed(a)' => Exposed(a)
    BY <1>0, <1>2 DEF Exits, SubmitExit, ReconcileTrade, Broker, EntryFills, EntryRefused,
       ExitFills, ManualExit, Callbacks, OpenOrder, UpdatePortfolio, Time, GraceExpires,
       Operator, Acknowledge, vars, Exposed, TypeOK
  <2>3. \A a \in Attempts : Terminal(a) => Terminal(a)'
    BY <1>0, <1>2 DEF Exits, SubmitExit, ReconcileTrade, Broker, EntryFills, EntryRefused,
       ExitFills, ManualExit, Callbacks, OpenOrder, UpdatePortfolio, Time, GraceExpires,
       Operator, Acknowledge, durable, vars, Terminal, TypeOK
  <2> QED BY <2>1, <2>2, <2>3, LocksUntouched
<1> QED BY <1>1, <1>2

\* LockInv holds of every behaviour of one runner whose disk may fail.
LEMMA LockInvHolds ==
    ASSUME DiskEnv, NEW r, Runners = {r}
    PROVE  Spec => []LockInv
<1>0. SteadyEnv
  BY DiskEnvExcludes
<1>1. Init => LockInv
  BY DEF Init, LockInv, LegAlone, NoDuplicateLiveEntry, Exposed, InLeg
<1>2. ASSUME TypeOK, LegInv, FailedInv /\ StaleInv /\ EndedInv, LockInv, [Next]_vars
      PROVE  LockInv'
  BY <1>2, ReconcileKeepsLocks, RunOnceKeepsLocks, OthersKeepLocks DEF Next
<1> QED BY <1>0, <1>1, <1>2, SteadyInvs, LegsStayApart, TypeCorrect, PTL DEF Spec

\* Whichever append to a log fails, whatever the exits do, two attempts on one
\* symbol are never live at the broker together.
THEOREM NoDuplicateWithFailingDisk ==
    ASSUME DiskEnv, NEW r, Runners = {r}
    PROVE  Spec => []NoDuplicateLiveEntry
<1>1. LockInv => NoDuplicateLiveEntry
  BY DEF LockInv
<1> QED BY <1>1, LockInvHolds, PTL

\* Whichever append to a log fails, what is live at the broker has the lock of its
\* symbol, and its trade has not ended.
THEOREM CoveredWithFailingDisk ==
    ASSUME DiskEnv, NEW r, Runners = {r}
    PROVE  Spec => []ExposureIsCovered
<1>0. SteadyEnv
  BY DiskEnvExcludes
<1>1. LockInv /\ FailedInv /\ StaleInv /\ EndedInv => ExposureIsCovered
  BY DEF LockInv, EndedInv, EndedTradesAreFlat, ExposureIsCovered
<1> QED BY <1>0, <1>1, LockInvHolds, SteadyInvs, PTL
===============================================================================
