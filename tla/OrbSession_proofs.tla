--------------------------- MODULE OrbSession_proofs ---------------------------
(* Proofs about OrbSession: its types, what may be armed, the session cap,  *)
(* that trades are managed, and what an emergency stop leaves behind.       *)
EXTENDS OrbSession, FiniteSetTheorems, TLAPS

\* A thread that deals with one trade has one.
TradePc == ExecutePc \cup {"flatten", "abandon", "settle"}
TradeNamed == \A t \in Threads : pc[t] \in TradePc => job[t].trade \in Proposals

TypeInv == TypeOK /\ TradeNamed

LEMMA TypeInit == Init => TypeInv
<1> SUFFICES ASSUME Init PROVE TypeInv
  OBVIOUS
<1>1. 1 \in Days
  BY DayAssumption DEF Days
<1>2. NoSession \in Sessions
  BY DayAssumption DEF NoSession, Sessions
<1>3. NoJob \in Job
  BY DEF NoJob, Job
<1>4. TypeOK
  BY <1>1, <1>2, <1>3 DEF Init, TypeOK, Hours, Modes, NonArmableModes, Statuses,
     States, Pc
<1>5. TradeNamed
  BY DEF Init, TradeNamed, TradePc, ExecutePc
<1> QED BY <1>4, <1>5 DEF TypeInv

\* Where a thread goes is typed when its program counter and job are.
LEMMA GoTyped ==
    ASSUME TypeInv, NEW t \in Threads, NEW l \in Pc, NEW j \in Job, Go(t, l, j),
           l \in TradePc => j.trade \in Proposals
    PROVE  pc' \in [Threads -> Pc] /\ job' \in [Threads -> Job] /\ TradeNamed'
<1>1. NoJob \in Job
  BY DEF NoJob, Job
<1>2. pc' \in [Threads -> Pc] /\ job' \in [Threads -> Job]
  BY <1>1 DEF Go, TypeInv, TypeOK
<1>3. TradeNamed'
  <2> SUFFICES ASSUME NEW u \in Threads, pc'[u] \in TradePc
               PROVE  job'[u].trade \in Proposals
    BY DEF TradeNamed
  <2>1. CASE u = t
    BY <2>1 DEF Go, TypeInv, TypeOK, TradePc, ExecutePc
  <2>2. CASE u # t
    BY <2>2 DEF Go, TypeInv, TypeOK, TradeNamed
  <2> QED BY <2>1, <2>2
<1> QED BY <1>2, <1>3

LEMMA NextTradeTyped ==
    ASSUME TypeInv, NEW t \in Threads, NEW j \in Job, NextTrade(t, j)
    PROVE  pc' \in [Threads -> Pc] /\ job' \in [Threads -> Job] /\ TradeNamed'
<1>1. [j EXCEPT !.trade = None] \in Job
  BY DEF Job
<1>2. /\ {"evaluate", "disarm", "idle"} \subseteq Pc
      /\ {"evaluate", "disarm", "idle"} \cap TradePc = {}
  BY DEF Pc, ExitPc, TradePc, ExecutePc
<1> QED BY <1>1, <1>2, GoTyped DEF NextTrade

LEMMA ThreadsKept ==
    ASSUME TypeInv, UNCHANGED threads
    PROVE  pc' \in [Threads -> Pc] /\ job' \in [Threads -> Job] /\ TradeNamed'
  BY DEF threads, TypeInv, TypeOK, TradeNamed

\* The parts of TypeOK that do not concern the threads.
DataOK ==
    /\ day \in Days /\ hour \in Hours
    /\ mode \in [Strategies -> Modes]
    /\ symbols \in [Strategies -> Symbols]
    /\ session \in [Strategies -> Sessions]
    /\ disk \in [mode : [Strategies -> Modes], symbols : [Strategies -> Symbols],
                 session : [Strategies -> Sessions]]
    /\ evidence \in [Strategies -> SUBSET Symbols]
    /\ status \in [Proposals -> Statuses]
    /\ born \in [Proposals -> Days]
    /\ executed \subseteq Proposals
    /\ execStop \in BOOLEAN
    /\ state \in [Proposals -> States]
    /\ exitStop \in BOOLEAN
    /\ noEntries \subseteq Strategies /\ late \subseteq Proposals

LEMMA Assemble ==
    TypeInv <=> /\ DataOK /\ pc \in [Threads -> Pc] /\ job \in [Threads -> Job]
                /\ TradeNamed
  BY DEF TypeInv, TypeOK, DataOK

LEMMA AssembleNext ==
    ASSUME DataOK', pc' \in [Threads -> Pc] /\ job' \in [Threads -> Job] /\ TradeNamed'
    PROVE  TypeInv'
  BY DEF TypeInv, TypeOK, DataOK

\* Every operation on the manager writes a file of the right form.
LEMMA SaveTyped ==
    ASSUME DataOK, Save,
           mode' \in [Strategies -> Modes], symbols' \in [Strategies -> Symbols],
           session' \in [Strategies -> Sessions]
    PROVE  disk' \in [mode : [Strategies -> Modes], symbols : [Strategies -> Symbols],
                      session : [Strategies -> Sessions]]
  BY DEF Save, DataOK

LEMMA ManageTyped == ASSUME TypeInv, Manage PROVE TypeInv'
<1> PICK s \in Strategies :
       \/ \E m \in UsedModes, y \in Symbols, params \in BOOLEAN : Upsert(s, m, y, params)
       \/ \E d \in {day, day + 1} : Arm(s, d)
       \/ Disarm(s)
       \/ DisableToday(s)
       \/ SaveEvidence(s)
  BY DEF Manage
<1>d. DataOK
  BY Assemble
<1>s. /\ NoSession \in Sessions
      /\ \A d \in {day, day + 1} : ArmedFor(d) \in Sessions /\ DisabledFor(d) \in Sessions
  BY <1>d, DayAssumption DEF DataOK, Days, NoSession, Sessions, ArmedFor, DisabledFor
<1>1. ASSUME NEW m \in UsedModes, NEW y \in Symbols, NEW params \in BOOLEAN,
             Upsert(s, m, y, params)
      PROVE  TypeInv'
  <2>1. /\ mode' \in [Strategies -> Modes] /\ symbols' \in [Strategies -> Symbols]
        /\ session' \in [Strategies -> Sessions]
    BY <1>1, <1>d, <1>s, UsedModesAssumption DEF Upsert, DataOK
  <2>2. UNCHANGED threads
    BY <1>1 DEF Upsert
  <2>3. DataOK'
    BY <1>1, <1>d, <2>1, SaveTyped
       DEF Upsert, DataOK, clock, proposals, executor, exits
  <2> QED BY <2>2, <2>3, ThreadsKept, AssembleNext
<1>2. ASSUME \/ \E d \in {day, day + 1} : Arm(s, d)
             \/ Disarm(s)
             \/ DisableToday(s)
      PROVE  TypeInv'
  <2>1. /\ UNCHANGED <<clock, mode, symbols, evidence, proposals, executor, exits, threads>>
        /\ Save
        /\ session' \in [Strategies -> Sessions]
    BY <1>2, <1>d, <1>s DEF Arm, Disarm, DisableToday, DataOK
  <2>2. DataOK'
    BY <2>1, <1>d, SaveTyped DEF DataOK, clock, proposals, executor, exits
  <2> QED BY <2>1, <2>2, ThreadsKept, AssembleNext
<1>3. ASSUME SaveEvidence(s) PROVE TypeInv'
  <2>1. DataOK'
    BY <1>3, <1>d DEF SaveEvidence, DataOK, clock, proposals, executor, exits
  <2>2. UNCHANGED threads
    BY <1>3 DEF SaveEvidence
  <2> QED BY <2>1, <2>2, ThreadsKept, AssembleNext
<1> QED BY <1>1, <1>2, <1>3

LEMMA ProposeTyped == ASSUME TypeInv, Propose \/ Operate \/ PassTime PROVE TypeInv'
<1>d. DataOK
  BY Assemble
<1>1. UNCHANGED threads
  BY DEF Propose, Operate, PassTime, ListProposals, Create, Skip, Expire, CancelEntry,
     SetNewEntries
<1>2. ASSUME Propose PROVE DataOK'
  BY <1>2, <1>d DEF Propose, ListProposals, ExpireDue, Create, Skip, Expire, DataOK,
     Statuses, clock, manager, executor, exits
<1>3. ASSUME Operate PROVE DataOK'
  BY <1>3, <1>d DEF Operate, CancelEntry, SetNewEntries, DataOK, States, Active, clock,
     manager, proposals, executor
<1>4. ASSUME PassTime PROVE DataOK'
  BY <1>4, <1>d, DayAssumption DEF PassTime, DataOK, Days, Hours, manager, proposals,
     executor, exits
<1> QED BY <1>1, <1>2, <1>3, <1>4, ThreadsKept, AssembleNext

LEMMA RestartTyped == ASSUME TypeInv, Restart PROVE TypeInv'
<1>d. DataOK
  BY Assemble
<1>1. DataOK'
  <2>1. /\ mode' \in [Strategies -> Modes] /\ symbols' \in [Strategies -> Symbols]
        /\ session' \in [Strategies -> Sessions]
    BY <1>d DEF Restart, DataOK
  <2>2. /\ status' \in [Proposals -> Statuses] /\ born' \in [Proposals -> Days]
        /\ state' \in [Proposals -> States]
    BY DayAssumption DEF Restart, Days, Statuses, States
  <2> QED BY <1>d, <2>1, <2>2 DEF Restart, DataOK, clock
<1>2. NoJob \in Job
  BY DEF NoJob, Job
<1>3. pc' \in [Threads -> Pc] /\ job' \in [Threads -> Job] /\ TradeNamed'
  BY <1>2 DEF Restart, Pc, TradeNamed, TradePc, ExecutePc
<1> QED BY <1>1, <1>3, AssembleNext

LEMMA ThreadTyped ==
    ASSUME TypeInv, NEW t \in Threads, Arrive(t) \/ Proceed(t)
    PROVE  TypeInv'
<1>d. DataOK /\ job[t] \in Job
  BY Assemble DEF Job
<1>p. /\ ExecutePc \subseteq Pc /\ ExitPc \subseteq Pc
      /\ {"idle", "trip", "snapshot", "disarm"} \subseteq Pc
      /\ {"idle", "trip", "snapshot", "disarm", "evaluate"} \cap TradePc = {}
  BY DEF Pc, TradePc, ExecutePc, ExitPc
<1>n. pc[t] \in TradePc => job[t].trade \in Proposals
  BY DEF TypeInv, TradeNamed
<1> USE DEF clock, manager, proposals, executor, exits
<1>1. ASSUME NEW p \in Proposals, BeginExecute(t, p) PROVE TypeInv'
  <2>1. [NoJob EXCEPT !.trade = p] \in Job /\ [NoJob EXCEPT !.trade = p].trade = p
    BY DEF NoJob, Job
  <2>2. DataOK'
    BY <1>1, <1>d DEF BeginExecute, ExpireDue, DataOK, Statuses
  <2>3. UNCHANGED threads \/ Go(t, "gates", [NoJob EXCEPT !.trade = p])
    BY <1>1 DEF BeginExecute
  <2>4. "gates" \in Pc
    BY DEF Pc, ExecutePc
  <2> QED BY <2>1, <2>2, <2>3, <2>4, GoTyped, ThreadsKept, AssembleNext
<1>2. ASSUME NEW p \in Proposals, CloseNow(t, p) PROVE TypeInv'
  <2>1. [NoJob EXCEPT !.trade = p] \in Job /\ [NoJob EXCEPT !.trade = p].trade = p
    BY DEF NoJob, Job
  <2>2. DataOK'
    BY <1>2, <1>d DEF CloseNow, DataOK
  <2>3. Go(t, "flatten", [NoJob EXCEPT !.trade = p]) /\ "flatten" \in Pc
    BY <1>2 DEF CloseNow, Pc, ExitPc
  <2> QED BY <2>1, <2>2, <2>3, GoTyped, AssembleNext
<1>3. ASSUME NEW S \in SUBSET Proposals, Monitor(t, S) PROVE TypeInv'
  <2>1. [NoJob EXCEPT !.todo = S] \in Job
    BY DEF NoJob, Job
  <2>2. DataOK'
    BY <1>3, <1>d DEF Monitor, DataOK
  <2>3. Go(t, "evaluate", [NoJob EXCEPT !.todo = S]) /\ "evaluate" \in Pc
    BY <1>3 DEF Monitor, Pc, ExitPc
  <2> QED BY <2>1, <2>2, <2>3, <1>p, GoTyped, AssembleNext
<1>4. ASSUME EmergencyStop(t) PROVE TypeInv'
  <2>1. [NoJob EXCEPT !.stopping = TRUE] \in Job
    BY DEF NoJob, Job
  <2>2. DataOK'
    BY <1>4, <1>d DEF EmergencyStop, DataOK
  <2>3. Go(t, "trip", [NoJob EXCEPT !.stopping = TRUE])
    BY <1>4 DEF EmergencyStop
  <2> QED BY <2>1, <2>2, <2>3, <1>p, GoTyped, AssembleNext
<1>5. ASSUME CheckGates(t) \/ CheckNewEntries(t) PROVE TypeInv'
  <2>1. DataOK'
    BY <1>5, <1>d DEF CheckGates, CheckNewEntries, DataOK
  <2>2. PICK l \in {"entries", "execute", "idle"} : Go(t, l, job[t])
    BY <1>5 DEF CheckGates, CheckNewEntries, Goto
  <2>3. l \in Pc /\ (l \in TradePc => job[t].trade \in Proposals)
    BY <1>5, <1>n, <1>p DEF CheckGates, CheckNewEntries, TradePc, ExecutePc
  <2> QED BY <2>1, <2>2, <2>3, <1>d, GoTyped, AssembleNext
<1>6. ASSUME ExecutePaper(t) PROVE TypeInv'
  <2>1. job[t].trade \in Proposals
    BY <1>6, <1>n DEF ExecutePaper, TradePc, ExecutePc
  <2>2. DataOK'
    BY <1>6, <2>1, <1>d DEF ExecutePaper, DataOK, Statuses
  <2>3. PICK l \in {"register", "idle"} : Go(t, l, job[t])
    BY <1>6 DEF ExecutePaper, Goto
  <2>4. l \in Pc
    BY <1>p DEF ExecutePc
  <2> QED BY <2>1, <2>2, <2>3, <2>4, <1>d, GoTyped, AssembleNext
<1>7. ASSUME RegisterTrade(t) \/ MarkEntryFilled(t) PROVE TypeInv'
  <2>1. job[t].trade \in Proposals
    BY <1>7, <1>n DEF RegisterTrade, MarkEntryFilled, TradePc, ExecutePc
  <2>2. DataOK'
    <3>1. state' \in [Proposals -> States]
      BY <1>7, <2>1, <1>d DEF RegisterTrade, MarkEntryFilled, DataOK, States, Active
    <3> QED BY <1>7, <2>1, <3>1, <1>d DEF RegisterTrade, MarkEntryFilled, DataOK
  <2>3. PICK l \in {"fill", "idle"} : Go(t, l, job[t])
    BY <1>7 DEF RegisterTrade, MarkEntryFilled, Goto
  <2>4. l \in Pc
    BY <1>p DEF ExecutePc
  <2> QED BY <2>1, <2>2, <2>3, <2>4, <1>d, GoTyped, AssembleNext
<1>8. ASSUME Evaluate(t) PROVE TypeInv'
  <2>1. DataOK'
    BY <1>8, <1>d DEF Evaluate, DataOK
  <2>2. PICK p \in job[t].todo, l \in {"flatten", "abandon"} :
           \/ Go(t, l, [job[t] EXCEPT !.todo = @ \ {p}, !.trade = p])
           \/ NextTrade(t, [job[t] EXCEPT !.todo = @ \ {p}, !.trade = p])
    BY <1>8 DEF Evaluate
  <2>3. p \in Proposals
    BY <1>d DEF Job
  <2>4. /\ [job[t] EXCEPT !.todo = @ \ {p}, !.trade = p] \in Job
        /\ [job[t] EXCEPT !.todo = @ \ {p}, !.trade = p].trade = p
    BY <1>d, <2>3 DEF Job
  <2>5. l \in Pc
    BY <1>p DEF ExitPc
  <2> QED BY <2>1, <2>2, <2>3, <2>4, <2>5, GoTyped, NextTradeTyped, AssembleNext
<1>9. ASSUME RequestExit(t) \/ MarkExitFilled(t) \/ MarkExitFailed(t) PROVE TypeInv'
  <2>1. job[t].trade \in Proposals
    BY <1>9, <1>n DEF RequestExit, MarkExitFilled, MarkExitFailed, TradePc
  <2>2. DataOK'
    <3>1. state' \in [Proposals -> States]
      BY <1>9, <2>1, <1>d DEF RequestExit, MarkExitFilled, MarkExitFailed, DataOK, States,
         Active
    <3> QED BY <1>9, <3>1, <1>d DEF RequestExit, MarkExitFilled, MarkExitFailed, DataOK
  <2>3. Go(t, "settle", job[t]) \/ NextTrade(t, job[t])
    BY <1>9 DEF RequestExit, MarkExitFilled, MarkExitFailed, Goto
  <2>4. "settle" \in Pc
    BY <1>p DEF ExitPc
  <2> QED BY <2>1, <2>2, <2>3, <2>4, <1>d, GoTyped, NextTradeTyped, AssembleNext
<1>10. ASSUME TripExits(t) PROVE TypeInv'
  <2>1. DataOK'
    BY <1>10, <1>d DEF TripExits, DataOK
  <2>2. Go(t, "snapshot", job[t])
    BY <1>10 DEF TripExits, Goto
  <2> QED BY <2>1, <2>2, <1>d, <1>p, GoTyped, AssembleNext
<1>11. ASSUME SnapshotOpen(t) PROVE TypeInv'
  <2>1. DataOK'
    BY <1>11, <1>d DEF SnapshotOpen, DataOK
  <2>2. [job[t] EXCEPT !.todo = Open] \in Job
    BY <1>d DEF Job, Open
  <2>3. NextTrade(t, [job[t] EXCEPT !.todo = Open])
    BY <1>11 DEF SnapshotOpen
  <2> QED BY <2>1, <2>2, <2>3, NextTradeTyped, AssembleNext
<1>12. ASSUME DisarmAll(t) PROVE TypeInv'
  <2>1. session' \in [Strategies -> Sessions]
    BY <1>12, DayAssumption DEF DisarmAll, NoSession, Sessions
  <2>2. DataOK'
    BY <1>12, <2>1, <1>d, SaveTyped DEF DisarmAll, DataOK
  <2>3. Go(t, "idle", job[t])
    BY <1>12 DEF DisarmAll, Goto
  <2> QED BY <2>2, <2>3, <1>d, <1>p, GoTyped, AssembleNext
<1> QED BY <1>1, <1>2, <1>3, <1>4, <1>5, <1>6, <1>7, <1>8, <1>9, <1>10, <1>11, <1>12
        DEF Arrive, Proceed

LEMMA TypeStep == ASSUME TypeInv, [Next]_vars PROVE TypeInv'
<1>1. ASSUME UNCHANGED vars PROVE TypeInv'
  <2>1. DataOK'
    BY <1>1, Assemble DEF vars, clock, manager, proposals, executor, exits, DataOK
  <2>2. UNCHANGED threads
    BY <1>1 DEF vars
  <2> QED BY <2>1, <2>2, ThreadsKept, AssembleNext
<1> QED BY <1>1, ManageTyped, ProposeTyped, RestartTyped, ThreadTyped DEF Next

(* Every variable keeps its type, for any strategies, proposals, threads,   *)
(* caps and days, with restarts and failing writes.                         *)
THEOREM TypeCorrect == Spec => []TypeOK
<1>1. TypeInv => TypeOK
  BY DEF TypeInv
<1> QED BY <1>1, TypeInit, TypeStep, PTL DEF Spec

-----------------------------------------------------------------------------
(* The manager: what is armed, in memory and in the file.                   *)

\* Evidence is only added, so what was admitted stays so.
LEMMA MoreEvidence ==
    ASSUME NEW m, NEW y, NEW ses, Admitted(m, y, ses),
           \A s \in Strategies : evidence[s] \subseteq evidence'[s]
    PROVE  \A s \in Strategies :
              ses[s].kind = "armed" => /\ m[s] \notin NonArmableModes
                                       /\ m[s] = "paper_autonomous" => y[s] \in evidence'[s]
  BY DEF Admitted

\* A save of what is admitted, that fails or not, leaves a file that is.
LEMMA SaveAdmitted ==
    ASSUME ArmedIsAdmitted, Save, evidence' = evidence, Admitted(mode', symbols', session')
    PROVE  ArmedIsAdmitted'
<1>1. disk' = disk \/ disk' = [mode |-> mode', symbols |-> symbols', session |-> session']
  BY DEF Save
<1>2. Admitted(disk'.mode, disk'.symbols, disk'.session)
  BY <1>1 DEF ArmedIsAdmitted
<1> QED BY <1>2 DEF ArmedIsAdmitted, Admitted

LEMMA ArmedStep ==
    ASSUME TypeInv, ArmedIsAdmitted, [Next]_vars
    PROVE  ArmedIsAdmitted'
<1>d. DataOK
  BY Assemble
<1>1. ASSUME NEW s \in Strategies, NEW m \in UsedModes, NEW y \in Symbols,
             NEW params \in BOOLEAN, Upsert(s, m, y, params)
      PROVE  ArmedIsAdmitted'
  <2>1. Save /\ evidence' = evidence
    BY <1>1 DEF Upsert
  <2>2. Admitted(mode', symbols', session')
    BY <1>1, <1>d DEF Upsert, Admitted, ArmedIsAdmitted, DataOK, NoSession
  <2> QED BY <2>1, <2>2, SaveAdmitted
<1>2. ASSUME NEW s \in Strategies,
             (\E d \in {day, day + 1} : Arm(s, d)) \/ Disarm(s) \/ DisableToday(s)
      PROVE  ArmedIsAdmitted'
  <2>1. Save /\ UNCHANGED <<mode, symbols, evidence>>
    BY <1>2 DEF Arm, Disarm, DisableToday
  <2>2. Admitted(mode', symbols', session')
    BY <1>2, <1>d DEF Arm, Disarm, DisableToday, Admitted, ArmedIsAdmitted, DataOK,
       NoSession, ArmedFor, DisabledFor
  <2> QED BY <2>1, <2>2, SaveAdmitted
<1>3. ASSUME NEW s \in Strategies, SaveEvidence(s) PROVE ArmedIsAdmitted'
  <2>1. \A q \in Strategies : evidence[q] \subseteq evidence'[q]
    BY <1>3, <1>d DEF SaveEvidence, DataOK
  <2>2. UNCHANGED <<mode, symbols, session, disk>>
    BY <1>3 DEF SaveEvidence
  <2> QED BY <2>1, <2>2, MoreEvidence DEF ArmedIsAdmitted, Admitted
<1>4. ASSUME NEW t \in Threads, DisarmAll(t) PROVE ArmedIsAdmitted'
  <2>1. Save /\ UNCHANGED <<mode, symbols, evidence>>
    BY <1>4 DEF DisarmAll
  <2>2. Admitted(mode', symbols', session')
    BY <1>4 DEF DisarmAll, Admitted, NoSession
  <2> QED BY <2>1, <2>2, SaveAdmitted
<1>5. CASE Restart
  BY <1>5 DEF Restart, ArmedIsAdmitted, Admitted
<1>6. CASE UNCHANGED manager
  BY <1>6 DEF manager, ArmedIsAdmitted, Admitted
<1>7. ASSUME Manage PROVE ArmedIsAdmitted'
  BY <1>1, <1>2, <1>3, <1>7 DEF Manage
<1>8. ASSUME NEW t \in Threads, Arrive(t) \/ Proceed(t) PROVE ArmedIsAdmitted'
  <2>1. DisarmAll(t) \/ UNCHANGED manager
    BY <1>8 DEF Arrive, Proceed, BeginExecute, CloseNow, Monitor, EmergencyStop, CheckGates,
       CheckNewEntries, ExecutePaper, RegisterTrade, MarkEntryFilled, Evaluate, RequestExit,
       MarkExitFilled, MarkExitFailed, TripExits, SnapshotOpen
  <2> QED BY <2>1, <1>4, <1>6
<1>9. ASSUME Propose \/ Operate \/ PassTime \/ UNCHANGED vars PROVE UNCHANGED manager
  BY <1>9 DEF Propose, Operate, PassTime, vars, ListProposals, Create, Skip, Expire,
     CancelEntry, SetNewEntries
<1> QED BY <1>5, <1>6, <1>7, <1>8, <1>9 DEF Next

(* What is armed may be armed, for any strategies, modes and symbol lists,  *)
(* whatever writes fail and whenever the process restarts.                  *)
THEOREM ArmedHolds == Spec => []ArmedIsAdmitted
<1>1. Init => ArmedIsAdmitted
  BY DEF Init, ArmedIsAdmitted, Admitted, NoSession
<1> QED BY <1>1, TypeInit, TypeStep, ArmedStep, PTL DEF Spec

-----------------------------------------------------------------------------
(* Who moves: a step is of one thread, of none, or a restart.               *)

Others(t) == \A u \in Threads \ {t} : pc'[u] = pc[u] /\ job'[u] = job[u]

LEMMA GoMoves ==
    ASSUME TypeInv, NEW t \in Threads, NEW l, NEW j, Go(t, l, j)
    PROVE  /\ Others(t)
           /\ pc'[t] = l
           /\ l # "idle" => job'[t] = j
           /\ l = "idle" => job'[t] = NoJob
  BY DEF Go, TypeInv, TypeOK, Others

LEMMA NextTradeMoves ==
    ASSUME TypeInv, NEW t \in Threads, NEW j \in Job, NextTrade(t, j)
    PROVE  /\ Others(t)
           /\ pc'[t] \in {"evaluate", "disarm", "idle"}
           /\ pc'[t] = "evaluate" => job'[t] = [j EXCEPT !.trade = None]
           /\ j.todo # {} => pc'[t] = "evaluate"
           /\ pc'[t] = "disarm" => j.todo = {}
           /\ j.stopping => pc'[t] # "idle"
  BY GoMoves DEF NextTrade

LEMMA Moves ==
    ASSUME TypeInv, [Next]_vars
    PROVE  \/ Restart
           \/ UNCHANGED threads
           \/ \E t \in Threads : (Arrive(t) \/ Proceed(t)) /\ Others(t)
<1>1. ASSUME NEW t \in Threads, Arrive(t) \/ Proceed(t)
      PROVE  UNCHANGED threads \/ Others(t)
  <2>1. job[t] \in Job
    BY Assemble DEF Job
  <2>2. CASE \E l, j : Go(t, l, j)
    BY <2>2, GoMoves
  <2>3. CASE \E j \in Job : NextTrade(t, j)
    BY <2>3, NextTradeMoves
  <2>4. CASE \E p \in Proposals : BeginExecute(t, p) \/ CloseNow(t, p)
    BY <2>4, <2>2 DEF BeginExecute, CloseNow
  <2>5. CASE (\E S \in SUBSET Proposals : Monitor(t, S)) \/ EmergencyStop(t)
    BY <2>5, <2>2 DEF Monitor, EmergencyStop
  <2>6. CASE \/ CheckGates(t) \/ CheckNewEntries(t) \/ ExecutePaper(t)
             \/ RegisterTrade(t) \/ MarkEntryFilled(t) \/ TripExits(t) \/ DisarmAll(t)
    BY <2>6, <2>2 DEF CheckGates, CheckNewEntries, ExecutePaper, RegisterTrade,
       MarkEntryFilled, TripExits, DisarmAll, Goto
  <2>7. CASE Evaluate(t) \/ RequestExit(t) \/ MarkExitFilled(t) \/ MarkExitFailed(t)
             \/ SnapshotOpen(t)
    BY <2>7, <2>2 DEF Evaluate, RequestExit, MarkExitFilled, MarkExitFailed, SnapshotOpen,
       Goto, NextTrade
  <2> QED BY <1>1, <2>4, <2>5, <2>6, <2>7 DEF Arrive, Proceed
<1>2. ASSUME Manage \/ Propose \/ Operate \/ PassTime PROVE UNCHANGED threads
  BY <1>2 DEF Manage, Upsert, Arm, Disarm, DisableToday, SaveEvidence, Propose, Operate,
     PassTime, ListProposals, Create, Skip, Expire, CancelEntry, SetNewEntries
<1> QED BY <1>1, <1>2 DEF Next, vars
-----------------------------------------------------------------------------
(* The executor: the cap, and one trade for each executed proposal.         *)

ExecutorInv == ExecutedHasTrade /\ IsFiniteSet(executed) /\ CapRespected

\* Steps that execute nothing leave what the executor counts as it is.
Quiet == /\ executed' = executed
         /\ \A p \in Proposals : /\ status'[p] = "executed" <=> status[p] = "executed"
                                 /\ p \in executed => born'[p] = born[p]

LEMMA QuietSteps ==
    ASSUME TypeInv, ExecutedHasTrade, [Next]_vars
    PROVE  Quiet \/ Restart \/ \E t \in Threads : ExecutePaper(t)
<1>1. ASSUME UNCHANGED executed, UNCHANGED proposals PROVE Quiet
  BY <1>1 DEF Quiet, proposals
<1>2. ASSUME Propose PROVE Quiet
  BY <1>2, Assemble DEF Propose, ListProposals, ExpireDue, Due, Create, Skip, Expire, Quiet,
     executor, DataOK, ExecutedHasTrade
<1>3. ASSUME Manage \/ Operate \/ PassTime \/ UNCHANGED vars PROVE Quiet
  BY <1>3, <1>1 DEF Manage, Upsert, Arm, Disarm, DisableToday, SaveEvidence, Operate,
     PassTime, CancelEntry, SetNewEntries, vars, executor
<1>4. ASSUME NEW t \in Threads, NEW p \in Proposals, BeginExecute(t, p) PROVE Quiet
  BY <1>4, Assemble DEF BeginExecute, ExpireDue, Due, Quiet, executor, DataOK
<1>5. ASSUME NEW t \in Threads, Arrive(t) \/ Proceed(t) PROVE Quiet \/ ExecutePaper(t)
  BY <1>5, <1>4, <1>1 DEF Arrive, Proceed, CloseNow, Monitor, EmergencyStop, CheckGates,
     CheckNewEntries, RegisterTrade, MarkEntryFilled, Evaluate, RequestExit,
     MarkExitFilled, MarkExitFailed, TripExits, SnapshotOpen, DisarmAll, executor
<1> QED BY <1>2, <1>3, <1>5 DEF Next

LEMMA ExecutorStep ==
    ASSUME TypeInv, ExecutorInv, [Next]_vars
    PROVE  ExecutorInv'
<1>d. DataOK
  BY Assemble
<1>1. CASE Quiet
  <2>1. \A s \in Strategies, d \in Days : SessionTrades(s, d)' = SessionTrades(s, d)
    BY <1>1, <1>d DEF Quiet, SessionTrades, DataOK
  <2> QED BY <1>1, <2>1 DEF Quiet, ExecutorInv, ExecutedHasTrade, CapRespected
<1>2. CASE Restart
  <2>1. executed' = {} /\ \A p \in Proposals : status'[p] = "none"
    BY <1>2 DEF Restart
  <2>2. \A s \in Strategies, d \in Days : SessionTrades(s, d)' = {}
    BY <2>1 DEF SessionTrades
  <2>3. IsFiniteSet({}) /\ Cardinality({}) = 0
    BY FS_EmptySet
  <2> QED BY <2>1, <2>2, <2>3, CapAssumption
          DEF ExecutorInv, ExecutedHasTrade, CapRespected
<1>3. ASSUME NEW t \in Threads, ExecutePaper(t) PROVE ExecutorInv'
  <2> DEFINE p == job[t].trade
             q == StrategyOf[p]
  <2>1. p \in Proposals
    BY <1>3 DEF ExecutePaper, TypeInv, TradeNamed, TradePc, ExecutePc
  <2>2. CASE UNCHANGED <<status, executed>>
    BY <1>3, <2>2, <1>1 DEF ExecutePaper, Quiet
  <2>3. CASE /\ p \notin executed /\ Executable(p)
             /\ status' = [status EXCEPT ![p] = "executed"]
             /\ executed' = executed \cup {p}
    <3>1. ExecutedHasTrade'
      BY <2>1, <2>3, <1>d DEF ExecutedHasTrade, ExecutorInv, DataOK
    <3>2. IsFiniteSet(executed')
      BY <2>3, FS_AddElement DEF ExecutorInv
    <3>3. UNCHANGED born
      BY <1>3 DEF ExecutePaper
    <3>4. ASSUME NEW s \in Strategies, NEW d \in Days
          PROVE  Cardinality(SessionTrades(s, d)') <= Cap[s]
      <4>1. Cardinality(SessionTrades(s, d)) <= Cap[s]
        BY DEF ExecutorInv, CapRespected
      <4>2. CASE s = q /\ d = born[p]
        <5>1. SessionTrades(s, d)' = SessionTrades(s, d) \cup {p}
          BY <2>3, <3>3, <4>2 DEF SessionTrades
        <5>2. IsFiniteSet(SessionTrades(s, d)) /\ p \notin SessionTrades(s, d)
          BY <2>3, FS_Subset DEF SessionTrades, ExecutorInv
        <5>3. /\ Cardinality(SessionTrades(s, d)') = Cardinality(SessionTrades(s, d)) + 1
              /\ Cardinality(SessionTrades(s, d)) \in Nat
          BY <5>1, <5>2, FS_AddElement, FS_CardinalityType
        <5>4. Cardinality(SessionTrades(s, d)) < Cap[s] /\ Cap[s] \in Nat
          BY <2>3, <4>2, CapAssumption DEF Executable
        <5> QED BY <5>3, <5>4
      <4>3. CASE ~(s = q /\ d = born[p])
        <5>1. SessionTrades(s, d)' = SessionTrades(s, d)
          BY <2>3, <3>3, <4>3 DEF SessionTrades
        <5> QED BY <4>1, <5>1
      <4> QED BY <4>2, <4>3
    <3> QED BY <3>1, <3>2, <3>4 DEF ExecutorInv, CapRespected
  <2> QED BY <1>3, <2>2, <2>3 DEF ExecutePaper
<1> QED BY <1>1, <1>2, <1>3, QuietSteps DEF ExecutorInv

LEMMA ExecutorInit == Init => ExecutorInv
<1> SUFFICES ASSUME Init PROVE ExecutorInv
  OBVIOUS
<1>1. \A s \in Strategies, d \in Days : SessionTrades(s, d) = {}
  BY DEF Init, SessionTrades
<1>2. IsFiniteSet({}) /\ Cardinality({}) = 0
  BY FS_EmptySet
<1>3. CapRespected
  BY <1>1, <1>2, CapAssumption DEF CapRespected
<1>4. ExecutedHasTrade
  BY DEF Init, ExecutedHasTrade
<1>5. executed = {}
  BY DEF Init
<1> QED BY <1>2, <1>3, <1>4, <1>5 DEF ExecutorInv

(* No strategy exceeds its session cap, for any number of proposals and     *)
(* requests.                                                                *)
THEOREM CapHolds == Spec => []CapRespected
<1>1. ExecutorInv => CapRespected
  BY DEF ExecutorInv
<1> QED BY <1>1, TypeInit, TypeStep, ExecutorInit, ExecutorStep, PTL DEF Spec

(* A proposal is executed exactly when it has a trade, whatever skips and   *)
(* expiries come in between.                                                *)
THEOREM ExecutedHolds == Spec => []ExecutedHasTrade
<1>1. ExecutorInv => ExecutedHasTrade
  BY DEF ExecutorInv
<1> QED BY <1>1, TypeInit, TypeStep, ExecutorInit, ExecutorStep, PTL DEF Spec

-----------------------------------------------------------------------------
(* The exit manager: trades move on, and none is left unmanaged.            *)

\* What a step does to the intraday store.  A record comes from "register",
\* its entry is filled at "fill".
StoreStep ==
    \A p \in Proposals :
        /\ state'[p] \in {state[p]} \cup Onward[state[p]]
        /\ state[p] = "absent" /\ state'[p] # "absent" =>
              \E t \in Threads : RegisterTrade(t) /\ job[t].trade = p
        /\ state'[p] = "OPEN" /\ state[p] # "OPEN" =>
              \E t \in Threads : MarkEntryFilled(t) /\ job[t].trade = p

LEMMA StoreSteps == ASSUME TypeInv, [Next]_vars PROVE Restart \/ StoreStep
<1>d. DataOK
  BY Assemble
<1>0. \A p \in Proposals : state[p] \in States
  BY <1>d DEF DataOK
<1>1. ASSUME UNCHANGED state PROVE StoreStep
  BY <1>1, <1>0 DEF StoreStep
<1>2. ASSUME NEW p \in Proposals, CancelEntry(p) PROVE StoreStep
  BY <1>2, <1>0, <1>d DEF CancelEntry, StoreStep, DataOK, Onward
<1>3. ASSUME NEW t \in Threads, RegisterTrade(t) PROVE StoreStep
  <2>1. \A p \in Proposals :
           /\ p # job[t].trade => state'[p] = state[p]
           /\ p = job[t].trade => state'[p] = IF state[p] = "absent" THEN "ENTRY_PENDING"
                                                                     ELSE state[p]
    BY <1>3, <1>d DEF RegisterTrade, DataOK
  <2> QED BY <1>3, <2>1 DEF StoreStep, Onward
<1>4. ASSUME NEW t \in Threads, MarkEntryFilled(t) PROVE StoreStep
  <2>1. \A p \in Proposals :
           /\ p # job[t].trade => state'[p] = state[p]
           /\ p = job[t].trade => state'[p] = IF state[p] = "ENTRY_PENDING" THEN "OPEN"
                                                                            ELSE state[p]
    BY <1>4, <1>d DEF MarkEntryFilled, DataOK
  <2> QED BY <1>4, <2>1 DEF StoreStep, Onward
<1>5. ASSUME NEW t \in Threads, RequestExit(t) PROVE StoreStep
  <2>1. \A p \in Proposals :
           \/ state'[p] = state[p]
           \/ state[p] = "OPEN" /\ state'[p] = "EXIT_PENDING"
    BY <1>5, <1>d DEF RequestExit, DataOK
  <2> QED BY <2>1 DEF StoreStep, Onward
<1>6. ASSUME NEW t \in Threads, MarkExitFilled(t) \/ MarkExitFailed(t) PROVE StoreStep
  <2>1. \A p \in Proposals :
           \/ state'[p] = state[p]
           \/ state[p] = "EXIT_PENDING" /\ state'[p] \in {"CLOSED", "FAILED"}
           \/ state[p] = "OPEN" /\ state'[p] = "FAILED"
    BY <1>6, <1>d DEF MarkExitFilled, MarkExitFailed, DataOK
  <2> QED BY <2>1 DEF StoreStep, Onward
<1>7. ASSUME NEW t \in Threads, Arrive(t) \/ Proceed(t) PROVE StoreStep
  BY <1>7, <1>1, <1>3, <1>4, <1>5, <1>6 DEF Arrive, Proceed, BeginExecute, CloseNow,
     Monitor, EmergencyStop, CheckGates, CheckNewEntries, ExecutePaper, Evaluate, TripExits,
     SnapshotOpen, DisarmAll, exits
<1>8. ASSUME Manage \/ Propose \/ PassTime \/ UNCHANGED vars PROVE StoreStep
  BY <1>8, <1>1 DEF Manage, Upsert, Arm, Disarm, DisableToday, SaveEvidence, Propose,
     ListProposals, Create, Skip, Expire, PassTime, vars, exits
<1>9. ASSUME Operate PROVE StoreStep
  BY <1>9, <1>1, <1>2 DEF Operate, SetNewEntries
<1> QED BY <1>7, <1>8, <1>9 DEF Next

(* An exit is requested once and no trade is taken back, whichever requests *)
(* are at work on it.                                                       *)
THEOREM MovesOn == Spec => TradesMoveOn
<1>1. TypeInv /\ [Next]_vars
         => [Restart \/ \A p \in Proposals : state'[p] \in {state[p]} \cup Onward[state[p]]]_vars
  BY StoreSteps DEF StoreStep
<1> QED BY <1>1, TypeInit, TypeStep, PTL DEF Spec, TradesMoveOn

(* After an emergency stop nothing is executed.                             *)
THEOREM NoEntries == Spec => NoEntryAfterStop
<1>1. TypeInv /\ ExecutorInv /\ [Next]_vars
         => [Restart \/ (execStop =>
                /\ executed' = executed
                /\ \A p \in Proposals : status'[p] = "executed" => status[p] = "executed")]_vars
  <2> SUFFICES ASSUME TypeInv, ExecutorInv, [Next]_vars, execStop, ~Restart
               PROVE  /\ executed' = executed
                      /\ \A p \in Proposals : status'[p] = "executed" => status[p] = "executed"
    OBVIOUS
  <2>1. CASE Quiet
    BY <2>1 DEF Quiet
  <2>2. ASSUME NEW t \in Threads, ExecutePaper(t) PROVE UNCHANGED <<status, executed>>
    BY <2>2 DEF ExecutePaper, Executable
  <2> QED BY <2>1, <2>2, QuietSteps DEF ExecutorInv
<1> QED BY <1>1, TypeInit, TypeStep, ExecutorInit, ExecutorStep, PTL
        DEF Spec, NoEntryAfterStop

LEMMA Own ==
    ASSUME TypeInv, NEW t \in Threads, [Next]_vars
    PROVE  \/ Restart
           \/ pc'[t] = pc[t] /\ job'[t] = job[t]
           \/ Arrive(t) \/ Proceed(t)
  BY Moves DEF Others, threads

\* Who is about to register or to fill a trade has just executed or
\* registered it, or goes on waiting; and leaves only by doing so.
LEMMA EntryMoves ==
    ASSUME TypeInv, NEW t \in Threads, Arrive(t) \/ Proceed(t)
    PROVE  /\ pc'[t] = "register" => ExecutePaper(t)
           /\ pc'[t] = "fill" => RegisterTrade(t)
           /\ pc[t] = "register" => RegisterTrade(t)
           /\ pc[t] = "fill" => MarkEntryFilled(t)
           /\ pc'[t] = "trip" => EmergencyStop(t)
           /\ pc'[t] = "snapshot" => TripExits(t)
           /\ pc[t] = "snapshot" => SnapshotOpen(t)
           /\ pc[t] \in ExitPc => \/ Evaluate(t) \/ RequestExit(t)
                                 \/ MarkExitFilled(t) \/ MarkExitFailed(t)
<1>j. job[t] \in Job /\ pc[t] \in Pc
  BY Assemble DEF Job
<1>1. ASSUME NEW p \in Proposals, BeginExecute(t, p)
      PROVE  pc[t] = "idle" /\ pc'[t] \in {"idle", "gates"}
  BY <1>1, GoMoves DEF BeginExecute, threads
<1>2. ASSUME NEW p \in Proposals, CloseNow(t, p)
      PROVE  pc[t] = "idle" /\ pc'[t] = "flatten"
  BY <1>2, GoMoves DEF CloseNow
<1>3. ASSUME NEW S \in SUBSET Proposals, Monitor(t, S)
      PROVE  pc[t] = "idle" /\ pc'[t] = "evaluate"
  BY <1>3, GoMoves DEF Monitor
<1>10. ASSUME EmergencyStop(t) PROVE pc[t] = "idle" /\ pc'[t] = "trip"
  BY <1>10, GoMoves DEF EmergencyStop
<1>4. ASSUME CheckGates(t) \/ CheckNewEntries(t)
      PROVE  pc[t] \in {"gates", "entries"} /\ pc'[t] \in {"entries", "execute", "idle"}
  BY <1>4, GoMoves DEF CheckGates, CheckNewEntries, Goto
<1>5. ASSUME ExecutePaper(t) PROVE pc[t] = "execute" /\ pc'[t] \in {"register", "idle"}
  BY <1>5, GoMoves DEF ExecutePaper, Goto
<1>6. ASSUME RegisterTrade(t) PROVE pc[t] = "register" /\ pc'[t] = "fill"
  BY <1>6, GoMoves DEF RegisterTrade, Goto
<1>7. ASSUME MarkEntryFilled(t) PROVE pc[t] = "fill" /\ pc'[t] = "idle"
  BY <1>7, GoMoves DEF MarkEntryFilled, Goto
<1>8. ASSUME TripExits(t) PROVE pc[t] = "trip" /\ pc'[t] = "snapshot"
  BY <1>8, GoMoves DEF TripExits, Goto
<1>9. ASSUME DisarmAll(t) PROVE pc[t] = "disarm" /\ pc'[t] = "idle"
  BY <1>9, GoMoves DEF DisarmAll, Goto
<1>11. ASSUME SnapshotOpen(t)
       PROVE  pc[t] = "snapshot" /\ pc'[t] \in {"evaluate", "disarm", "idle"}
  BY <1>11, GoMoves DEF SnapshotOpen, NextTrade
<1>12. ASSUME Evaluate(t) \/ RequestExit(t) \/ MarkExitFilled(t) \/ MarkExitFailed(t)
       PROVE  /\ pc[t] \in ExitPc
              /\ pc'[t] \in {"evaluate", "flatten", "settle", "abandon", "disarm", "idle"}
  BY <1>12, GoMoves DEF Evaluate, RequestExit, MarkExitFilled, MarkExitFailed, Goto, NextTrade,
     ExitPc
<1> QED BY <1>1, <1>2, <1>3, <1>4, <1>5, <1>6, <1>7, <1>8, <1>9, <1>10, <1>11, <1>12
        DEF Arrive, Proceed, ExitPc

ManagedInv ==
    /\ ManagedWereExecuted
    /\ \A t \in Threads : pc[t] \in {"register", "fill"} => job[t].trade \in executed
    /\ \A p \in executed :
          /\ state[p] = "absent" => \E t \in Threads : pc[t] = "register" /\ job[t].trade = p
          /\ state[p] = "ENTRY_PENDING" => \E t \in Threads : pc[t] = "fill" /\ job[t].trade = p

LEMMA ManagedStep ==
    ASSUME TypeInv, ExecutorInv, ManagedInv, [Next]_vars
    PROVE  ManagedInv'
<1>d. DataOK
  BY Assemble
<1>1. CASE Restart
  BY <1>1 DEF Restart, ManagedInv, ManagedWereExecuted
<1>2. CASE StoreStep /\ ~Restart
  <2>1. executed \subseteq executed'
    BY <1>2, QuietSteps DEF Quiet, ExecutePaper, ExecutorInv
  <2>2. \A t \in Threads : RegisterTrade(t) \/ MarkEntryFilled(t) => job[t].trade \in executed
    BY DEF RegisterTrade, MarkEntryFilled, ManagedInv
  <2>3. ManagedWereExecuted'
    BY <1>2, <2>1, <2>2 DEF StoreStep, ManagedInv, ManagedWereExecuted
  <2>4. ASSUME NEW t \in Threads, pc'[t] \in {"register", "fill"}
        PROVE  job'[t].trade \in executed'
    <3>1. CASE pc'[t] = pc[t] /\ job'[t] = job[t]
      BY <3>1, <2>1, <2>4 DEF ManagedInv
    <3>2. CASE ExecutePaper(t)
      <4>1. Goto(t, "register") \/ Goto(t, "idle")
        BY <3>2 DEF ExecutePaper
      <4>2. pc'[t] = "register" /\ job'[t] = job[t]
        BY <4>1, <2>4, GoMoves DEF Goto
      <4>3. ~Goto(t, "idle")
        BY <4>2, GoMoves DEF Goto
      <4> QED BY <3>2, <4>2, <4>3 DEF ExecutePaper
    <3>3. CASE RegisterTrade(t)
      <4>1. Goto(t, "fill") /\ job[t].trade \in executed
        BY <3>3, <2>2 DEF RegisterTrade
      <4> QED BY <4>1, <2>1, GoMoves DEF Goto
    <3> QED BY <2>4, <3>1, <3>2, <3>3, EntryMoves, Own, <1>2
  <2>5. ASSUME NEW p \in executed', state'[p] = "absent"
        PROVE  \E t \in Threads : pc'[t] = "register" /\ job'[t].trade = p
    <3>1. p \in Proposals
      BY <2>5, QuietSteps, <1>2, <1>d
         DEF Quiet, ExecutePaper, ExecutorInv, DataOK, TypeInv, TradeNamed, TradePc, ExecutePc
    <3>2. state[p] = "absent"
      BY <2>5, <3>1, <1>2, <1>d DEF StoreStep, Onward, DataOK, States, Active
    <3>3. CASE p \in executed
      <4>1. PICK t \in Threads : pc[t] = "register" /\ job[t].trade = p
        BY <3>2, <3>3 DEF ManagedInv
      <4>2. ~RegisterTrade(t)
        BY <4>1, <2>5, <3>1, <3>2, <1>d DEF RegisterTrade, DataOK
      <4> QED BY <4>1, <4>2, EntryMoves, Own, <1>2
    <3>4. CASE p \notin executed
      <4>1. PICK t \in Threads : ExecutePaper(t)
        BY <3>4, <2>5, QuietSteps, <1>2 DEF Quiet, ExecutorInv
      <4>2. job[t].trade = p /\ Goto(t, "register")
        BY <4>1, <3>4, <2>5 DEF ExecutePaper
      <4> QED BY <4>2, GoMoves DEF Goto
    <3> QED BY <3>3, <3>4
  <2>6. ASSUME NEW p \in executed', state'[p] = "ENTRY_PENDING"
        PROVE  \E t \in Threads : pc'[t] = "fill" /\ job'[t].trade = p
    <3>1. p \in Proposals
      BY <2>6, QuietSteps, <1>2, <1>d
         DEF Quiet, ExecutePaper, ExecutorInv, DataOK, TypeInv, TradeNamed, TradePc, ExecutePc
    <3>2. state[p] \in {"absent", "ENTRY_PENDING"}
      BY <2>6, <3>1, <1>2, <1>d DEF StoreStep, Onward, DataOK, States, Active
    <3>3. CASE state[p] = "absent"
      <4>1. PICK t \in Threads : RegisterTrade(t) /\ job[t].trade = p
        BY <3>1, <3>3, <2>6, <1>2 DEF StoreStep
      <4> QED BY <4>1, GoMoves DEF RegisterTrade, Goto
    <3>4. CASE state[p] = "ENTRY_PENDING"
      <4>1. p \in executed
        BY <3>1, <3>4 DEF ManagedInv, ManagedWereExecuted
      <4>2. PICK t \in Threads : pc[t] = "fill" /\ job[t].trade = p
        BY <3>4, <4>1 DEF ManagedInv
      <4>3. ~MarkEntryFilled(t)
        BY <4>2, <2>6, <3>1, <3>4, <1>d DEF MarkEntryFilled, DataOK
      <4> QED BY <4>2, <4>3, EntryMoves, Own, <1>2
    <3> QED BY <3>2, <3>3, <3>4
  <2> QED BY <2>3, <2>4, <2>5, <2>6 DEF ManagedInv
<1> QED BY <1>1, <1>2, StoreSteps

(* No trade of the executor is left without an exit manager once the        *)
(* requests that execute it are over.                                       *)
THEOREM Managed == Spec => []TradesAreManaged
<1>1. Init => ManagedInv
  BY DEF Init, ManagedInv, ManagedWereExecuted
<1>2. ManagedInv => TradesAreManaged
  BY DEF ManagedInv, TradesAreManaged, Handling, ExecutePc
<1> QED BY <1>1, <1>2, TypeInit, TypeStep, ExecutorInit, ExecutorStep, ManagedStep, PTL
        DEF Spec

-----------------------------------------------------------------------------
(* The emergency stop: as long as something is open that was not filled     *)
(* after it, a request is about to take its snapshot, or has all of it      *)
(* still before it.                                                         *)

Exposed == Open \ late

Ahead(t, p) == p \in job[t].todo \/ (job[t].trade = p /\ pc[t] \in {"flatten", "abandon"})

Flattens(t) == /\ job[t].stopping /\ pc[t] \in ExitPc
               /\ \A p \in Exposed : Ahead(t, p)

StopInv ==
    /\ \A t \in Threads : pc[t] \in {"trip", "snapshot"} => job[t].stopping
    /\ exitStop => \/ \E t \in Threads : pc[t] = "snapshot"
                   \/ \E t \in Threads : Flattens(t)
                   \/ Exposed = {}

LEMMA TripMoves ==
    ASSUME TypeInv, StopInv, NEW t \in Threads, [Next]_vars, pc'[t] \in {"trip", "snapshot"}
    PROVE  job'[t].stopping
<1>1. CASE Restart
  BY <1>1 DEF Restart
<1>2. CASE pc'[t] = pc[t] /\ job'[t] = job[t]
  BY <1>2 DEF StopInv
<1>3. CASE EmergencyStop(t)
  <2>1. job'[t] = [NoJob EXCEPT !.stopping = TRUE]
    BY <1>3, GoMoves DEF EmergencyStop
  <2> QED BY <2>1 DEF NoJob
<1>4. CASE TripExits(t)
  <2>1. job'[t] = job[t] /\ pc[t] = "trip"
    BY <1>4, GoMoves DEF TripExits, Goto
  <2> QED BY <2>1 DEF StopInv
<1> QED BY <1>1, <1>2, <1>3, <1>4, Own, EntryMoves

\* Once the exit manager has been tripped, nothing new is exposed.
LEMMA ExposedShrinks ==
    ASSUME TypeInv, [Next]_vars, ~Restart, exitStop
    PROVE  exitStop' /\ Exposed' \subseteq Exposed
<1>d. DataOK
  BY Assemble
<1>1. exitStop' /\ late \subseteq late'
  <2>1. CASE UNCHANGED exits
    BY <2>1 DEF exits
  <2>2. CASE Operate
    BY <2>2 DEF Operate, CancelEntry, SetNewEntries
  <2>3. ASSUME NEW t \in Threads, Arrive(t) \/ Proceed(t)
        PROVE  exitStop' /\ late \subseteq late'
    BY <2>3, <2>1 DEF Arrive, Proceed, BeginExecute, CloseNow, Monitor, EmergencyStop,
       CheckGates, CheckNewEntries, ExecutePaper, RegisterTrade, MarkEntryFilled, Evaluate,
       RequestExit, MarkExitFilled, MarkExitFailed, TripExits, SnapshotOpen, DisarmAll
  <2>4. CASE Manage \/ Propose \/ PassTime \/ UNCHANGED vars
    BY <2>4, <2>1 DEF Manage, Upsert, Arm, Disarm, DisableToday, SaveEvidence, Propose,
       ListProposals, Create, Skip, Expire, PassTime, vars
  <2> QED BY <2>2, <2>3, <2>4 DEF Next
<1>2. ASSUME NEW p \in Proposals, state'[p] = "OPEN", p \notin late'
      PROVE  state[p] = "OPEN"
  <2> SUFFICES ASSUME state[p] # "OPEN" PROVE FALSE
    OBVIOUS
  <2>1. PICK t \in Threads : MarkEntryFilled(t) /\ job[t].trade = p
    BY <1>2, StoreSteps DEF StoreStep
  <2> QED BY <2>1, <1>2 DEF MarkEntryFilled
<1> QED BY <1>1, <1>2 DEF Exposed, Open

\* A stopping request that leaves a trade behind has seen to it that it is
\* not open.
LEMMA FlattensOn ==
    ASSUME TypeInv, [Next]_vars, ~Restart, exitStop, NEW t \in Threads, Flattens(t)
    PROVE  Flattens(t)' \/ Exposed' = {}
<1>d. DataOK /\ job[t] \in Job
  BY Assemble DEF Job
<1>e. Exposed' \subseteq Exposed /\ Exposed \subseteq Proposals
  BY ExposedShrinks DEF Exposed, Open
<1>1. CASE pc'[t] = pc[t] /\ job'[t] = job[t]
  BY <1>1, <1>e DEF Flattens, Ahead
<1>2. ASSUME NEW j \in Job, NextTrade(t, j), j.stopping, \A p \in Exposed' : p \in j.todo
      PROVE  Flattens(t)' \/ Exposed' = {}
  <2>1. CASE j.todo = {}
    BY <1>2, <2>1
  <2>2. CASE j.todo # {}
    <3>1. pc'[t] = "evaluate" /\ job'[t] = [j EXCEPT !.trade = None]
      BY <1>2, <2>2, NextTradeMoves
    <3>2. job'[t].stopping /\ job'[t].todo = j.todo
      BY <1>2, <3>1 DEF Job
    <3> QED BY <1>2, <3>1, <3>2 DEF Flattens, Ahead, ExitPc
  <2> QED BY <2>1, <2>2
<1>3. CASE Evaluate(t)
  <2>1. PICK p \in job[t].todo, l \in {"flatten", "abandon"} :
           Go(t, l, [job[t] EXCEPT !.todo = @ \ {p}, !.trade = p])
    BY <1>3 DEF Evaluate
  <2>2. pc'[t] = l /\ job'[t] = [job[t] EXCEPT !.todo = @ \ {p}, !.trade = p]
    BY <2>1, GoMoves
  <2>3. /\ job'[t].todo = job[t].todo \ {p} /\ job'[t].trade = p
        /\ job'[t].stopping = job[t].stopping
    BY <2>2, <1>d DEF Job
  <2>4. \A q \in Exposed' : q \in job[t].todo
    BY <1>3, <1>e DEF Flattens, Ahead, Evaluate
  <2> QED BY <2>2, <2>3, <2>4 DEF Flattens, Ahead, ExitPc
<1>4. CASE RequestExit(t) \/ MarkExitFilled(t) \/ MarkExitFailed(t)
  <2>1. job[t].trade \notin Exposed' \/ pc[t] = "settle"
    BY <1>4, <1>d, <1>e
       DEF RequestExit, MarkExitFilled, MarkExitFailed, Exposed, Open, DataOK
  <2>2. \A p \in Exposed' : p \in job[t].todo
    BY <2>1, <1>e DEF Flattens, Ahead
  <2>3. CASE Go(t, "settle", job[t])
    <3>1. pc'[t] = "settle" /\ job'[t] = job[t]
      BY <2>3, GoMoves
    <3> QED BY <3>1, <2>2 DEF Flattens, Ahead, ExitPc
  <2>4. Go(t, "settle", job[t]) \/ NextTrade(t, job[t])
    BY <1>4 DEF RequestExit, MarkExitFilled, MarkExitFailed, Goto
  <2> QED BY <1>2, <1>d, <2>2, <2>3, <2>4 DEF Flattens
<1> QED BY <1>1, <1>3, <1>4, Own, EntryMoves DEF Flattens

LEMMA StopStep ==
    ASSUME TypeInv, StopInv, [Next]_vars
    PROVE  StopInv'
<1>1. CASE Restart
  BY <1>1 DEF Restart, StopInv
<1>2. ASSUME ~Restart, exitStop', ~exitStop
      PROVE  \E t \in Threads : pc'[t] = "snapshot"
  <2>1. CASE UNCHANGED exits
    BY <2>1, <1>2 DEF exits
  <2>2. CASE Operate
    BY <2>2, <1>2 DEF Operate, CancelEntry, SetNewEntries
  <2>3. ASSUME NEW t \in Threads, Arrive(t) \/ Proceed(t)
        PROVE  pc'[t] = "snapshot"
    <3>1. TripExits(t)
      BY <2>3, <2>1, <1>2 DEF Arrive, Proceed, BeginExecute, CloseNow, Monitor,
         EmergencyStop, CheckGates, CheckNewEntries, ExecutePaper, RegisterTrade,
         MarkEntryFilled, Evaluate, RequestExit, MarkExitFilled, MarkExitFailed,
         SnapshotOpen, DisarmAll, exits
    <3> QED BY <3>1, GoMoves DEF TripExits, Goto
  <2>4. CASE Manage \/ Propose \/ PassTime \/ UNCHANGED vars
    BY <2>4, <2>1 DEF Manage, Upsert, Arm, Disarm, DisableToday, SaveEvidence, Propose,
       ListProposals, Create, Skip, Expire, PassTime, vars
  <2> QED BY <1>2, <2>2, <2>3, <2>4 DEF Next
<1>3. ASSUME ~Restart, exitStop, NEW t \in Threads, pc[t] = "snapshot"
      PROVE  pc'[t] = "snapshot" \/ Flattens(t)' \/ Exposed' = {}
  <2>1. CASE pc'[t] = pc[t]
    BY <1>3, <2>1
  <2>2. CASE SnapshotOpen(t)
    <3> DEFINE j == [job[t] EXCEPT !.todo = Open]
    <3>1. j \in Job /\ j.stopping /\ j.todo = Open
      BY <1>3, Assemble DEF Job, Open, StopInv
    <3>2. NextTrade(t, j) /\ Open' = Open
      BY <2>2 DEF SnapshotOpen, exits, Open
    <3>3. CASE Open = {}
      BY <3>2, <3>3 DEF Exposed
    <3>4. CASE Open # {}
      <4>1. pc'[t] = "evaluate" /\ job'[t] = [j EXCEPT !.trade = None]
        BY <3>1, <3>2, <3>4, NextTradeMoves
      <4>2. job'[t].stopping /\ job'[t].todo = Open
        BY <3>1, <4>1 DEF Job
      <4> QED BY <3>2, <4>1, <4>2 DEF Flattens, Ahead, Exposed, ExitPc
    <3> QED BY <3>3, <3>4
  <2> QED BY <1>3, <2>1, <2>2, Own, EntryMoves
<1>4. ASSUME ~Restart, exitStop
      PROVE  \/ \E t \in Threads : pc'[t] = "snapshot"
             \/ \E t \in Threads : Flattens(t)'
             \/ Exposed' = {}
  BY <1>3, <1>4, FlattensOn, ExposedShrinks DEF StopInv
<1>5. StopInv' \/ Restart
  BY <1>2, <1>4, TripMoves DEF StopInv
<1> QED BY <1>1, <1>5

(* What an emergency stop that is over has left open was filled after it,   *)
(* whichever requests execute, close and abandon trades meanwhile.          *)
THEOREM StopHolds == Spec => []StopFlattens
<1>1. Init => StopInv
  BY DEF Init, StopInv
<1>2. StopInv => StopFlattens
  BY DEF StopInv, StopFlattens, Stopped, Flattens, Exposed
<1> QED BY <1>1, <1>2, TypeInit, TypeStep, StopStep, PTL DEF Spec

=============================================================================
