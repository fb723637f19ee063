--------------------------- MODULE LiveEntry_proofs ---------------------------
(***************************************************************************)
(* Types, and what holds for any number of runners: FAILED and CLOSED      *)
(* trades have nothing at the broker, a stale close is of a flat attempt,  *)
(* and one trader among pollers never has two live entries on a symbol.    *)
(***************************************************************************)
EXTENDS LiveEntryInv, TLAPS

USE DEF TradeStatus, LifeState, BrokerState, Pc

\* Clearing a lock, of a symbol or of nothing, leaves a function of locks.
LEMMA ClearLockType ==
    ASSUME locks \in [Symbols -> Lock], NEW s, ClearLock(s)
    PROVE  locks' \in [Symbols -> Lock]
<1>1. CASE s \in Symbols
  <2>1. [status |-> "CLEARED", trade |-> locks[s].trade] \in Lock
    BY <1>1 DEF Lock, LockStatus
  <2> QED BY <1>1, <2>1 DEF ClearLock
<1>2. CASE s \notin Symbols
  <2>1. ASSUME NEW v PROVE [locks EXCEPT ![s] = v] = locks
    BY <1>2
  <2> QED BY <2>1 DEF ClearLock
<1> QED BY <1>1, <1>2

\* The two locks a run writes.
LEMMA LockTypes ==
    /\ \A st \in LockStatus : [status |-> st, trade |-> None] \in Lock
    /\ \A st \in LockStatus, a \in Attempts : [status |-> st, trade |-> a] \in Lock
BY DEF Lock

\* Every variable keeps its type, whatever the environment may do.
THEOREM TypeCorrect == Spec => []TypeOK
<1>1. Init => TypeOK
  <2> SUFFICES ASSUME Init PROVE TypeOK
    OBVIOUS
  <2>1. locks \in [Symbols -> Lock]
    BY LockTypes DEF Init, LockStatus
  <2>2. /\ connected \in BOOLEAN /\ dupBlocked \in BOOLEAN
        /\ fillEvents \subseteq Event /\ statusLog \subseteq Event
        /\ events \in [Runners -> SUBSET Event]
    BY DEF Init
  <2>3. /\ trade \in [Attempts -> TradeStatus] /\ life \in [Attempts -> LifeState]
        /\ broker \in [Attempts -> BrokerState]
        /\ symbol \in [Attempts -> Symbols \cup {None}]
        /\ pos \in [Symbols -> SUBSET Attempts]
    BY DEF Init
  <2>4. /\ pc \in [Runners -> Pc] /\ todo \in [Runners -> SUBSET Attempts]
        /\ keys \in [Runners -> SUBSET Symbols] /\ legs \in [Runners -> SUBSET Symbols]
        /\ leg \in [Runners -> Attempts \cup {None}]
    BY DEF Init
  <2> QED BY <2>1, <2>2, <2>3, <2>4 DEF Init, TypeOK
<1>2. TypeOK /\ [Next]_vars => TypeOK'
  <2> SUFFICES ASSUME TypeOK, [Next]_vars PROVE TypeOK'
    OBVIOUS
  <2> USE RunnersAssumption, NoneAssumption DEF TypeOK
  <2>1. ASSUME NEW r \in Runners, Reconcile(r) PROVE TypeOK'
    <3>1. CASE DrainFills(r) BY <3>1 DEF DrainFills, durable
    <3>2. CASE ApplyFill(r) BY <3>2 DEF ApplyFill, WriteLife, bridge, Event
    <3>3. CASE DrainRejects(r) BY <3>3 DEF DrainRejects, durable, OpenTrades
    <3>4. CASE FailRejected(r) BY <3>4 DEF FailRejected, Settle, WriteLife, bridge
    <3>5. CASE DrainExits(r) BY <3>5 DEF DrainExits, durable
    <3>6. CASE CloseFilled(r) BY <3>6 DEF CloseFilled, Settle, WriteLife, bridge
    <3>7. CASE ReadStale(r) BY <3>7 DEF ReadStale, durable, bridge, OpenTrades
    <3>8. CASE CloseStale(r) BY <3>8 DEF CloseStale, bridge
    <3>9. CASE RecordOrphan(r) BY <3>9 DEF RecordOrphan, WriteLife, bridge
    <3>10. CASE ReadLocks(r) BY <3>10 DEF ReadLocks, durable, bridge
    <3>11. CASE ReleaseLock(r) BY <3>11, ClearLockType DEF ReleaseLock, bridge
    <3>12. CASE EndPass(r) BY <3>12 DEF EndPass, durable, bridge
    <3> QED BY <2>1, <3>1, <3>2, <3>3, <3>4, <3>5, <3>6, <3>7, <3>8, <3>9, <3>10,
               <3>11, <3>12 DEF Reconcile
  <2>2. ASSUME NEW r \in Runners, RunOnce(r) PROVE TypeOK'
    <3>1. CASE Plan(r) BY <3>1 DEF Plan, durable, bridge
    <3>2. CASE Preflight(r) BY <3>2 DEF Preflight, BlockDuplicate, Return, bridge
    <3>3. CASE StartLeg(r)
      <4>1. symbol' \in [Attempts -> Symbols \cup {None}]
        BY <3>3 DEF StartLeg
      <4>2. leg' \in [Runners -> Attempts \cup {None}]
        BY <3>3 DEF StartLeg, Return
      <4>3. /\ pc' \in [Runners -> Pc] /\ legs' \in [Runners -> SUBSET Symbols]
            /\ dupBlocked' \in BOOLEAN
        BY <3>3 DEF StartLeg, BlockDuplicate, Return
      <4> QED BY <3>3, <4>1, <4>2, <4>3 DEF StartLeg, bridge
    <3>4. CASE AcquireLock(r)
      <4>1. locks' \in [Symbols -> Lock]
        BY <3>4, LockTypes DEF AcquireLock, LockStatus
      <4> QED BY <3>4, <4>1 DEF AcquireLock, Return, bridge
    <3>5. CASE RecordPlanned(r)
      BY <3>5, ClearLockType DEF RecordPlanned, GiveUp, Return, WriteLife, bridge
    <3>6. CASE ExecuteRefused(r)
      BY <3>6, ClearLockType DEF ExecuteRefused, GiveUp, Return, WriteLife, bridge
    <3>7. CASE PlaceBracket(r) BY <3>7 DEF PlaceBracket, durable, bridge
    <3>8. CASE AuditWritten(r) BY <3>8 DEF AuditWritten, durable, bridge
    <3>9. CASE AuditFailed(r)
      BY <3>9, ClearLockType DEF AuditFailed, GiveUp, Return, WriteLife, bridge
    <3>10. CASE RecordSubmitted(r) BY <3>10 DEF RecordSubmitted, WriteLife, bridge
    <3>11. CASE RecordTrade(r) BY <3>11 DEF RecordTrade, Return, bridge
    <3>12. CASE MarkSubmitted(r) BY <3>12 DEF MarkSubmitted, bridge, Lock, LockStatus
    <3> QED BY <2>2, <3>1, <3>2, <3>3, <3>4, <3>5, <3>6, <3>7, <3>8, <3>9, <3>10,
               <3>11, <3>12 DEF RunOnce
  <2>3. CASE Exits
    BY <2>3 DEF Exits, SubmitExit, ReconcileTrade, Fill, bridge, local
  <2>4. CASE Broker
    BY <2>4 DEF Broker, EntryFills, EntryRefused, ExitFills, ManualExit, Report,
                Fill, Event, durable, local
  <2>5. CASE Callbacks
    BY <2>5 DEF Callbacks, OpenOrder, UpdatePortfolio, Holdings, durable, local
  <2>6. CASE Time
    BY <2>6 DEF Time, GraceExpires, durable, bridge, local
  <2>7. CASE Operator
    BY <2>7, ClearLockType DEF Operator, Acknowledge, OperatorClear, bridge, local
  <2>8. CASE Disconnect
    BY <2>8 DEF Disconnect, LoseSocket, durable, local
  <2>9. CASE Connect
    BY <2>9 DEF Connect, durable, local
  <2>10. CASE Crash
    BY <2>10 DEF Crash, LoseSocket, durable
  <2>11. CASE UNCHANGED vars
    BY <2>11 DEF vars, durable, bridge, local
  <2> QED BY <2>1, <2>2, <2>3, <2>4, <2>5, <2>6, <2>7, <2>8, <2>9, <2>10, <2>11
          DEF Next
<1> QED BY <1>1, <1>2, PTL DEF Spec
-----------------------------------------------------------------------------
(* Legs are apart.                                                          *)

USE DEF InRun, BeforeSend, AfterSend, InLeg

\* A step of a runner.
LEMMA RunnerLegInv ==
    ASSUME TypeOK, LegInv, NEW r \in Runners, Reconcile(r) \/ RunOnce(r)
    PROVE  LegInv'
<1> USE DEF TypeOK, LegInv, UnusedIsBlank, InLeg, bridge, durable
<1>1. CASE DrainFills(r)
  BY <1>1 DEF DrainFills
<1>2. CASE ApplyFill(r)
  BY <1>2 DEF ApplyFill, WriteLife
<1>3. CASE DrainRejects(r)
  BY <1>3 DEF DrainRejects, OpenTrades
<1>4. CASE FailRejected(r)
  BY <1>4 DEF FailRejected, Settle, WriteLife
<1>5. CASE DrainExits(r)
  BY <1>5 DEF DrainExits
<1>6. CASE CloseFilled(r)
  BY <1>6 DEF CloseFilled, Settle, WriteLife
<1>7. CASE ReadStale(r)
  BY <1>7 DEF ReadStale, OpenTrades
<1>8. CASE CloseStale(r)
  <2>1. /\ UNCHANGED <<symbol, broker>> /\ pc[r] = "stale"
        /\ \/ pc' = pc /\ leg' = leg
           \/ pc' = [pc EXCEPT ![r] = "orphan"] /\ \E a : leg' = [leg EXCEPT ![r] = a]
    BY <1>8 DEF CloseStale
  <2>2. \A a \in Attempts : trade[a] # "none" => trade'[a] # "none"
    BY <1>8 DEF CloseStale
  <2>3. \A a \in Attempts : trade[a] = "none" => trade'[a] = "none"
    BY <1>8 DEF CloseStale
  <2>4. \A q \in Runners : todo'[q] \subseteq todo[q]
    BY <1>8 DEF CloseStale
  <2>5. \A q \in Runners : pc'[q] \in InLeg => pc'[q] = pc[q] /\ leg'[q] = leg[q]
    BY <2>1
  <2> HIDE DEF InLeg
  <2>6. LegInv!1' /\ LegInv!3' /\ LegInv!5'
    BY <2>1, <2>3, <2>5
  <2>7. LegInv!2'
    BY <2>2, <2>4
  <2>8. LegInv!4'
    BY <2>1, <2>3, <2>5 DEF InLeg
  <2>9. LegInv!6'
    BY <2>1
  <2> QED BY <2>6, <2>7, <2>8, <2>9
<1>9. CASE RecordOrphan(r)
  BY <1>9 DEF RecordOrphan, WriteLife
<1>10. CASE ReadLocks(r)
  BY <1>10 DEF ReadLocks
<1>11. CASE ReleaseLock(r)
  BY <1>11 DEF ReleaseLock
<1>12. CASE EndPass(r)
  BY <1>12 DEF EndPass
<1>13. CASE Plan(r)
  BY <1>13 DEF Plan
<1>14. CASE Preflight(r)
  BY <1>14 DEF Preflight, Return
<1>15. CASE StartLeg(r)
  <2>1. /\ UNCHANGED <<broker, trade, todo>> /\ pc[r] = "leg"
        /\ \/ /\ symbol' = symbol /\ pc' = [pc EXCEPT ![r] = "idle"]
              /\ leg' = [leg EXCEPT ![r] = None]
           \/ /\ pc' = [pc EXCEPT ![r] = "acquire"]
              /\ \E s \in legs[r], a \in Attempts :
                    /\ symbol[a] = None
                    /\ symbol' = [symbol EXCEPT ![a] = s]
                    /\ leg' = [leg EXCEPT ![r] = a]
    BY <1>15 DEF StartLeg, Return
  <2>2. CASE symbol' = symbol /\ pc' = [pc EXCEPT ![r] = "idle"]
             /\ leg' = [leg EXCEPT ![r] = None]
    BY <2>1, <2>2
  <2>3. ASSUME NEW s \in legs[r], NEW a \in Attempts, symbol[a] = None,
               symbol' = [symbol EXCEPT ![a] = s], leg' = [leg EXCEPT ![r] = a],
               pc' = [pc EXCEPT ![r] = "acquire"]
        PROVE  LegInv'
    <3>1. s # None
      BY NoneAssumption
    <3>2. \A q \in Runners : q # r => pc'[q] = pc[q] /\ leg'[q] = leg[q]
      BY <2>3
    <3>3. \A q \in Runners : pc[q] \in InLeg => leg[q] # a
      BY <2>3
    <3>4. pc'[r] = "acquire" /\ leg'[r] = a
      BY <2>3
    <3>5. LegInv!1' /\ LegInv!2'
      BY <2>1, <2>3
    <3>6. LegInv!3'
      BY <2>3, <3>1, <3>2, <3>4
    <3>7. LegInv!4'
      BY <2>1, <2>3, <3>2, <3>4
    <3>8. LegInv!5'
      BY <3>2, <3>3, <3>4
    <3>9. LegInv!6'
      BY <2>1, <3>2
    <3> QED BY <3>5, <3>6, <3>7, <3>8, <3>9
  <2> QED BY <2>1, <2>2, <2>3
<1>16. CASE AcquireLock(r)
  <2>1. /\ UNCHANGED <<symbol, broker, trade, todo>> /\ pc[r] = "acquire"
        /\ \/ pc' = [pc EXCEPT ![r] = "planned"] /\ leg' = leg
           \/ pc' = [pc EXCEPT ![r] = "idle"] /\ leg' = [leg EXCEPT ![r] = None]
    BY <1>16 DEF AcquireLock, Return
  <2> QED BY <2>1
<1>17. CASE RecordPlanned(r)
  BY <1>17 DEF RecordPlanned, GiveUp, Return
<1>18. CASE ExecuteRefused(r)
  BY <1>18 DEF ExecuteRefused, GiveUp, Return
<1>19. CASE PlaceBracket(r)
  BY <1>19 DEF PlaceBracket
<1>20. CASE AuditWritten(r)
  BY <1>20 DEF AuditWritten
<1>21. CASE AuditFailed(r)
  BY <1>21 DEF AuditFailed, GiveUp, Return
<1>22. CASE RecordSubmitted(r)
  BY <1>22 DEF RecordSubmitted
<1>23. CASE RecordTrade(r)
  BY <1>23 DEF RecordTrade, Return
<1>24. CASE MarkSubmitted(r)
  BY <1>24 DEF MarkSubmitted
<1> QED BY <1>1, <1>2, <1>3, <1>4, <1>5, <1>6, <1>7, <1>8, <1>9, <1>10, <1>11, <1>12,
           <1>13, <1>14, <1>15, <1>16, <1>17, <1>18, <1>19, <1>20, <1>21, <1>22, <1>23,
           <1>24
        DEF Reconcile, RunOnce

\* A step of anybody else.
LEMMA OthersLegInv ==
    ASSUME TypeOK, LegInv,
           \/ Exits \/ Broker \/ Callbacks \/ Time \/ Operator
           \/ Disconnect \/ Connect \/ Crash \/ UNCHANGED vars
    PROVE  LegInv'
<1> USE DEF TypeOK, LegInv, UnusedIsBlank, InLeg, bridge, durable, local
<1>1. CASE Exits
  BY <1>1 DEF Exits, SubmitExit, ReconcileTrade
<1>2. CASE Broker
  BY <1>2 DEF Broker, EntryFills, EntryRefused, ExitFills, ManualExit
<1>3. CASE Callbacks
  BY <1>3 DEF Callbacks, OpenOrder, UpdatePortfolio
<1>4. CASE Time
  BY <1>4 DEF Time, GraceExpires
<1>5. CASE Operator
  BY <1>5 DEF Operator, Acknowledge, OperatorClear
<1>6. CASE Disconnect
  BY <1>6 DEF Disconnect, LoseSocket
<1>7. CASE Connect
  BY <1>7 DEF Connect
<1>8. CASE Crash
  BY <1>8 DEF Crash, LoseSocket
<1>9. CASE UNCHANGED vars
  BY <1>9 DEF vars
<1> QED BY <1>1, <1>2, <1>3, <1>4, <1>5, <1>6, <1>7, <1>8, <1>9

\* A step of a runner.
LEMMA RunnerFailedInv ==
    ASSUME TypeOK, LegInv, FailedInv, "blind" \notin Env,
           NEW r \in Runners, Reconcile(r) \/ RunOnce(r)
    PROVE  FailedInv'
<1> USE DEF TypeOK, LegInv, UnusedIsBlank, FailedInv, ExitsPriced, InLeg, bridge, durable
<1>1. CASE DrainFills(r)
  BY <1>1 DEF DrainFills
<1>2. CASE ApplyFill(r)
  BY <1>2 DEF ApplyFill, WriteLife
<1>3. CASE DrainRejects(r)
  BY <1>3 DEF DrainRejects, OpenTrades
<1>4. CASE FailRejected(r)
  BY <1>4 DEF FailRejected, Settle, WriteLife
<1>5. CASE DrainExits(r)
  BY <1>5 DEF DrainExits
<1>6. CASE CloseFilled(r)
  BY <1>6 DEF CloseFilled, Settle, WriteLife
<1>7. CASE ReadStale(r)
  BY <1>7 DEF ReadStale, OpenTrades
<1>8. CASE CloseStale(r)
  BY <1>8 DEF CloseStale
<1>9. CASE RecordOrphan(r)
  BY <1>9 DEF RecordOrphan, WriteLife
<1>10. CASE ReadLocks(r)
  BY <1>10 DEF ReadLocks
<1>11. CASE ReleaseLock(r)
  BY <1>11 DEF ReleaseLock
<1>12. CASE EndPass(r)
  BY <1>12 DEF EndPass
<1>13. CASE Plan(r)
  BY <1>13 DEF Plan
<1>14. CASE Preflight(r)
  BY <1>14 DEF Preflight, Return
<1>15. CASE StartLeg(r)
  BY <1>15 DEF StartLeg, Return
<1>16. CASE AcquireLock(r)
  BY <1>16 DEF AcquireLock, Return
<1>17. CASE RecordPlanned(r)
  BY <1>17 DEF RecordPlanned, GiveUp, Return
<1>18. CASE ExecuteRefused(r)
  BY <1>18 DEF ExecuteRefused, GiveUp, Return
<1>19. CASE PlaceBracket(r)
  BY <1>19 DEF PlaceBracket
<1>20. CASE AuditWritten(r)
  BY <1>20 DEF AuditWritten
<1>21. CASE AuditFailed(r)
  BY <1>21 DEF AuditFailed, GiveUp, Return
<1>22. CASE RecordSubmitted(r)
  BY <1>22 DEF RecordSubmitted
<1>23. CASE RecordTrade(r)
  BY <1>23 DEF RecordTrade, Return
<1>24. CASE MarkSubmitted(r)
  BY <1>24 DEF MarkSubmitted
<1> QED BY <1>1, <1>2, <1>3, <1>4, <1>5, <1>6, <1>7, <1>8, <1>9, <1>10, <1>11, <1>12,
           <1>13, <1>14, <1>15, <1>16, <1>17, <1>18, <1>19, <1>20, <1>21, <1>22, <1>23,
           <1>24
        DEF Reconcile, RunOnce

\* A step of anybody else.
LEMMA OthersFailedInv ==
    ASSUME TypeOK, LegInv, FailedInv, "blind" \notin Env,
           \/ Exits \/ Broker \/ Callbacks \/ Time \/ Operator
           \/ Disconnect \/ Connect \/ Crash \/ UNCHANGED vars
    PROVE  FailedInv'
<1> USE DEF TypeOK, LegInv, UnusedIsBlank, FailedInv, ExitsPriced, InLeg, bridge, durable, local
<1>1. CASE Exits
  BY <1>1 DEF Exits, SubmitExit, ReconcileTrade
<1>2. CASE Broker
  BY <1>2 DEF Broker, EntryFills, EntryRefused, ExitFills, ManualExit
<1>3. CASE Callbacks
  BY <1>3 DEF Callbacks, OpenOrder, UpdatePortfolio
<1>4. CASE Time
  BY <1>4 DEF Time, GraceExpires
<1>5. CASE Operator
  BY <1>5 DEF Operator, Acknowledge, OperatorClear
<1>6. CASE Disconnect
  BY <1>6 DEF Disconnect, LoseSocket
<1>7. CASE Connect
  BY <1>7 DEF Connect
<1>8. CASE Crash
  BY <1>8 DEF Crash, LoseSocket
<1>9. CASE UNCHANGED vars
  BY <1>9 DEF vars
<1> QED BY <1>1, <1>2, <1>3, <1>4, <1>5, <1>6, <1>7, <1>8, <1>9

\* A step of a runner.
LEMMA RunnerStaleInv ==
    ASSUME TypeOK, LegInv, StaleInv,
           {"disconnect", "crash", "late"} \cap Env = {},
           NEW r \in Runners, Reconcile(r) \/ RunOnce(r)
    PROVE  StaleInv'
<1> USE DEF TypeOK, LegInv, UnusedIsBlank, StaleInv, InLeg, Exposed, bridge, durable
<1>1. CASE DrainFills(r)
  BY <1>1 DEF DrainFills
<1>2. CASE ApplyFill(r)
  BY <1>2 DEF ApplyFill, WriteLife
<1>3. CASE DrainRejects(r)
  BY <1>3 DEF DrainRejects, OpenTrades
<1>4. CASE FailRejected(r)
  BY <1>4 DEF FailRejected, Settle, WriteLife
<1>5. CASE DrainExits(r)
  BY <1>5 DEF DrainExits
<1>6. CASE CloseFilled(r)
  BY <1>6 DEF CloseFilled, Settle, WriteLife
<1>7. CASE ReadStale(r)
  BY <1>7 DEF ReadStale, OpenTrades
<1>8. CASE CloseStale(r)
  BY <1>8 DEF CloseStale
<1>9. CASE RecordOrphan(r)
  BY <1>9 DEF RecordOrphan, WriteLife
<1>10. CASE ReadLocks(r)
  BY <1>10 DEF ReadLocks
<1>11. CASE ReleaseLock(r)
  BY <1>11 DEF ReleaseLock
<1>12. CASE EndPass(r)
  BY <1>12 DEF EndPass
<1>13. CASE Plan(r)
  BY <1>13 DEF Plan
<1>14. CASE Preflight(r)
  BY <1>14 DEF Preflight, Return
<1>15. CASE StartLeg(r)
  <2>1. /\ UNCHANGED <<broker, trade, todo, aged, pos, connected>>
        /\ pc'[r] \in {"idle", "acquire"}
        /\ \A q \in Runners : q # r => pc'[q] = pc[q]
    BY <1>15 DEF StartLeg, Return
  <2>2. \A a \in Attempts : symbol[a] # None => symbol'[a] = symbol[a]
    BY <1>15 DEF StartLeg
  <2>3. \A a \in aged : symbol'[a] = symbol[a]
    BY <2>2
  <2> QED BY <2>1, <2>3
<1>16. CASE AcquireLock(r)
  BY <1>16 DEF AcquireLock, Return
<1>17. CASE RecordPlanned(r)
  BY <1>17 DEF RecordPlanned, GiveUp, Return
<1>18. CASE ExecuteRefused(r)
  BY <1>18 DEF ExecuteRefused, GiveUp, Return
<1>19. CASE PlaceBracket(r)
  BY <1>19 DEF PlaceBracket
<1>20. CASE AuditWritten(r)
  BY <1>20 DEF AuditWritten
<1>21. CASE AuditFailed(r)
  BY <1>21 DEF AuditFailed, GiveUp, Return
<1>22. CASE RecordSubmitted(r)
  BY <1>22 DEF RecordSubmitted
<1>23. CASE RecordTrade(r)
  BY <1>23 DEF RecordTrade, Return
<1>24. CASE MarkSubmitted(r)
  BY <1>24 DEF MarkSubmitted
<1> QED BY <1>1, <1>2, <1>3, <1>4, <1>5, <1>6, <1>7, <1>8, <1>9, <1>10, <1>11, <1>12,
           <1>13, <1>14, <1>15, <1>16, <1>17, <1>18, <1>19, <1>20, <1>21, <1>22, <1>23,
           <1>24
        DEF Reconcile, RunOnce

\* A step of anybody else.
LEMMA OthersStaleInv ==
    ASSUME TypeOK, LegInv, StaleInv,
           {"disconnect", "crash", "late"} \cap Env = {},
           \/ Exits \/ Broker \/ Callbacks \/ Time \/ Operator
           \/ Disconnect \/ Connect \/ Crash \/ UNCHANGED vars
    PROVE  StaleInv'
<1> USE DEF TypeOK, LegInv, UnusedIsBlank, StaleInv, InLeg, Exposed, bridge, durable, local
<1>1. CASE Exits
  <2>1. UNCHANGED <<symbol, broker, aged, connected, pos, pc, todo>>
    BY <1>1 DEF Exits, SubmitExit, ReconcileTrade
  <2>2. \/ trade' = trade
        \/ \E a \in Attempts, status \in TradeStatus \ {"none"} :
              trade' = [trade EXCEPT ![a] = status]
    <3>1. PICK a \in Attempts : SubmitExit(a) \/ ReconcileTrade(a)
      BY <1>1 DEF Exits
    <3>2. CASE SubmitExit(a)
      BY <3>2 DEF SubmitExit, TradeStatus
    <3>3. CASE ReconcileTrade(a)
      BY <3>3 DEF ReconcileTrade, TradeStatus
    <3> QED BY <3>1, <3>2, <3>3
  <2>3. \A a \in Attempts : trade[a] # "none" => trade'[a] # "none"
    BY <2>2
  <2> QED BY <2>1, <2>3
<1>2. CASE Broker
  <2>1. UNCHANGED <<symbol, trade, aged, connected, pos, pc, todo>>
    BY <1>2 DEF Broker, EntryFills, EntryRefused, ExitFills, ManualExit
  <2>2. PICK a \in Attempts :
           \/ /\ broker[a] = "working"
              /\ \E end \in {"held", "refused"} : broker' = [broker EXCEPT ![a] = end]
           \/ /\ broker[a] = "held"
              /\ broker' = [broker EXCEPT ![a] = "flat"]
    BY <1>2 DEF Broker, EntryFills, EntryRefused, ExitFills, ManualExit
  <2> QED BY <2>1, <2>2
<1>3. CASE Callbacks
  <2>1. UNCHANGED <<symbol, broker, trade, aged, connected, pc, todo>>
    BY <1>3 DEF Callbacks, OpenOrder, UpdatePortfolio
  <2>2. \/ pos' = pos
        \/ \E s \in Symbols : pos' = [pos EXCEPT ![s] = Holdings(s)]
    BY <1>3 DEF Callbacks, OpenOrder, UpdatePortfolio
  <2>3. \A a \in aged : symbol[a] \in Symbols
    BY DEF TypeOK
  <2>4. \A a \in aged :
           broker[a] = "held" /\ a \in pos[symbol[a]] => a \in pos'[symbol[a]]
    BY <2>2, <2>3 DEF Holdings
  <2> QED BY <2>1, <2>4
<1>4. CASE Time
  BY <1>4 DEF Time, GraceExpires
<1>5. CASE Operator
  BY <1>5 DEF Operator, Acknowledge, OperatorClear
<1>6. CASE Disconnect
  BY <1>6 DEF Disconnect, LoseSocket
<1>7. CASE Connect
  BY <1>7 DEF Connect
<1>8. CASE Crash
  BY <1>8 DEF Crash, LoseSocket
<1>9. CASE UNCHANGED vars
  BY <1>9 DEF vars
<1> QED BY <1>1, <1>2, <1>3, <1>4, <1>5, <1>6, <1>7, <1>8, <1>9

LEMMA InitLegs == Init => LegInv /\ FailedInv
BY DEF Init, LegInv, UnusedIsBlank, FailedInv, ExitsPriced, InLeg

\* The legs stay apart in any environment.
LEMMA LegsStayApart == Spec => []LegInv
<1>1. TypeOK /\ LegInv /\ [Next]_vars => LegInv'
  BY RunnerLegInv, OthersLegInv DEF Next
<1> QED BY <1>1, InitLegs, TypeCorrect, PTL DEF Spec

\* Refusals are final as long as the robot only exits trades whose entry fill is
\* recorded.
LEMMA FailedInvHolds ==
    ASSUME "blind" \notin Env
    PROVE  Spec => []FailedInv
<1>1. TypeOK /\ LegInv /\ FailedInv /\ [Next]_vars => FailedInv'
  BY RunnerFailedInv, OthersFailedInv DEF Next
<1> QED BY <1>1, InitLegs, LegsStayApart, TypeCorrect, PTL DEF Spec

\* FAILED means the order never entered the book, whatever is lost, late, written
\* twice or cleared too soon, the exits of the robot included, as long as they are
\* of trades whose entry fill is recorded.
THEOREM FailedHolds ==
    ASSUME "blind" \notin Env
    PROVE  Spec => []FailedHoldsNothing
<1>1. FailedInv => FailedHoldsNothing
  BY DEF FailedInv, FailedHoldsNothing
<1> QED BY <1>1, FailedInvHolds, PTL

\* As long as the socket stays up, the process lives and an entry and its position
\* are settled within the grace, a trade that is closed as stale has nothing left
\* at the broker.
THEOREM StaleCloseHolds ==
    ASSUME {"disconnect", "crash", "late"} \cap Env = {}
    PROVE  Spec => StaleCloseIsFlat
<1>1. Init => StaleInv
  BY DEF Init, StaleInv
<1>2. TypeOK /\ LegInv /\ StaleInv /\ [Next]_vars => StaleInv'
  BY RunnerStaleInv, OthersStaleInv DEF Next
<1>3. TypeOK /\ StaleInv /\ [Next]_vars =>
        [\A r \in Runners :
            pc[r] = "stale" /\ pc'[r] = "orphan" => ~Exposed(leg'[r])]_vars
  <2> SUFFICES ASSUME TypeOK, StaleInv, [Next]_vars, NEW r \in Runners,
                      pc[r] = "stale", pc'[r] = "orphan"
               PROVE  ~Exposed(leg'[r])
    OBVIOUS
  <2>1. CloseStale(r)
    <3> USE DEF TypeOK, durable, bridge, local
    <3>1. ~(pc' = pc)
      OBVIOUS
    <3>2. ~(Exits \/ Broker \/ Callbacks \/ Time \/ Operator \/ Disconnect \/ Connect
            \/ UNCHANGED vars)
      BY <3>1 DEF Exits, SubmitExit, ReconcileTrade, Broker, EntryFills, EntryRefused,
         ExitFills, ManualExit, Callbacks, OpenOrder, UpdatePortfolio, Time, GraceExpires,
         Operator, Acknowledge, OperatorClear, Disconnect, Connect, vars
    <3>3. ~Crash
      BY DEF Crash
    <3>4. PICK q \in Runners : Reconcile(q) \/ RunOnce(q)
      BY <3>2, <3>3 DEF Next
    <3>5. ~RunOnce(q)
      BY DEF RunOnce, Plan, Preflight, StartLeg, AcquireLock, RecordPlanned, ExecuteRefused,
         PlaceBracket, AuditWritten, AuditFailed, RecordSubmitted, RecordTrade,
         MarkSubmitted, GiveUp, Return
    <3> QED
      BY <3>4, <3>5 DEF Reconcile, DrainFills, ApplyFill, DrainRejects, FailRejected,
         DrainExits, CloseFilled, ReadStale, CloseStale, RecordOrphan, ReadLocks,
         ReleaseLock, EndPass
  <2>2. leg'[r] \in todo[r]
    BY <2>1 DEF CloseStale, TypeOK
  <2> QED BY <2>2 DEF StaleInv
<1> QED BY <1>1, <1>2, <1>3, LegsStayApart, TypeCorrect, PTL
        DEF Spec, StaleCloseIsFlat
-----------------------------------------------------------------------------
(* What has ended has nothing at the broker.                                *)

\* What a runner does to what is reported of exits.
LEMMA RunnerExitsTrue ==
    ASSUME TypeOK, LegInv, ExitsTrue, NEW r \in Runners, Reconcile(r) \/ RunOnce(r)
    PROVE  ExitsTrue'
<1> USE DEF TypeOK, LegInv, ExitsTrue, Pending, bridge, durable
<1>1. CASE DrainFills(r)
  BY <1>1 DEF DrainFills
<1>2. CASE ApplyFill(r)
  BY <1>2 DEF ApplyFill, WriteLife
<1>3. CASE DrainRejects(r) \/ FailRejected(r)
  BY <1>3 DEF DrainRejects, FailRejected, Settle, WriteLife
<1>4. CASE DrainExits(r) \/ CloseFilled(r)
  BY <1>4 DEF DrainExits, CloseFilled, Settle, WriteLife
<1>5. CASE ReadStale(r) \/ CloseStale(r) \/ RecordOrphan(r)
  BY <1>5 DEF ReadStale, CloseStale, RecordOrphan, WriteLife
<1>6. CASE ReadLocks(r) \/ ReleaseLock(r) \/ EndPass(r)
  BY <1>6 DEF ReadLocks, ReleaseLock, EndPass
<1>7. CASE PlaceBracket(r)
  BY <1>7 DEF PlaceBracket
<1>8. CASE RunOnce(r) /\ ~PlaceBracket(r)
  BY <1>8 DEF RunOnce, Plan, Preflight, StartLeg, AcquireLock, RecordPlanned,
     ExecuteRefused, AuditWritten, AuditFailed, RecordSubmitted, RecordTrade,
     MarkSubmitted, GiveUp
<1> QED BY <1>1, <1>2, <1>3, <1>4, <1>5, <1>6, <1>7, <1>8 DEF Reconcile

\* And everybody else.
LEMMA OthersExitsTrue ==
    ASSUME TypeOK, ExitsTrue,
           \/ Exits \/ Broker \/ Callbacks \/ Time \/ Operator
           \/ Disconnect \/ Connect \/ Crash \/ UNCHANGED vars
    PROVE  ExitsTrue'
<1> USE DEF TypeOK, ExitsTrue, Pending, bridge, durable, local
<1>1. CASE Exits \/ Callbacks \/ Time \/ Operator
  BY <1>1 DEF Exits, SubmitExit, ReconcileTrade, Callbacks, OpenOrder, UpdatePortfolio,
     Time, GraceExpires, Operator, Acknowledge, OperatorClear
<1>2. CASE Broker
  <2>1. PICK a \in Attempts :
           EntryFills(a) \/ EntryRefused(a) \/ ExitFills(a) \/ ManualExit(a)
    BY <1>2 DEF Broker
  <2>2. CASE EntryFills(a)
    BY <2>2 DEF EntryFills, Report, Fill
  <2>3. CASE EntryRefused(a) \/ ManualExit(a)
    BY <2>3 DEF EntryRefused, ManualExit
  <2>4. CASE ExitFills(a)
    BY <2>4 DEF ExitFills, Report, Fill
  <2> QED BY <2>1, <2>2, <2>3, <2>4
<1>3. CASE Disconnect \/ Connect \/ Crash \/ UNCHANGED vars
  BY <1>3 DEF Disconnect, Connect, Crash, LoseSocket, vars
<1> QED BY <1>1, <1>2, <1>3

\* What is reported of exits is so, in any environment.
LEMMA ExitReportsAreTrue == Spec => []ExitsTrue
<1>1. Init => ExitsTrue
  BY DEF Init, ExitsTrue, Pending
<1>2. TypeOK /\ LegInv /\ ExitsTrue /\ [Next]_vars => ExitsTrue'
  BY RunnerExitsTrue, OthersExitsTrue DEF Next
<1> QED BY <1>1, <1>2, LegsStayApart, TypeCorrect, PTL DEF Spec

\* The environment in which the passes only write off what is over.
SteadyEnv == {"disconnect", "crash", "late", "blind"} \cap Env = {}

\* A step of a runner.
LEMMA RunnerEndedInv ==
    ASSUME TypeOK, LegInv, FailedInv, StaleInv, EndedInv, ExitsTrue',
           NEW r \in Runners, Reconcile(r) \/ RunOnce(r)
    PROVE  EndedInv'
<1> USE DEF TypeOK, LegInv, UnusedIsBlank, FailedInv, StaleInv, EndedInv, EndedTradesAreFlat,
         InLeg, Terminal,
        Exposed, bridge, durable
<1>1. CASE DrainFills(r)
  BY <1>1 DEF DrainFills
<1>2. CASE ApplyFill(r)
  <2>1. PICK e \in events[r] : \/ trade' = trade
                              \/ /\ e.role = "exit"
                                 /\ trade' = [trade EXCEPT ![e.of] = "CLOSED"]
    BY <1>2 DEF ApplyFill
  <2>2. e.of \in Attempts /\ (e.role = "exit" => broker[e.of] = "flat")
    <3>1. e \in Event /\ Pending(e)
      BY DEF Pending
    <3>2. e.of \in Attempts /\ e = Fill(e.role, e.of)
      BY <3>1 DEF Event, Fill
    <3> QED BY <3>1, <3>2 DEF ExitsTrue
  <2>3. UNCHANGED <<broker, pc, todo>>
    BY <1>2 DEF ApplyFill
  <2> QED BY <2>1, <2>2, <2>3
<1>3. CASE DrainRejects(r)
  BY <1>3 DEF DrainRejects, OpenTrades
<1>4. CASE FailRejected(r)
  BY <1>4 DEF FailRejected, Settle, WriteLife
<1>5. CASE DrainExits(r)
  BY <1>5 DEF DrainExits, ExitsTrue
<1>6. CASE CloseFilled(r)
  BY <1>6 DEF CloseFilled, Settle, WriteLife
<1>7. CASE ReadStale(r)
  BY <1>7 DEF ReadStale, OpenTrades
<1>8. CASE CloseStale(r)
  BY <1>8 DEF CloseStale
<1>9. CASE RecordOrphan(r)
  BY <1>9 DEF RecordOrphan, WriteLife
<1>10. CASE ReadLocks(r)
  BY <1>10 DEF ReadLocks
<1>11. CASE ReleaseLock(r)
  BY <1>11 DEF ReleaseLock
<1>12. CASE EndPass(r)
  BY <1>12 DEF EndPass
<1>13. CASE RunOnce(r) /\ ~PlaceBracket(r) /\ ~RecordTrade(r)
  <2>1. UNCHANGED <<trade, broker, todo>>
    BY <1>13 DEF RunOnce, Plan, Preflight, StartLeg, AcquireLock, RecordPlanned,
       ExecuteRefused, AuditWritten, AuditFailed, RecordSubmitted, MarkSubmitted, GiveUp
  <2>2. \E at \in Pc \ {"exits"} : pc' = [pc EXCEPT ![r] = at]
    BY <1>13 DEF RunOnce, Plan, Preflight, StartLeg, AcquireLock, RecordPlanned,
       ExecuteRefused, AuditWritten, AuditFailed, RecordSubmitted, MarkSubmitted, GiveUp,
       Return, Pc
  <2> QED BY <2>1, <2>2
<1>14. CASE PlaceBracket(r)
  BY <1>14 DEF PlaceBracket
<1>15. CASE RecordTrade(r)
  BY <1>15 DEF RecordTrade, Return
<1> QED BY <1>1, <1>2, <1>3, <1>4, <1>5, <1>6, <1>7, <1>8, <1>9, <1>10, <1>11, <1>12,
           <1>13, <1>14, <1>15
        DEF Reconcile

\* A step of anybody else.
LEMMA OthersEndedInv ==
    ASSUME TypeOK, LegInv, FailedInv, StaleInv, EndedInv, ExitsTrue', SteadyEnv,
           \/ Exits \/ Broker \/ Callbacks \/ Time \/ Operator
           \/ Disconnect \/ Connect \/ Crash \/ UNCHANGED vars
    PROVE  EndedInv'
<1> USE DEF TypeOK, EndedInv, EndedTradesAreFlat, Terminal, Exposed, bridge, durable, local
<1>1. CASE Exits
  BY <1>1 DEF Exits, SubmitExit, ReconcileTrade, FailedInv, ExitsPriced, ExitsTrue
<1>2. CASE Broker
  BY <1>2 DEF Broker, EntryFills, EntryRefused, ExitFills, ManualExit
<1>3. CASE Callbacks \/ Time \/ Operator
  BY <1>3 DEF Callbacks, OpenOrder, UpdatePortfolio, Time, GraceExpires, Operator,
     Acknowledge, OperatorClear
<1>4. CASE Disconnect \/ Connect \/ Crash \/ UNCHANGED vars
  BY <1>4 DEF Disconnect, Connect, Crash, SteadyEnv, vars
<1> QED BY <1>1, <1>2, <1>3, <1>4

\* The three invariants of a steady environment.
LEMMA SteadyInvs ==
    ASSUME SteadyEnv
    PROVE  Spec => [](FailedInv /\ StaleInv /\ EndedInv)
<1>1. Init => FailedInv /\ StaleInv /\ EndedInv
  BY InitLegs DEF Init, StaleInv, EndedInv, EndedTradesAreFlat, ExitsTrue, Pending, Terminal
<1>2. ASSUME TypeOK, LegInv, FailedInv, StaleInv, EndedInv, ExitsTrue', [Next]_vars
      PROVE  FailedInv' /\ StaleInv' /\ EndedInv'
  <2>1. "blind" \notin Env /\ {"disconnect", "crash", "late"} \cap Env = {}
    BY DEF SteadyEnv
  <2>2. FailedInv'
    BY <1>2, <2>1, RunnerFailedInv, OthersFailedInv DEF Next
  <2>3. StaleInv'
    BY <1>2, <2>1, RunnerStaleInv, OthersStaleInv DEF Next
  <2>4. EndedInv'
    BY <1>2, RunnerEndedInv, OthersEndedInv DEF Next
  <2> QED BY <2>2, <2>3, <2>4
<1> QED BY <1>1, <1>2, ExitReportsAreTrue, LegsStayApart, TypeCorrect, PTL DEF Spec

\* A trade that is CLOSED or FAILED in the store has nothing left at the broker,
\* whatever runs in parallel (several traders, pollers, the robot's own exits, the
\* operator) and whichever write fails, as long as the socket stays up, the process
\* lives and no entry is late.
THEOREM EndedHolds ==
    ASSUME SteadyEnv
    PROVE  Spec => []EndedTradesAreFlat
<1>1. EndedInv => EndedTradesAreFlat
  BY DEF EndedInv
<1> QED BY <1>1, SteadyInvs, PTL
-----------------------------------------------------------------------------
(* One trader among pollers.                                                *)

\* The environment of these proofs.
PollerEnv == Env \subseteq {"hand", "hasty"}

LEMMA PollerEnvExcludes ==
    PollerEnv => /\ {"exits", "disk", "audit"} \cap Env = {}
                 /\ SteadyEnv
BY DEF PollerEnv, SteadyEnv

\* A step that exposes nothing, forgets no trade and leaves the legs alone.
LEMMA LegsUntouched ==
    ASSUME TraderInv, UNCHANGED symbol,
           \A a \in Attempts : Exposed(a)' => Exposed(a),
           \A a \in Attempts : trade'[a] # "EXIT_PENDING",
           \A a \in Attempts : trade'[a] = "none" => trade[a] = "none",
           \A r \in Traders : pc[r] \in InLeg \/ pc'[r] \in InLeg =>
                                 pc'[r] = pc[r] /\ leg'[r] = leg[r]
    PROVE  TraderInv'
<1>1. \A a \in Attempts : Exposed(a)' /\ trade'[a] = "none" =>
         \E r \in Traders : pc'[r] \in {"audit", "submitted", "record"} /\ leg'[r] = a
  BY DEF TraderInv
<1>2. \A r \in Traders : LegAlone(r)'
  BY DEF TraderInv, LegAlone
<1>3. NoDuplicateLiveEntry'
  BY DEF TraderInv, NoDuplicateLiveEntry
<1> QED BY <1>1, <1>2, <1>3 DEF TraderInv

\* All the passes do to a trade is to end it.
LEMMA PassesEndTrades ==
    ASSUME TypeOK, NEW q \in Runners, Reconcile(q)
    PROVE  \/ trade' = trade
           \/ \E a \in Attempts, status \in {"CLOSED", "FAILED"} :
                 trade' = [trade EXCEPT ![a] = status]
<1>1. DrainFills(q) \/ DrainRejects(q) \/ DrainExits(q) \/ ReadStale(q) \/ ReadLocks(q)
      \/ ReleaseLock(q) \/ EndPass(q) \/ RecordOrphan(q) => trade' = trade
  BY DEF DrainFills, DrainRejects, DrainExits, ReadStale, RecordOrphan, ReadLocks,
     ReleaseLock, EndPass, durable
<1>2. CASE ApplyFill(q)
  BY <1>2 DEF ApplyFill, TypeOK, Event
<1>3. CASE FailRejected(q)
  BY <1>3 DEF FailRejected, Settle, TypeOK
<1>4. CASE CloseFilled(q)
  BY <1>4 DEF CloseFilled, Settle, TypeOK
<1>5. CASE CloseStale(q)
  BY <1>5 DEF CloseStale, TypeOK
<1> QED BY <1>1, <1>2, <1>3, <1>4, <1>5 DEF Reconcile

\* The passes touch no leg and end no trade that is not known.
LEMMA ReconcileKeepsTrader ==
    ASSUME TypeOK, LegInv, TraderInv, NEW q \in Runners, Reconcile(q)
    PROVE  TraderInv'
<1>1. UNCHANGED <<symbol, broker>>
  BY DEF Reconcile, DrainFills, ApplyFill, DrainRejects, FailRejected, DrainExits,
     CloseFilled, ReadStale, CloseStale, RecordOrphan, ReadLocks, ReleaseLock, EndPass,
     durable
<1>2. \/ trade' = trade
      \/ \E a \in Attempts, status \in {"CLOSED", "FAILED"} :
            trade' = [trade EXCEPT ![a] = status]
  BY PassesEndTrades
<1>3. /\ pc[q] \in Pc \ InRun
      /\ \E at \in Pc \ InRun : pc' = pc \/ pc' = [pc EXCEPT ![q] = at]
      /\ \E x : leg' = leg \/ leg' = [leg EXCEPT ![q] = x]
  BY DEF Reconcile, DrainFills, ApplyFill, DrainRejects, FailRejected, DrainExits,
     CloseFilled, ReadStale, CloseStale, RecordOrphan, ReadLocks, ReleaseLock, EndPass, Pc
<1>4. \A r \in Traders : pc[r] \in InLeg \/ pc'[r] \in InLeg =>
                            pc'[r] = pc[r] /\ leg'[r] = leg[r]
  BY <1>3, RunnersAssumption DEF TypeOK
<1>5. \A a \in Attempts : /\ trade'[a] # "EXIT_PENDING"
                          /\ trade'[a] = "none" => trade[a] = "none"
  BY <1>2 DEF TypeOK, TraderInv
<1> QED BY <1>1, <1>4, <1>5, LegsUntouched DEF Exposed

\* Nobody outside the robot sends an entry or writes a trade.
LEMMA OthersKeepTrader ==
    ASSUME TypeOK, StaleInv, TraderInv, PollerEnv,
           \/ Exits \/ Broker \/ Callbacks \/ Time \/ Operator
           \/ Disconnect \/ Connect \/ Crash \/ UNCHANGED vars
    PROVE  TraderInv'
<1>0. {"exits", "disk", "audit"} \cap Env = {} /\ SteadyEnv
  BY PollerEnvExcludes
<1>1. ~Exits /\ ~Disconnect /\ ~Connect /\ ~Crash
  BY <1>0 DEF Exits, SubmitExit, ReconcileTrade, Disconnect, Connect, Crash, StaleInv,
     SteadyEnv
<1>2. UNCHANGED <<symbol, trade, pc, leg>>
  BY <1>1 DEF Broker, EntryFills, EntryRefused, ExitFills, ManualExit, Callbacks, OpenOrder,
     UpdatePortfolio, Time, GraceExpires, Operator, Acknowledge, OperatorClear, durable,
     local, vars
<1>3. \A a \in Attempts : Exposed(a)' => Exposed(a)
  BY <1>1 DEF Broker, EntryFills, EntryRefused, ExitFills, ManualExit, Callbacks, OpenOrder,
     UpdatePortfolio, Time, GraceExpires, Operator, Acknowledge, OperatorClear, vars,
     Exposed, TypeOK
<1> QED BY <1>2, <1>3, LegsUntouched DEF TraderInv

\* While the trader has sent nothing, what is at the broker is OPEN in the store.
LEMMA ExposedIsOpen ==
    ASSUME TypeOK, EndedInv, TraderInv, \A x, y \in Traders : x = y,
           NEW q \in Traders, pc[q] \notin {"audit", "submitted", "record"}
    PROVE  \A a \in Attempts : Exposed(a) => trade[a] = "OPEN"
BY DEF TraderInv, EndedInv, EndedTradesAreFlat, Terminal, TypeOK, TradeStatus

\* A leg is begun on a symbol without an open trade.
LEMMA StartLegKeepsTrader ==
    ASSUME TypeOK, LegInv, EndedInv, TraderInv, \A x, y \in Traders : x = y,
           NEW q \in Traders, StartLeg(q)
    PROVE  TraderInv'
<1>1. /\ UNCHANGED <<trade, broker>> /\ pc[q] = "leg"
      /\ \A r \in Traders : r = q
  BY DEF StartLeg
<1>2. \A a \in Attempts : Exposed(a) => trade[a] = "OPEN"
  BY <1>1, ExposedIsOpen
<1>3. \A a \in Attempts : Exposed(a)' => trade'[a] = "OPEN"
  BY <1>1, <1>2 DEF Exposed
<1>4. \A a \in Attempts : Exposed(a) => symbol'[a] = symbol[a]
  BY DEF StartLeg, LegInv, UnusedIsBlank, Exposed, TypeOK
<1>5. NoDuplicateLiveEntry'
  BY <1>1, <1>4 DEF TraderInv, NoDuplicateLiveEntry, Exposed
<1>6. LegAlone(q)'
  <2>1. CASE pc'[q] = "idle"
    BY <2>1 DEF LegAlone
  <2>2. CASE pc'[q] # "idle"
    <3>1. PICK s \in legs[q], a \in Attempts :
             ~Duplicate(s) /\ symbol' = [symbol EXCEPT ![a] = s] /\ leg' = [leg EXCEPT ![q] = a]
      BY <2>2, RunnersAssumption DEF StartLeg, Return, TypeOK
    <3>2. \A b \in Attempts : symbol[b] = s => ~Exposed(b)
      BY <1>2, <3>1 DEF Duplicate, OpenTrades
    <3>3. leg'[q] = a /\ symbol'[a] = s
      BY <3>1, RunnersAssumption DEF TypeOK
    <3>4. \A b \in Attempts : b # a => symbol'[b] = symbol[b]
      BY <3>1 DEF TypeOK
    <3> QED BY <1>1, <3>2, <3>3, <3>4 DEF LegAlone, Exposed
  <2> QED BY <2>1, <2>2
<1>7. \A a \in Attempts : trade'[a] # "EXIT_PENDING"
  BY <1>1 DEF TraderInv
<1> QED BY <1>1, <1>3, <1>5, <1>6, <1>7 DEF TraderInv

\* The bracket is the only one on its symbol, and the run that sent it holds it.
LEMMA PlaceBracketKeepsTrader ==
    ASSUME TypeOK, LegInv, TraderInv, \A x, y \in Traders : x = y,
           NEW q \in Traders, PlaceBracket(q)
    PROVE  TraderInv'
<1>1. /\ UNCHANGED <<trade, symbol, leg>> /\ pc[q] = "execute" /\ pc'[q] = "audit"
      /\ leg[q] \in Attempts
      /\ \A a \in Attempts : Exposed(a)' => Exposed(a) \/ a = leg[q]
      /\ \A r \in Traders : r = q
  BY RunnersAssumption DEF PlaceBracket, durable, LegInv, Exposed, TypeOK
<1>2. LegAlone(q)
  BY DEF TraderInv
<1>3. LegAlone(q)'
  BY <1>1, <1>2 DEF LegAlone
<1>4. NoDuplicateLiveEntry'
  BY <1>1, <1>2 DEF TraderInv, NoDuplicateLiveEntry, LegAlone
<1>5. \A a \in Attempts : Exposed(a) /\ trade[a] = "none" => FALSE
  BY <1>1 DEF TraderInv
<1> QED BY <1>1, <1>3, <1>4, <1>5 DEF TraderInv

\* The other steps of a run.
LEMMA RunOnceKeepsTrader ==
    ASSUME TypeOK, LegInv, EndedInv, TraderInv, PollerEnv, \A x, y \in Traders : x = y,
           NEW q \in Runners, RunOnce(q)
    PROVE  TraderInv'
<1>0. {"exits", "disk", "audit"} \cap Env = {}
  BY PollerEnvExcludes
<1>1. q \in Traders
  BY DEF RunOnce, LegInv, Plan, Preflight, StartLeg, AcquireLock, RecordPlanned,
     ExecuteRefused, PlaceBracket, AuditWritten, AuditFailed, RecordSubmitted, RecordTrade,
     MarkSubmitted
<1>2. CASE StartLeg(q)
  BY <1>1, <1>2, StartLegKeepsTrader
<1>3. CASE PlaceBracket(q)
  BY <1>1, <1>3, PlaceBracketKeepsTrader
<1>4. CASE RecordTrade(q)
  <2>1. /\ trade' = [trade EXCEPT ![leg[q]] = "OPEN"]
        /\ pc[q] = "record" /\ pc' = [pc EXCEPT ![q] = "mark"]
        /\ UNCHANGED <<symbol, broker, leg>>
    BY <1>0, <1>4 DEF RecordTrade, bridge
  <2>2. \A a \in Attempts : Exposed(a)' => trade'[a] # "none"
    BY <1>1, <2>1 DEF TraderInv, Exposed, TypeOK
  <2>3. LegAlone(q)'
    BY <1>1, <2>1 DEF TraderInv, LegAlone, Exposed
  <2>4. NoDuplicateLiveEntry'
    BY <2>1 DEF TraderInv, NoDuplicateLiveEntry, Exposed
  <2>5. \A a \in Attempts : trade'[a] # "EXIT_PENDING"
    BY <2>1 DEF TraderInv, TypeOK
  <2> QED BY <1>1, <2>2, <2>3, <2>4, <2>5 DEF TraderInv
<1>5. CASE AuditWritten(q) \/ RecordSubmitted(q)
  <2>1. /\ UNCHANGED <<symbol, broker, trade, leg>>
        /\ pc[q] \in {"audit", "submitted"}
        /\ \E at \in {"submitted", "record"} : pc' = [pc EXCEPT ![q] = at]
    BY <1>5 DEF AuditWritten, RecordSubmitted, durable, bridge
  <2>2. \A a \in Attempts : Exposed(a)' /\ trade'[a] = "none" =>
           pc'[q] \in {"submitted", "record"} /\ leg'[q] = a
    BY <1>1, <2>1 DEF TraderInv, Exposed, TypeOK
  <2>3. LegAlone(q)'
    BY <1>1, <2>1 DEF TraderInv, LegAlone, Exposed
  <2>4. NoDuplicateLiveEntry'
    BY <2>1 DEF TraderInv, NoDuplicateLiveEntry, Exposed
  <2> QED BY <1>1, <2>1, <2>2, <2>3, <2>4 DEF TraderInv
<1>6. CASE Plan(q) \/ Preflight(q) \/ AcquireLock(q) \/ RecordPlanned(q)
           \/ ExecuteRefused(q) \/ MarkSubmitted(q)
  <2>1. /\ UNCHANGED <<symbol, broker, trade>>
        /\ pc[q] \in {"release", "preflight", "acquire", "planned", "execute", "mark"}
        /\ \/ pc'[q] \in {"idle", "preflight", "leg"}
           \/ pc[q] \in InLeg /\ pc'[q] \in {"planned", "execute"} /\ leg'[q] = leg[q]
    BY <1>6 DEF Plan, Preflight, AcquireLock, RecordPlanned, ExecuteRefused, MarkSubmitted,
       GiveUp, Return, durable, bridge, TypeOK
  <2>2. \A a \in Attempts : Exposed(a)' => trade'[a] # "none"
    BY <1>1, <2>1 DEF TraderInv, Exposed
  <2>3. LegAlone(q)'
    BY <1>1, <2>1 DEF TraderInv, LegAlone, Exposed
  <2>4. NoDuplicateLiveEntry'
    BY <2>1 DEF TraderInv, NoDuplicateLiveEntry, Exposed
  <2> QED BY <1>1, <2>1, <2>2, <2>3, <2>4 DEF TraderInv
<1>7. ~AuditFailed(q)
  BY <1>0 DEF AuditFailed
<1> QED BY <1>2, <1>3, <1>4, <1>5, <1>6, <1>7 DEF RunOnce

\* The invariant of one trader, with any number of pollers.
LEMMA TraderHolds ==
    ASSUME PollerEnv, \A x, y \in Traders : x = y
    PROVE  Spec => []TraderInv
<1>1. Init => TraderInv
  BY RunnersAssumption DEF Init, TraderInv, NoDuplicateLiveEntry, LegAlone, Exposed
<1>2. TypeOK /\ LegInv /\ StaleInv /\ EndedInv /\ TraderInv /\ [Next]_vars => TraderInv'
  BY ReconcileKeepsTrader, RunOnceKeepsTrader, OthersKeepTrader DEF Next
<1>3. Spec => [](FailedInv /\ StaleInv /\ EndedInv)
  BY SteadyInvs, PollerEnvExcludes
<1> QED BY <1>1, <1>2, <1>3, LegsStayApart, TypeCorrect, PTL DEF Spec

\* One thread submits while any number of others poll: the polls drain what the
\* bridge reports, rewrite trades and clear locks between any two steps of the
\* submission, and there is never a second live entry on a symbol, on a socket that
\* stays up and without exits of the robot's own.  The locks have no part in it: a
\* poll may clear the one a run has just taken, and the open trade stops the next.
THEOREM NoDuplicateWithPollers ==
    ASSUME PollerEnv, \A x, y \in Traders : x = y
    PROVE  Spec => []NoDuplicateLiveEntry
<1>1. TraderInv => NoDuplicateLiveEntry
  BY DEF TraderInv
<1> QED BY <1>1, TraderHolds, PTL
=============================================================================
