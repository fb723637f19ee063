------------------------ MODULE LiveEntrySlots_proofs ------------------------
(***************************************************************************)
(* The slots of the live entry path: with one trader and no exits of the   *)
(* robot's own, what the broker has never exceeds max_open_live_trades,    *)
(* and LiveEntry implements EntrySlots, in three settings: a socket that   *)
(* drops and a process that dies, a disk that fails, other threads that    *)
(* poll.  What the argument needs of a setting is Orderly.                 *)
(***************************************************************************)
EXTENDS LiveEntrySafety_proofs, FiniteSetTheorems

USE DEF InRun, BeforeSend, AfterSend, InLeg, Pc

\* What the broker has of the robot, and the attempts that were ever used.
Live == {a \in Attempts : Exposed(a)}
Used == {a \in Attempts : symbol[a] # None}

\* The settings: r is the only trader, and the robot makes no exits itself.
SlotEnv(r) ==
    \/ Runners = {r} /\ Env \subseteq {"disconnect", "crash", "hand"}
    \/ Runners = {r} /\ Env \subseteq {"disk", "hand"}
    \/ r \in Runners /\ Traders \subseteq {r} /\ Env \subseteq {"hand", "hasty"}

\* The leg in hand is alone on its symbol, and when the gates are open everything
\* at the broker is OPEN in the store, where the gate counts it.
Orderly(r) ==
    /\ LegInv
    /\ LegAlone(r)
    /\ NoDuplicateLiveEntry
    /\ pc[r] = "release" /\ GatesReady => Live \subseteq OpenTrades

NoneLeaves == \A a \in Attempts : trade[a] # "EXIT_PENDING"

\* Without the exit manager no trade is EXIT_PENDING.
LEMMA NoneLeavesHolds ==
    ASSUME "exits" \notin Env
    PROVE  Spec => []NoneLeaves
<1>1. Init => NoneLeaves
  BY DEF Init, NoneLeaves
<1>2. ASSUME TypeOK, NoneLeaves, [Next]_vars PROVE NoneLeaves'
  <2>1. ASSUME NEW q \in Runners, Reconcile(q) PROVE NoneLeaves'
    BY <1>2, <2>1, PassesEndTrades DEF NoneLeaves, TypeOK
  <2>2. ASSUME NEW q \in Runners, RunOnce(q) PROVE NoneLeaves'
    <3>1. trade' = trade \/ trade' = [trade EXCEPT ![leg[q]] = "OPEN"]
      BY <2>2 DEF RunOnce, Plan, Preflight, StartLeg, AcquireLock, RecordPlanned,
         ExecuteRefused, PlaceBracket, AuditWritten, AuditFailed, RecordSubmitted,
         RecordTrade, MarkSubmitted, GiveUp, durable
    <3> QED BY <1>2, <3>1 DEF NoneLeaves, TypeOK
  <2>3. ~Exits
    BY DEF Exits, SubmitExit, ReconcileTrade
  <2>4. CASE \/ Broker \/ Callbacks \/ Time \/ Operator
             \/ Disconnect \/ Connect \/ Crash \/ UNCHANGED vars
    BY <1>2, <2>4 DEF Broker, EntryFills, EntryRefused, ExitFills, ManualExit, Callbacks,
       OpenOrder, UpdatePortfolio, Time, GraceExpires, Operator, Acknowledge, OperatorClear,
       Disconnect, Connect, Crash, durable, vars, NoneLeaves
  <2> QED BY <1>2, <2>1, <2>2, <2>3, <2>4 DEF Next
<1> QED BY <1>1, <1>2, TypeCorrect, PTL DEF Spec

\* Whatever is live is OPEN at the gates: covered by a lock that the gates ask about ...
LEMMA CoveredIsOrderly ==
    ASSUME TypeOK, LegInv, NoneLeaves, NEW r \in Runners, Runners = {r},
           ExposureIsCovered, pc[r] = "release", GatesReady
    PROVE  Live \subseteq OpenTrades
<1> SUFFICES ASSUME NEW a \in Attempts, Exposed(a) PROVE trade[a] = "OPEN"
  BY DEF Live, OpenTrades
<1>1. life[a] # "ORPHANED_ORDER"
  BY DEF GatesReady, SafeToTrade, LifecyclesSettled
<1>2. Active(symbol[a]) /\ locks[symbol[a]].trade \in {None, a}
  BY <1>1 DEF ExposureIsCovered
<1>3. symbol[a] \in Symbols
  BY DEF LegInv, UnusedIsBlank, Exposed, TypeOK
<1>4. trade[a] \in {"OPEN", "EXIT_PENDING"}
  BY <1>2, <1>3 DEF GatesReady, SafeToTrade, LocksSettled
<1> QED BY <1>4 DEF NoneLeaves

\* ... or in the store since before the one trader came to the gates.
LEMMA TraderIsOrderly ==
    ASSUME TypeOK, EndedInv, TraderInv, NEW r \in Runners, Traders \subseteq {r},
           pc[r] = "release"
    PROVE  Live \subseteq OpenTrades
<1> SUFFICES ASSUME NEW a \in Attempts, Exposed(a) PROVE trade[a] = "OPEN"
  BY DEF Live, OpenTrades
<1>1. trade[a] # "none" /\ trade[a] # "EXIT_PENDING"
  BY DEF TraderInv
<1>2. ~Terminal(a)
  BY DEF EndedInv, EndedTradesAreFlat
<1> QED BY <1>1, <1>2 DEF Terminal, TypeOK, TradeStatus

\* Every setting is orderly.
LEMMA OrderlyHolds ==
    ASSUME NEW r \in Runners, SlotEnv(r)
    PROVE  Spec => []Orderly(r)
<1>1. CASE Runners = {r} /\ Env \subseteq {"disconnect", "crash", "hand"}
  <2>1. CoreEnv /\ "exits" \notin Env
    BY <1>1 DEF CoreEnv
  <2>2. Spec => []NoneLeaves /\ []IInv
    BY <1>1, <2>1, NoneLeavesHolds, IInvHolds
  <2>3. TypeOK /\ LegInv /\ NoneLeaves /\ IInv => Orderly(r)
    <3> SUFFICES ASSUME TypeOK, LegInv, NoneLeaves, IInv PROVE Orderly(r)
      OBVIOUS
    <3>1. LegAlone(r)
      BY DEF IInv, RunsAlone, LegAlone
    <3>2. pc[r] = "release" /\ GatesReady => Live \subseteq OpenTrades
      BY <1>1, CoveredIsOrderly DEF IInv
    <3> QED BY <3>1, <3>2 DEF Orderly, IInv
  <2> QED BY <2>2, <2>3, TypeCorrect, LegsStayApart, PTL
<1>2. CASE Runners = {r} /\ Env \subseteq {"disk", "hand"}
  <2>1. DiskEnv /\ "exits" \notin Env
    BY <1>2 DEF DiskEnv
  <2>2. Spec => []NoneLeaves /\ []LockInv /\ []ExposureIsCovered
    BY <1>2, <2>1, NoneLeavesHolds, LockInvHolds, CoveredWithFailingDisk
  <2>3. TypeOK /\ LegInv /\ NoneLeaves /\ LockInv /\ ExposureIsCovered => Orderly(r)
    BY <1>2, CoveredIsOrderly DEF LockInv, Orderly
  <2> QED BY <2>2, <2>3, TypeCorrect, LegsStayApart, PTL
<1>3. CASE Traders \subseteq {r} /\ Env \subseteq {"hand", "hasty"}
  <2>1. /\ PollerEnv /\ SteadyEnv
        /\ \A x, y \in Traders : x = y
    BY <1>3 DEF PollerEnv, SteadyEnv
  <2>2. Spec => []TraderInv /\ [](FailedInv /\ StaleInv /\ EndedInv)
    BY <2>1, TraderHolds, SteadyInvs
  <2>3. TypeOK /\ LegInv /\ FailedInv /\ StaleInv /\ EndedInv /\ TraderInv => Orderly(r)
    <3> SUFFICES ASSUME TypeOK, LegInv, EndedInv, TraderInv PROVE Orderly(r)
      OBVIOUS
    <3>1. LegAlone(r)
      BY DEF TraderInv, LegInv, LegAlone
    <3>2. pc[r] = "release" => Live \subseteq OpenTrades
      BY <1>3, TraderIsOrderly
    <3> QED BY <3>1, <3>2 DEF Orderly, TraderInv
  <2> QED BY <2>2, <2>3, TypeCorrect, LegsStayApart, PTL
<1> QED BY <1>1, <1>2, <1>3 DEF SlotEnv

\* Nobody but the trader is ever in a run.
LEMMA OnlyTheTraderRuns ==
    ASSUME LegInv, NEW r \in Runners, Traders \subseteq {r}, NEW q \in Runners, RunOnce(q)
    PROVE  q = r
BY DEF LegInv, RunOnce, Plan, Preflight, StartLeg, AcquireLock, RecordPlanned,
   ExecuteRefused, PlaceBracket, AuditWritten, AuditFailed, RecordSubmitted, RecordTrade,
   MarkSubmitted
-----------------------------------------------------------------------------
(* The slots a run has set aside.                                           *)

\* Legs of the basket of r that may still be sent.
Wanted(r) == {s \in legs[r] : /\ pc[r] \in InRun
                              /\ pc[r] \in AfterSend => s # symbol[leg[r]]}

\* The inductive invariant behind MaxOpenRespected: a run has set slots aside
\* for the legs it has still to send.
SlotInv(r) ==
    /\ IsFiniteSet(Used)
    /\ pc[r] \in InLeg => symbol[leg[r]] \in legs[r]
    /\ Cardinality(Live) + Cardinality(Wanted(r)) <= MaxOpen

\* A step that takes no slot.
Modest(r) ==
    /\ Live' \subseteq Live
    /\ Wanted(r)' \subseteq Wanted(r)
    /\ Used' = Used \/ \E a \in Attempts : Used' = Used \cup {a}
    /\ pc'[r] \in InLeg => symbol'[leg'[r]] \in legs'[r]

\* What is at the broker, and what a run wants, is finite.
LEMMA LiveIsFinite ==
    ASSUME IsFiniteSet(Symbols), TypeOK, LegInv, NEW r \in Runners, SlotInv(r)
    PROVE  /\ Live \subseteq Used
           /\ IsFiniteSet(Live) /\ IsFiniteSet(Wanted(r))
           /\ Cardinality(Live) \in Nat /\ Cardinality(Wanted(r)) \in Nat
<1>1. Live \subseteq Used
  BY DEF LegInv, UnusedIsBlank, Live, Used, Exposed
<1>2. IsFiniteSet(Live)
  BY <1>1, FS_Subset DEF SlotInv
<1>3. Wanted(r) \subseteq Symbols
  BY DEF Wanted, TypeOK
<1>4. IsFiniteSet(Wanted(r))
  BY <1>3, FS_Subset
<1> QED BY <1>1, <1>2, <1>4, FS_CardinalityType

LEMMA ModestKeepsSlots ==
    ASSUME IsFiniteSet(Symbols), TypeOK, LegInv, NEW r \in Runners, SlotInv(r), Modest(r)
    PROVE  SlotInv(r)'
<1>1. IsFiniteSet(Used')
  BY FS_AddElement DEF SlotInv, Modest
<1>2. /\ Cardinality(Live') <= Cardinality(Live) /\ Cardinality(Live') \in Nat
      /\ Cardinality(Wanted(r)') <= Cardinality(Wanted(r)) /\ Cardinality(Wanted(r)') \in Nat
  BY LiveIsFinite, FS_Subset, FS_CardinalityType DEF Modest
<1>3. Cardinality(Live)' + Cardinality(Wanted(r))' <= MaxOpen
  BY <1>2, LiveIsFinite, LimitsAssumption DEF SlotInv
<1> QED BY <1>1, <1>3 DEF SlotInv, Modest

LEMMA PlanKeepsSlots ==
    ASSUME IsFiniteSet(Symbols), TypeOK, NEW r \in Runners, Orderly(r),
           SlotInv(r), Plan(r)
    PROVE  SlotInv(r)'
<1>1. PICK plans \in SUBSET Symbols : /\ Cardinality(plans) + CountOpen <= MaxOpen
                                     /\ legs' = [legs EXCEPT ![r] = plans]
  BY DEF Plan
<1>2. /\ pc[r] = "release" /\ GatesReady /\ pc' = [pc EXCEPT ![r] = "preflight"]
      /\ UNCHANGED <<broker, symbol>>
  BY DEF Plan, durable
<1>3. Live' = Live /\ Used' = Used
  BY <1>2 DEF Live, Used, Exposed
<1>4. Wanted(r)' = plans
  BY <1>1, <1>2 DEF Wanted, TypeOK
<1>5. Live \subseteq OpenTrades /\ OpenTrades \subseteq Used
  BY <1>2 DEF Orderly, OpenTrades, Used, LegInv, UnusedIsBlank
<1>6. Cardinality(Live) <= CountOpen /\ CountOpen \in Nat
  BY <1>5, FS_Subset, FS_CardinalityType DEF CountOpen, SlotInv
<1>7. Cardinality(plans) \in Nat /\ Cardinality(Live) \in Nat
  BY FS_Subset, FS_CardinalityType, LiveIsFinite DEF Orderly
<1>8. Cardinality(Live)' + Cardinality(Wanted(r))' <= MaxOpen
  BY <1>1, <1>3, <1>4, <1>6, <1>7, LimitsAssumption
<1>9. pc'[r] \notin BeforeSend \cup AfterSend
  BY <1>2 DEF TypeOK
<1> QED BY <1>2, <1>3, <1>8, <1>9 DEF SlotInv

\* The bracket is placed in a slot that was set aside.
LEMMA PlaceTakesASlot ==
    ASSUME IsFiniteSet(Symbols), TypeOK, NEW r \in Runners, Orderly(r),
           SlotInv(r), PlaceBracket(r)
    PROVE  SlotInv(r)' /\ Cardinality(Live) < MaxOpen
<1> DEFINE a == leg[r]
           s == symbol[leg[r]]
<1>1. /\ pc[r] = "execute" /\ pc' = [pc EXCEPT ![r] = "audit"]
      /\ broker' = [broker EXCEPT ![a] = "working"]
      /\ UNCHANGED <<symbol, legs, leg>>
  BY DEF PlaceBracket, durable
<1>2. a \in Attempts /\ broker[a] = "none" /\ s \in legs[r]
  BY <1>1 DEF Orderly, LegInv, SlotInv
<1>3. Live' = Live \cup {a} /\ a \notin Live
  BY <1>1, <1>2 DEF Live, Exposed, TypeOK
<1>4. s \in Wanted(r) /\ Wanted(r)' = Wanted(r) \ {s}
  BY <1>1, <1>2 DEF Wanted, TypeOK
<1>5. Used' = Used
  BY <1>1 DEF Used
<1>6. Cardinality(Live') = Cardinality(Live) + 1
  BY <1>3, LiveIsFinite, FS_AddElement DEF Orderly
<1>7. Cardinality(Wanted(r)') = Cardinality(Wanted(r)) - 1
  BY <1>4, LiveIsFinite, FS_RemoveElement DEF Orderly
<1>8. Cardinality(Live)' + Cardinality(Wanted(r))' <= MaxOpen
  BY <1>6, <1>7, LiveIsFinite, LimitsAssumption DEF SlotInv, Orderly
<1>9. Cardinality(Wanted(r)') \in Nat
  BY <1>4, LiveIsFinite, FS_RemoveElement, FS_CardinalityType DEF Orderly
<1>10. Cardinality(Live) < MaxOpen
  BY <1>7, <1>9, LiveIsFinite, LimitsAssumption DEF SlotInv, Orderly
<1>11. pc'[r] \in BeforeSend \cup AfterSend => symbol'[leg'[r]] \in legs'[r]
  BY <1>1, <1>2
<1> QED BY <1>1, <1>5, <1>8, <1>10, <1>11 DEF SlotInv

\* Every other step of the runner is modest.
LEMMA RunnerIsModest ==
    ASSUME TypeOK, NEW r \in Runners, SlotInv(r),
           Reconcile(r) \/ RunOnce(r), ~Plan(r), ~PlaceBracket(r)
    PROVE  Modest(r)
<1> USE DEF Modest, Live, Wanted, Used, Exposed, TypeOK, SlotInv, bridge, durable
<1>1. CASE DrainFills(r)
  BY <1>1 DEF DrainFills
<1>2. CASE ApplyFill(r)
  BY <1>2 DEF ApplyFill, WriteLife
<1>3. CASE DrainRejects(r)
  BY <1>3 DEF DrainRejects
<1>4. CASE FailRejected(r)
  BY <1>4 DEF FailRejected, Settle, WriteLife
<1>5. CASE DrainExits(r)
  BY <1>5 DEF DrainExits
<1>6. CASE CloseFilled(r)
  BY <1>6 DEF CloseFilled, Settle, WriteLife
<1>7. CASE ReadStale(r)
  BY <1>7 DEF ReadStale
<1>8. CASE CloseStale(r)
  BY <1>8 DEF CloseStale
<1>9. CASE RecordOrphan(r)
  BY <1>9 DEF RecordOrphan, WriteLife
<1>10. CASE ReadLocks(r)
  BY <1>10 DEF ReadLocks
<1>11. CASE ReleaseLock(r)
  BY <1>11 DEF ReleaseLock
<1>12. CASE EndPass(r)
  BY <1>12 DEF EndPass
<1>13. CASE Preflight(r)
  BY <1>13 DEF Preflight, Return
<1>14. CASE StartLeg(r)
  <2>1. /\ UNCHANGED <<broker, trade>> /\ pc[r] = "leg"
        /\ \/ symbol' = symbol /\ pc'[r] = "idle"
           \/ /\ pc'[r] = "acquire" /\ legs' = legs
              /\ \E s \in legs[r], a \in Attempts :
                    /\ symbol[a] = None
                    /\ symbol' = [symbol EXCEPT ![a] = s] /\ leg'[r] = a
    BY <1>14 DEF StartLeg, Return
  <2>2. CASE symbol' = symbol /\ pc'[r] = "idle"
    BY <2>1, <2>2
  <2>3. ASSUME NEW s \in legs[r], NEW a \in Attempts, symbol[a] = None,
               symbol' = [symbol EXCEPT ![a] = s], leg'[r] = a,
               pc'[r] = "acquire", legs' = legs
        PROVE  Modest(r)
    <3>1. s # None
      BY NoneAssumption
    <3>2. Used' = Used \cup {a}
      BY <2>3, <3>1
    <3>3. Wanted(r)' \subseteq Wanted(r)
      BY <2>1, <2>3
    <3> QED BY <2>1, <2>3, <3>2, <3>3
  <2> QED BY <2>1, <2>2, <2>3
<1>15. CASE AcquireLock(r)
  BY <1>15 DEF AcquireLock, Return
<1>16. CASE RecordPlanned(r)
  BY <1>16 DEF RecordPlanned, GiveUp, Return
<1>17. CASE ExecuteRefused(r)
  BY <1>17 DEF ExecuteRefused, GiveUp, Return
<1>18. CASE AuditWritten(r)
  BY <1>18 DEF AuditWritten
<1>19. CASE AuditFailed(r)
  BY <1>19 DEF AuditFailed, GiveUp, Return
<1>20. CASE RecordSubmitted(r)
  BY <1>20 DEF RecordSubmitted
<1>21. CASE RecordTrade(r)
  BY <1>21 DEF RecordTrade, Return
<1>22. CASE MarkSubmitted(r)
  BY <1>22 DEF MarkSubmitted
<1> QED BY <1>1, <1>2, <1>3, <1>4, <1>5, <1>6, <1>7, <1>8, <1>9, <1>10, <1>11, <1>12,
           <1>13, <1>14, <1>15, <1>16, <1>17, <1>18, <1>19, <1>20, <1>21, <1>22
        DEF Reconcile, RunOnce

\* A reconciliation by somebody else leaves the runner where it is.
LEMMA PollsAreModest ==
    ASSUME TypeOK, NEW r \in Runners, SlotInv(r), NEW q \in Runners, q # r, Reconcile(q)
    PROVE  Modest(r)
<1>1. /\ UNCHANGED <<symbol, broker, legs>>
      /\ pc'[r] = pc[r] /\ leg'[r] = leg[r]
  BY DEF Reconcile, DrainFills, ApplyFill, DrainRejects, FailRejected, DrainExits,
     CloseFilled, ReadStale, CloseStale, RecordOrphan, ReadLocks, ReleaseLock, EndPass,
     durable, TypeOK
<1> QED BY <1>1 DEF Modest, Live, Wanted, Used, Exposed, SlotInv

\* And so are the steps of everybody else.
LEMMA OthersAreModest ==
    ASSUME TypeOK, NEW r \in Runners, SlotInv(r),
           \/ Exits \/ Broker \/ Callbacks \/ Time \/ Operator
           \/ Disconnect \/ Connect \/ Crash \/ UNCHANGED vars
    PROVE  Modest(r)
<1> USE DEF Modest, Live, Wanted, Used, Exposed, TypeOK, SlotInv, bridge, durable, local
<1>1. CASE Exits
  BY <1>1 DEF Exits, SubmitExit, ReconcileTrade
<1>2. CASE Broker
  BY <1>2 DEF Broker, EntryFills, EntryRefused, ExitFills, ManualExit
<1>3. CASE Callbacks
  BY <1>3 DEF Callbacks, OpenOrder, UpdatePortfolio
<1>4. CASE Time
  BY <1>4 DEF Time, GraceExpires
<1>5. CASE Operator
  BY <1>5 DEF Operator, Acknowledge, OperatorClear
<1>6. CASE Disconnect
  BY <1>6 DEF Disconnect, LoseSocket
<1>7. CASE Connect
  BY <1>7 DEF Connect
<1>8. CASE Crash
  BY <1>8 DEF Crash, LoseSocket
<1>9. CASE UNCHANGED vars
  BY <1>9 DEF vars
<1> QED BY <1>1, <1>2, <1>3, <1>4, <1>5, <1>6, <1>7, <1>8, <1>9

LEMMA InitSlots ==
    ASSUME Init, NEW r \in Runners
    PROVE  SlotInv(r)
<1>1. Live = {} /\ Wanted(r) = {} /\ Used = {}
  BY DEF Init, Live, Wanted, Used, Exposed
<1> QED BY <1>1, FS_EmptySet, LimitsAssumption DEF Init, SlotInv

\* The slots are kept by every step.
LEMMA StepSlots ==
    ASSUME IsFiniteSet(Symbols), TypeOK, NEW r \in Runners, Traders \subseteq {r}, Orderly(r),
           SlotInv(r), [Next]_vars
    PROVE  SlotInv(r)'
<1>1. CASE Plan(r)
  BY <1>1, PlanKeepsSlots
<1>2. CASE PlaceBracket(r)
  BY <1>2, PlaceTakesASlot
<1>3. CASE ~Plan(r) /\ ~PlaceBracket(r)
  <2>1. Modest(r)
    BY <1>3, RunnerIsModest, PollsAreModest, OthersAreModest, OnlyTheTraderRuns
       DEF Next, Orderly
  <2> QED BY <2>1, ModestKeepsSlots DEF Orderly
<1> QED BY <1>1, <1>2, <1>3

\* max_open_live_trades bounds what the broker has of the robot, and not only the
\* OPEN records that the gate counts, in each of the three settings and for baskets
\* of any size.
THEOREM MaxOpenHolds ==
    ASSUME NEW r \in Runners, SlotEnv(r), IsFiniteSet(Symbols)
    PROVE  Spec => []MaxOpenRespected
<1>0. Traders \subseteq {r}
  BY RunnersAssumption DEF SlotEnv
<1>1. Init => SlotInv(r)
  BY InitSlots
<1>2. TypeOK /\ Orderly(r) /\ SlotInv(r) /\ [Next]_vars => SlotInv(r)'
  BY <1>0, StepSlots
<1>3. TypeOK /\ Orderly(r) /\ SlotInv(r) => MaxOpenRespected
  BY LiveIsFinite, LimitsAssumption DEF SlotInv, Orderly, Live, MaxOpenRespected
<1> QED BY <1>1, <1>2, <1>3, TypeCorrect, OrderlyHolds, PTL DEF Spec
-----------------------------------------------------------------------------
(* The refinement.                                                          *)

\* The attempt in the slot of a symbol, as ImplementsEntrySlots maps it.
On(a, s) == a \in Attempts /\ symbol[a] = s /\ Exposed(a)
Holder == [s \in Symbols |->
              IF \E a \in Attempts : symbol[a] = s /\ Exposed(a)
              THEN CHOOSE a \in Attempts : symbol[a] = s /\ Exposed(a)
              ELSE None]
Spent  == {a \in Attempts : broker[a] # "none"}

\* The slot of a symbol is held by the one attempt that is exposed on it.
LEMMA HolderIsUnique ==
    ASSUME NoDuplicateLiveEntry
    PROVE  /\ Holder = [s \in Symbols |-> Holder[s]]
           /\ \A s \in Symbols : \A a : On(a, s) => Holder[s] = a
           /\ \A s \in Symbols : (\A a : ~On(a, s)) => Holder[s] = None
<1>1. ASSUME NEW s \in Symbols, NEW a, On(a, s) PROVE Holder[s] = a
  <2>1. /\ Holder[s] \in Attempts
        /\ symbol[Holder[s]] = s /\ Exposed(Holder[s])
    BY <1>1 DEF On, Holder
  <2> QED BY <1>1, <2>1 DEF On, NoDuplicateLiveEntry
<1>2. ASSUME NEW s \in Symbols, \A a : ~On(a, s) PROVE Holder[s] = None
  BY <1>2 DEF On, Holder
<1>3. Holder = [s \in Symbols |-> Holder[s]]
  BY DEF Holder
<1> QED BY <1>1, <1>2, <1>3

\* The same of the state after a step.
LEMMA PrimedHolder ==
    ASSUME NoDuplicateLiveEntry'
    PROVE  /\ \A s \in Symbols : \A a : On(a, s)' => Holder'[s] = a
           /\ \A s \in Symbols : (\A a : ~On(a, s)') => Holder'[s] = None
<1>1. ASSUME NEW s \in Symbols, NEW a, On(a, s)' PROVE Holder'[s] = a
  <2>1. /\ Holder'[s] \in Attempts
        /\ symbol'[Holder'[s]] = s /\ Exposed(Holder[s])'
    BY <1>1 DEF On, Holder
  <2> QED BY <1>1, <2>1 DEF On, NoDuplicateLiveEntry
<1>2. ASSUME NEW s \in Symbols, \A a : ~On(a, s)' PROVE Holder'[s] = None
  BY <1>2 DEF On, Holder
<1> QED BY <1>1, <1>2

\* When nothing is exposed anew or no longer, no slot changes hands.
LEMMA SameSlots ==
    ASSUME NoDuplicateLiveEntry, NoDuplicateLiveEntry',
           \A a, s : On(a, s)' <=> On(a, s)
    PROVE  Holder' = Holder
<1>1. \A s \in Symbols : Holder'[s] = Holder[s]
  BY HolderIsUnique, PrimedHolder
<1> QED BY <1>1 DEF Holder

\* An order at the broker is of a symbol.
LEMMA ExposedHasASymbol ==
    ASSUME TypeOK, LegInv, NEW a \in Attempts, Exposed(a)
    PROVE  symbol[a] \in Symbols
BY DEF LegInv, UnusedIsBlank, Exposed, TypeOK

\* A step of the robot that sends nothing, or of anybody but the broker.
LEMMA QuietStep ==
    ASSUME TypeOK, NEW r \in Runners, Traders \subseteq {r}, Orderly(r), Orderly(r)',
           [Next]_vars, ~PlaceBracket(r), ~Broker
    PROVE  Holder' = Holder /\ Spent' = Spent
<1>1. /\ broker' = broker
      /\ \/ symbol' = symbol
         \/ \E a \in Attempts, s \in Symbols :
               symbol[a] = None /\ symbol' = [symbol EXCEPT ![a] = s]
  <2> USE DEF TypeOK, bridge, durable, local
  <2>1. ASSUME NEW q \in Runners, Reconcile(q) PROVE UNCHANGED <<broker, symbol>>
    BY <2>1 DEF Reconcile, DrainFills, ApplyFill, DrainRejects, FailRejected, DrainExits,
       CloseFilled, ReadStale, CloseStale, RecordOrphan, ReadLocks, ReleaseLock, EndPass
  <2>2. CASE RunOnce(r)
    <3>1. CASE StartLeg(r)
      BY <3>1 DEF StartLeg
    <3>2. CASE ~StartLeg(r)
      BY <2>2, <3>2 DEF RunOnce, Plan, Preflight, AcquireLock, RecordPlanned, ExecuteRefused,
         AuditWritten, AuditFailed, RecordSubmitted, RecordTrade, MarkSubmitted, GiveUp
    <3> QED BY <3>1, <3>2
  <2>3. CASE Exits \/ Callbacks \/ Time \/ Operator
    BY <2>3 DEF Exits, SubmitExit, ReconcileTrade, Callbacks, OpenOrder, UpdatePortfolio,
       Time, GraceExpires, Operator, Acknowledge, OperatorClear
  <2>4. CASE Disconnect \/ Connect \/ Crash \/ UNCHANGED vars
    BY <2>4 DEF Disconnect, Connect, Crash, vars
  <2> QED BY <2>1, <2>2, <2>3, <2>4, OnlyTheTraderRuns DEF Next, Orderly
<1>2. \A a, s : On(a, s)' <=> On(a, s)
  BY <1>1 DEF On, Exposed, Orderly, LegInv, UnusedIsBlank, TypeOK
<1>3. Spent' = Spent
  BY <1>1 DEF Spent
<1> QED BY <1>2, <1>3, SameSlots DEF Orderly

\* A bracket takes the free slot of its symbol.
LEMMA EnterStep ==
    ASSUME IsFiniteSet(Symbols), TypeOK, NEW r \in Runners, Orderly(r), Orderly(r)',
           SlotInv(r), PlaceBracket(r)
    PROVE  \E s \in Symbols, a \in Attempts : Slots!Enter(s, a)
<1>1. /\ pc[r] = "execute"
      /\ broker' = [broker EXCEPT ![leg[r]] = "working"]
      /\ symbol' = symbol
  BY DEF PlaceBracket, durable
<1>2. PICK a \in Attempts, s \in Symbols :
        /\ a = leg[r] /\ s = symbol[a] /\ broker[a] = "none"
        /\ \A b \in Attempts : b # a /\ symbol[b] = s => ~Exposed(b)
  BY <1>1 DEF Orderly, LegInv, LegAlone, TypeOK
<1>3. \A b, t : On(b, t)' <=> On(b, t) \/ (b = a /\ t = s)
  BY <1>1, <1>2 DEF On, Exposed, TypeOK
<1>4. \A b : ~On(b, s)
  BY <1>2 DEF On, Exposed
<1>5. Holder[s] = None
  BY <1>2, <1>4, HolderIsUnique DEF Orderly
<1>6. Holder' = [Holder EXCEPT ![s] = a]
  <2>1. \A t \in Symbols : \A b : On(b, t)' => Holder'[t] = b
    BY PrimedHolder DEF Orderly
  <2>2. \A t \in Symbols : (\A b : ~On(b, t)') => Holder'[t] = None
    BY PrimedHolder DEF Orderly
  <2>3. Holder'[s] = a
    BY <1>2, <1>3, <2>1
  <2>4. ASSUME NEW t \in Symbols, t # s PROVE Holder'[t] = Holder[t]
    BY <1>3, <2>1, <2>2, <2>4, HolderIsUnique DEF Orderly
  <2> QED BY <1>2, <2>3, <2>4 DEF Holder
<1>7. a \notin Spent /\ Spent' = Spent \cup {a}
  BY <1>1, <1>2 DEF Spent, TypeOK
<1>8. Cardinality({t \in Symbols : Holder[t] # None}) <= Cardinality(Live)
  <2> DEFINE T == {t \in Symbols : Holder[t] # None}
             f == [t \in T |-> Holder[t]]
  <2>1. \A t \in T : f[t] \in Live /\ symbol[f[t]] = t
    <3>1. \A t \in T : \E b : On(b, t)
      BY HolderIsUnique DEF Orderly
    <3>2. \A t \in T : On(Holder[t], t)
      BY <3>1, HolderIsUnique DEF Orderly
    <3> QED BY <3>2 DEF On, Live
  <2>2. f \in [T -> Live] /\ DOMAIN f = T
    BY <2>1
  <2> HIDE DEF T, f
  <2>3. \A t, u \in T : f[t] = f[u] => t = u
    BY <2>1
  <2>4. f \in Injection(T, Live)
    BY <2>2, <2>3 DEF Injection, IsInjective
  <2>5. Cardinality(T) <= Cardinality(Live)
    BY <2>4, LiveIsFinite, FS_Injection DEF Orderly
  <2> QED BY <2>5 DEF T
<1>9. Cardinality({t \in Symbols : Holder[t] # None}) < MaxOpen
  <2>1. /\ IsFiniteSet({t \in Symbols : Holder[t] # None})
        /\ Cardinality({t \in Symbols : Holder[t] # None}) \in Nat
    BY FS_Subset, FS_CardinalityType
  <2> QED BY <1>8, <2>1, PlaceTakesASlot, LiveIsFinite, LimitsAssumption DEF Orderly
<1>10. Slots!Taken = {t \in Symbols : Holder[t] # None}
  BY DEF Slots!Taken, Holder
<1>11. Slots!Cardinality(Slots!Taken) < MaxOpen
  BY <1>9, <1>10 DEF Slots!Cardinality, Cardinality
<1>12. Slots!Enter(s, a)
  BY <1>2, <1>5, <1>6, <1>7, <1>11 DEF Slots!Enter, Holder, Spent
<1> QED BY <1>12

\* A step of the broker frees the slot of its symbol, or changes no slot.
LEMMA BrokerStep ==
    ASSUME TypeOK, NEW r \in Runners, Orderly(r), Orderly(r)', Broker
    PROVE  \/ Holder' = Holder /\ Spent' = Spent
           \/ \E s \in Symbols : Slots!Leave(s)
<1>1. PICK a \in Attempts : EntryFills(a) \/ EntryRefused(a) \/ ExitFills(a) \/ ManualExit(a)
  BY DEF Broker
<1>2. symbol' = symbol
  BY <1>1 DEF EntryFills, EntryRefused, ExitFills, ManualExit, durable
<1>3. CASE EntryFills(a)
  <2>1. broker[a] = "working" /\ broker' = [broker EXCEPT ![a] = "held"]
    BY <1>3 DEF EntryFills
  <2>2. \A b, t : On(b, t)' <=> On(b, t)
    BY <1>2, <2>1 DEF On, Exposed, TypeOK
  <2>3. Spent' = Spent
    BY <2>1 DEF Spent, TypeOK
  <2> QED BY <2>2, <2>3, SameSlots DEF Orderly
<1>4. CASE EntryRefused(a) \/ ExitFills(a) \/ ManualExit(a)
  <2>1. /\ Exposed(a)
        /\ \E end \in {"refused", "flat"} : broker' = [broker EXCEPT ![a] = end]
    BY <1>4 DEF EntryRefused, ExitFills, ManualExit, Exposed
  <2>2. PICK s \in Symbols : s = symbol[a]
    BY <2>1, ExposedHasASymbol DEF Orderly
  <2>3. \A b, t : On(b, t)' <=> On(b, t) /\ b # a
    BY <1>2, <2>1 DEF On, Exposed, TypeOK
  <2>4. On(a, s) /\ (\A b : On(b, s) => b = a)
    BY <2>1, <2>2 DEF On, Orderly, NoDuplicateLiveEntry
  <2>5. Holder[s] = a /\ a # None
    BY <2>4, HolderIsUnique, NoneAssumption DEF Orderly
  <2>6. \A t \in Symbols : \A b : On(b, t)' => Holder'[t] = b
    BY PrimedHolder DEF Orderly
  <2>7. \A t \in Symbols : (\A b : ~On(b, t)') => Holder'[t] = None
    BY PrimedHolder DEF Orderly
  <2>8. Holder'[s] = None
    BY <2>3, <2>4, <2>7
  <2>9. ASSUME NEW t \in Symbols, t # s PROVE Holder'[t] = Holder[t]
    <3>1. \A b : On(b, t)' <=> On(b, t)
      BY <2>2, <2>3, <2>9 DEF On
    <3> QED BY <3>1, <2>6, <2>7, HolderIsUnique DEF Orderly
  <2>10. Holder' = [Holder EXCEPT ![s] = None]
    BY <2>8, <2>9 DEF Holder
  <2>11. Spent' = Spent
    BY <2>1 DEF Spent, Exposed, TypeOK
  <2>12. Slots!Leave(s)
    BY <2>5, <2>10, <2>11 DEF Slots!Leave, Holder, Spent
  <2> QED BY <2>12
<1> QED BY <1>1, <1>3, <1>4

\* LiveEntry implements EntrySlots in each of the three settings: an attempt goes to
\* the broker once, into a free slot, within max_open_live_trades, and a slot comes
\* free only when the broker has nothing left of the attempt.
THEOREM EntrySlotsImplemented ==
    ASSUME NEW r \in Runners, SlotEnv(r), IsFiniteSet(Symbols)
    PROVE  Spec => ImplementsEntrySlots
<1>0. Traders \subseteq {r}
  BY RunnersAssumption DEF SlotEnv
<1>1. Init => Slots!Init
  <2> SUFFICES ASSUME Init PROVE Slots!Init
    OBVIOUS
  <2>1. \A a \in Attempts : ~Exposed(a) /\ broker[a] = "none"
    BY DEF Init, Exposed
  <2> QED BY <2>1 DEF Slots!Init
<1>2. Init => SlotInv(r)
  BY InitSlots
<1>3. TypeOK /\ Orderly(r) /\ SlotInv(r) /\ [Next]_vars => SlotInv(r)'
  BY <1>0, StepSlots
<1>4. TypeOK /\ Orderly(r) /\ Orderly(r)' /\ SlotInv(r) /\ [Next]_vars => [Slots!Next]_(Slots!slots)
  <2> SUFFICES ASSUME TypeOK, Orderly(r), Orderly(r)', SlotInv(r), [Next]_vars
               PROVE  Slots!Next \/ UNCHANGED Slots!slots
    OBVIOUS
  <2>1. CASE PlaceBracket(r)
    BY <2>1, EnterStep DEF Slots!Next
  <2>2. CASE Broker
    BY <2>2, BrokerStep DEF Slots!Next, Slots!slots, Holder, Spent
  <2>3. CASE ~PlaceBracket(r) /\ ~Broker
    BY <1>0, <2>3, QuietStep DEF Slots!slots, Holder, Spent
  <2> QED BY <2>1, <2>2, <2>3
<1> QED BY <1>1, <1>2, <1>3, <1>4, TypeCorrect, OrderlyHolds, PTL
        DEF Spec, ImplementsEntrySlots, Slots!Spec
=============================================================================
