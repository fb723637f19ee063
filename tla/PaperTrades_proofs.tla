------------------------- MODULE PaperTrades_proofs -------------------------
(* Proofs about PaperTrades: its types, that the store tells the truth      *)
(* about the broker, that what was bought is looked after, that no two      *)
(* SELLs of a trade work at once, and that the account stays long.          *)
EXTENDS PaperTrades, FiniteSetTheorems, TLAPS

\* A thread that deals with one trade has one, and an exit order where it says so.
Named(l, j) ==
    /\ l \in {"reopen", "sell", "mark", "abandon"} => j.trade \in Trades
    /\ l = "mark" => j.sell \in Exits
    /\ j.legs # {} => j.lead \in j.legs
    /\ j.legs = {} => j.lead = None
    /\ \A a \in Trades : j.snap[a].status = "EXIT_PENDING" => j.snap[a].exit \in Exits

JobNamed == \A t \in Threads : Named(pc[t], job[t])

ExitNamed == \A a \in Trades : trade[a].status = "EXIT_PENDING" => trade[a].exit \in Exits

OrderOK ==
    \A o \in Orders :
        /\ order[o].state # "none" => order[o].of \in Trades
        /\ order[o].state = "working" => order[o].left > 0
        /\ order[o].state = "none" => order[o].left = Lot
        /\ o \in Trades /\ order[o].state # "none" => order[o].of = o

TypeInv == TypeOK /\ JobNamed /\ ExitNamed /\ OrderOK

LEMMA NoJobTyped == NoJob \in Job /\ \A l \in {"idle", "pass", "evaluate", "legs"} : Named(l, NoJob)
  BY DEF NoJob, Job, NoRecord, Records, Statuses, Named

LEMMA SufferKeeps ==
    ASSUME NEW H, Suffer(H)
    PROVE  /\ H \subseteq seen' /\ seen \subseteq seen'
           /\ (seen \subseteq Hazards => seen' \subseteq Hazards)
  BY EnvAssumption DEF Suffer

LEMMA GoTyped ==
    ASSUME TypeInv, NEW t \in Threads, NEW l \in Pc, NEW j \in Job, Go(t, l, j), Named(l, j)
    PROVE  pc' \in [Threads -> Pc] /\ job' \in [Threads -> Job] /\ JobNamed'
<1>1. pc' \in [Threads -> Pc] /\ job' \in [Threads -> Job]
  BY NoJobTyped DEF Go, TypeInv, TypeOK
<1>2. \A u \in Threads : u # t => pc'[u] = pc[u] /\ job'[u] = job[u]
  BY DEF Go, TypeInv, TypeOK
<1>3. pc'[t] = l /\ job'[t] = IF l = "idle" THEN NoJob ELSE j
  BY DEF Go, TypeInv, TypeOK
<1>4. Named(pc'[t], job'[t])
  BY <1>3, NoJobTyped
<1>5. \A u \in Threads : Named(pc'[u], job'[u])
  BY <1>2, <1>4 DEF TypeInv, JobNamed
<1> QED BY <1>1, <1>5 DEF JobNamed, Named

LEMMA GoMoves ==
    ASSUME TypeOK, NEW t \in Threads, NEW l, NEW j, Go(t, l, j)
    PROVE  /\ pc'[t] = l
           /\ l # "idle" => job'[t] = j
           /\ l = "idle" => job'[t] = NoJob
           /\ \A u \in Threads : u # t => pc'[u] = pc[u] /\ job'[u] = job[u]
  BY DEF Go, TypeOK

LEMMA ThreadsKept ==
    ASSUME TypeInv, UNCHANGED threads
    PROVE  pc' \in [Threads -> Pc] /\ job' \in [Threads -> Job] /\ JobNamed'
  BY DEF threads, TypeInv, TypeOK, JobNamed, Named

\* The parts of TypeInv that do not concern the threads.
DataOK ==
    /\ trade \in [Trades -> Records] /\ ExitNamed
    /\ order \in [Orders -> Order] /\ OrderOK
    /\ held \in [Symbols -> Int]
    /\ reports \subseteq Orders /\ known \subseteq Orders
    /\ pos \in [Symbols -> Int]
    /\ seen \subseteq Hazards

LEMMA Assemble ==
    TypeInv <=> /\ DataOK /\ pc \in [Threads -> Pc] /\ job \in [Threads -> Job]
                /\ JobNamed
  BY DEF TypeInv, TypeOK, DataOK

LEMMA AssembleNext ==
    ASSUME DataOK', pc' \in [Threads -> Pc] /\ job' \in [Threads -> Job] /\ JobNamed'
    PROVE  TypeInv'
  BY DEF TypeInv, TypeOK, DataOK

LEMMA TypeInit == Init => TypeInv
<1> SUFFICES ASSUME Init PROVE TypeInv
  OBVIOUS
<1>1. order \in [Orders -> Order] /\ OrderOK
  BY LotAssumption DEF Init, Order, NoOrder, OrderOK
<1>2. trade \in [Trades -> Records] /\ ExitNamed
  BY DEF Init, NoRecord, Records, Statuses, ExitNamed
<1>3. pc \in [Threads -> Pc] /\ job \in [Threads -> Job] /\ JobNamed
  BY NoJobTyped DEF Init, Pc, JobNamed
<1>4. DataOK
  BY <1>1, <1>2 DEF Init, DataOK
<1> QED BY <1>3, <1>4, Assemble

\* A pass that is done with a trade has forgotten what it read of it.
LEMMA DoneTyped ==
    ASSUME TypeInv, NEW t \in Threads, NEW a \in Trades
    PROVE  /\ DoneWith(t, a) \in Job /\ Named("pass", DoneWith(t, a))
           /\ DoneWith(t, a).snap = [job[t].snap EXCEPT ![a] = NoRecord]
           /\ DoneWith(t, a).todo = job[t].todo \ {a}
           /\ DoneWith(t, a).legs = job[t].legs /\ DoneWith(t, a).kept = job[t].kept
           /\ DoneWith(t, a).then = job[t].then
<1>1. job[t] \in Job /\ Named(pc[t], job[t])
  BY DEF TypeInv, TypeOK, JobNamed
<1>2. NoRecord \in Records /\ NoRecord.status = "none"
  BY DEF NoRecord, Records, Statuses
<1>3. /\ DoneWith(t, a).snap = [job[t].snap EXCEPT ![a] = NoRecord]
      /\ DoneWith(t, a).todo = job[t].todo \ {a}
  BY <1>1 DEF DoneWith, Job
<1>4. /\ DoneWith(t, a).legs = job[t].legs /\ DoneWith(t, a).lead = job[t].lead
      /\ DoneWith(t, a).kept = job[t].kept /\ DoneWith(t, a).then = job[t].then
  BY <1>1 DEF DoneWith, Job
<1>5. DoneWith(t, a) \in Job
  BY <1>1, <1>2 DEF DoneWith, Job
<1>6. \A b \in Trades : [job[t].snap EXCEPT ![a] = NoRecord][b].status = "EXIT_PENDING" =>
                         [job[t].snap EXCEPT ![a] = NoRecord][b].exit \in Exits
  BY <1>1, <1>2 DEF Named, Job
<1>7. Named("pass", DoneWith(t, a))
  BY <1>1, <1>3, <1>4, <1>6 DEF Named
<1> QED BY <1>3, <1>4, <1>5, <1>7

LEMMA SettleTyped ==
    ASSUME TypeInv, NEW t \in Threads, NEW a \in Trades, NEW r \in Records, Settles(t, a, r),
           r.status # "EXIT_PENDING"
    PROVE  TypeInv'
<1>d. DataOK
  BY Assemble
<1>1. DataOK'
  BY <1>d DEF Settles, Update, DataOK, ExitNamed, OrderOK, tws, service
<1>2. Go(t, "pass", DoneWith(t, a)) /\ "pass" \in Pc
  BY DEF Settles, Pc
<1> QED BY <1>1, <1>2, DoneTyped, GoTyped, AssembleNext

\* A store that is read is a snapshot of the right form.
LEMMA SnapshotTyped ==
    ASSUME TypeInv, NEW then \in {"exits", "end"}
    PROVE  /\ Snapshot(then) \in Job /\ Named("pass", Snapshot(then))
           /\ Snapshot(then).snap = trade /\ Snapshot(then).legs = {}
           /\ Snapshot(then).todo = Recorded /\ Snapshot(then).then = then
<1>1. /\ Snapshot(then).snap = trade /\ Snapshot(then).todo = Recorded
      /\ Snapshot(then).then = then
  BY DEF Snapshot, NoJob
<1>2. Snapshot(then).legs = {} /\ Snapshot(then).lead = None
  BY DEF Snapshot, NoJob
<1>3. Recorded \subseteq Trades /\ trade \in [Trades -> Records]
  BY DEF Recorded, TypeInv, TypeOK
<1>4. Snapshot(then) \in Job
  BY <1>3, NoJobTyped DEF Snapshot, Job
<1>5. Named("pass", Snapshot(then))
  BY <1>1, <1>2 DEF TypeInv, ExitNamed, Named
<1> QED BY <1>1, <1>2, <1>4, <1>5

LEMMA RequestTyped == ASSUME TypeInv, NEW t \in Threads, Request(t) PROVE TypeInv'
<1>d. DataOK
  BY Assemble
<1> USE DEF tws, service
<1>1. CASE RunOnce(t)
  <2>1. DataOK'
    BY <1>1, <1>d, SufferKeeps DEF RunOnce, Arrives, DataOK, ExitNamed, OrderOK
  <2>2. Go(t, "legs", NoJob) /\ "legs" \in Pc
    BY <1>1 DEF RunOnce, Pc
  <2> QED BY <2>1, <2>2, NoJobTyped, GoTyped, AssembleNext
<1>2. CASE ExecutePaper(t)
  <2>1. DataOK'
    BY <1>2, <1>d, SufferKeeps DEF ExecutePaper, Arrives, DataOK, ExitNamed, OrderOK
  <2>2. Go(t, "legs", [NoJob EXCEPT !.kept = FALSE]) /\ "legs" \in Pc
    BY <1>2 DEF ExecutePaper, Pc
  <2>3. [NoJob EXCEPT !.kept = FALSE] \in Job /\ Named("legs", [NoJob EXCEPT !.kept = FALSE])
    BY NoJobTyped DEF NoJob, Job, Named
  <2> QED BY <2>1, <2>2, <2>3, GoTyped, AssembleNext
<1>3. ASSUME NEW then \in {"exits", "end"}, Reconcile(t, then) PROVE TypeInv'
  <2>1. DataOK'
    BY <1>3, <1>d, SufferKeeps DEF Reconcile, Arrives, DataOK, ExitNamed, OrderOK
  <2>2. Go(t, "pass", Snapshot(then)) /\ "pass" \in Pc
    BY <1>3 DEF Reconcile, Pc
  <2> QED BY <2>1, <2>2, SnapshotTyped, GoTyped, AssembleNext
<1>4. ASSUME NEW a \in Trades, CancelEntry(t, a) PROVE TypeInv'
  <2>1. DataOK'
    BY <1>4, <1>d, SufferKeeps DEF CancelEntry, Arrives, DataOK, ExitNamed, OrderOK
  <2>2. Go(t, "abandon", [NoJob EXCEPT !.trade = a]) /\ "abandon" \in Pc
    BY <1>4 DEF CancelEntry, Pc
  <2>3. [NoJob EXCEPT !.trade = a] \in Job /\ Named("abandon", [NoJob EXCEPT !.trade = a])
    BY NoJobTyped DEF NoJob, Job, Named
  <2> QED BY <2>1, <2>2, <2>3, GoTyped, AssembleNext
<1> QED BY <1>1, <1>2, <1>3, <1>4 DEF Request

LEMMA CycleTyped ==
    ASSUME TypeInv, NEW t \in Threads,
           (\E a \in Trades : BuyLeg(t, a)) \/ LegsFail(t) \/ LegsDone(t)
    PROVE  TypeInv'
<1>d. DataOK /\ job[t] \in Job /\ Named(pc[t], job[t])
  BY Assemble DEF TypeInv, TypeOK, JobNamed
<1> USE DEF tws, service
<1>1. ASSUME NEW a \in Trades, BuyLeg(t, a) PROVE TypeInv'
  <2>1. [state |-> "working", of |-> a, left |-> Lot] \in Order
    BY LotAssumption DEF Order
  <2>2. order' \in [Orders -> Order] /\ OrderOK'
    <3>1. a \in Orders /\ order' = [order EXCEPT ![a] = [state |-> "working", of |-> a, left |-> Lot]]
      BY <1>1 DEF BuyLeg, Orders
    <3>2. order' \in [Orders -> Order]
      BY <1>d, <2>1, <3>1 DEF DataOK
    <3>3. OrderOK'
      BY <1>d, <3>1, LotAssumption DEF DataOK, OrderOK
    <3> QED BY <3>2, <3>3
  <2>3. DataOK'
    BY <1>1, <1>d, <2>2 DEF BuyLeg, DataOK, ExitNamed
  <2> DEFINE j == [job[t] EXCEPT !.legs = @ \cup {a}, !.lead = IF @ = None THEN a ELSE @]
  <2>4. /\ j.legs = job[t].legs \cup {a} /\ j.snap = job[t].snap
        /\ j.lead = IF job[t].lead = None THEN a ELSE job[t].lead
    BY <1>d DEF Job
  <2>5. j \in Job
    BY <1>d DEF Job
  <2>6. Named("legs", j)
    <3>1. j.lead \in j.legs
      BY <1>d, <2>4, DisjointAssumption DEF Named, Orders
    <3> HIDE DEF j
    <3> QED BY <1>d, <2>4, <3>1 DEF Named
  <2>7. Go(t, "legs", j) /\ "legs" \in Pc
    BY <1>1 DEF BuyLeg, Pc
  <2> QED BY <2>3, <2>5, <2>6, <2>7, GoTyped, AssembleNext
<1>2. CASE LegsFail(t)
  <2>1. DataOK'
    BY <1>2, <1>d, SufferKeeps DEF LegsFail, DataOK, ExitNamed, OrderOK
  <2>2. Go(t, "idle", NoJob) /\ "idle" \in Pc
    BY <1>2 DEF LegsFail, Pc
  <2> QED BY <2>1, <2>2, NoJobTyped, GoTyped, AssembleNext
<1>3. CASE LegsDone(t)
  <2>1. job[t].lead \in Trades
    BY <1>3, <1>d DEF LegsDone, Named, Job
  <2> DEFINE r == [NoRecord EXCEPT !.status = "ENTRY_PENDING"]
  <2>2. r \in Records /\ r.status = "ENTRY_PENDING"
    BY DEF NoRecord, Records, Statuses, Active
  <2>3. trade' = trade \/ trade' = [trade EXCEPT ![job[t].lead] = r]
    BY <1>3 DEF LegsDone, Update
  <2>4. trade' \in [Trades -> Records] /\ ExitNamed'
    <3> HIDE DEF r
    <3> QED BY <1>d, <2>1, <2>2, <2>3 DEF DataOK, ExitNamed
  <2>5. DataOK'
    BY <1>3, <1>d, <2>4, SufferKeeps DEF LegsDone, DataOK, OrderOK
  <2>6. Go(t, "idle", NoJob) /\ "idle" \in Pc
    BY <1>3 DEF LegsDone, Pc
  <2> QED BY <2>5, <2>6, NoJobTyped, GoTyped, AssembleNext
<1> QED BY <1>1, <1>2, <1>3

LEMMA PassTyped ==
    ASSUME TypeInv, NEW t \in Threads,
           \/ \E a \in Trades : \/ EntryFilled(t, a) \/ ExitFilled(t, a) \/ ExitEnded(t, a)
                                \/ CancelStale(t, a) \/ PassOver(t, a)
           \/ Reopen(t) \/ EndPass(t) \/ Evaluate(t)
    PROVE  TypeInv'
<1>d. DataOK /\ job[t] \in Job /\ Named(pc[t], job[t])
  BY Assemble DEF TypeInv, TypeOK, JobNamed
<1> USE DEF tws, service
<1>r. \A a \in Trades :
         /\ Reopened(a) \in Records /\ Reopened(a).status = "OPEN"
         /\ [trade[a] EXCEPT !.status = "OPEN"] \in Records
         /\ [trade[a] EXCEPT !.status = "OPEN"].status = "OPEN"
         /\ [trade[a] EXCEPT !.status = "CLOSED"] \in Records
         /\ [trade[a] EXCEPT !.status = "CLOSED"].status = "CLOSED"
  BY <1>d DEF DataOK, Reopened, Records, Statuses, Active
<1>1. ASSUME NEW a \in Trades, EntryFilled(t, a) \/ ExitFilled(t, a) \/ ExitEnded(t, a)
      PROVE  TypeInv'
  BY <1>1, <1>r, SettleTyped DEF EntryFilled, ExitFilled, ExitEnded
<1>2. CASE Reopen(t)
  <2>1. job[t].trade \in Trades
    BY <1>2, <1>d DEF Reopen, Named
  <2> QED BY <1>2, <1>r, <2>1, SettleTyped DEF Reopen
<1>3. ASSUME NEW a \in Trades, CancelStale(t, a) PROVE TypeInv'
  <2> DEFINE x == job[t].snap[a].exit
  <2>1. x \in Exits
    BY <1>3, <1>d DEF CancelStale, Exiting, Named
  <2>2. /\ trade' = trade /\ held' = held /\ known' = known /\ pos' = pos
        /\ \/ order' = [order EXCEPT ![x].state = "ended"] /\ reports' = reports \cup {x}
              /\ order[x].state = "working"
           \/ order' = order /\ reports' = reports
        /\ seen' \subseteq Hazards
    BY <1>3, <1>d, SufferKeeps DEF CancelStale, DataOK
  <2>3. order' \in [Orders -> Order] /\ OrderOK'
    BY <1>d, <2>1, <2>2 DEF DataOK, OrderOK, Orders, Order
  <2>4. DataOK'
    BY <1>d, <2>1, <2>2, <2>3 DEF DataOK, ExitNamed, Orders
  <2>5. [job[t] EXCEPT !.trade = a] \in Job /\ Named("reopen", [job[t] EXCEPT !.trade = a])
    BY <1>d DEF Job, Named
  <2>6. Go(t, "reopen", [job[t] EXCEPT !.trade = a]) /\ "reopen" \in Pc
    BY <1>3 DEF CancelStale, Pc
  <2> QED BY <2>4, <2>5, <2>6, GoTyped, AssembleNext
<1>4. ASSUME NEW a \in Trades, PassOver(t, a) PROVE TypeInv'
  <2>1. DataOK'
    BY <1>4, <1>d DEF PassOver, DataOK, ExitNamed, OrderOK
  <2>2. Go(t, "pass", DoneWith(t, a)) /\ "pass" \in Pc
    BY <1>4 DEF PassOver, Pc
  <2> QED BY <2>1, <2>2, DoneTyped, GoTyped, AssembleNext
<1>5. CASE EndPass(t)
  <2>1. DataOK'
    BY <1>5, <1>d DEF EndPass, DataOK, ExitNamed, OrderOK
  <2>2. Go(t, "idle", NoJob) /\ "idle" \in Pc
    BY <1>5 DEF EndPass, Pc
  <2> QED BY <2>1, <2>2, NoJobTyped, GoTyped, AssembleNext
<1>6. CASE Evaluate(t)
  <2>1. DataOK'
    BY <1>6, <1>d DEF Evaluate, DataOK, ExitNamed, OrderOK
  <2>2. PICK S \in SUBSET Trades : Go(t, "evaluate", [NoJob EXCEPT !.todo = S])
    BY <1>6 DEF Evaluate, OpenTrades
  <2>3. [NoJob EXCEPT !.todo = S] \in Job /\ Named("evaluate", [NoJob EXCEPT !.todo = S])
    BY NoJobTyped DEF NoJob, Job, Named
  <2>4. "evaluate" \in Pc
    BY DEF Pc
  <2> QED BY <2>1, <2>2, <2>3, <2>4, GoTyped, AssembleNext
<1> QED BY <1>1, <1>2, <1>3, <1>4, <1>5, <1>6

LEMMA ExitTyped ==
    ASSUME TypeInv, NEW t \in Threads,
           \/ \E a \in Trades : Stay(t, a) \/ Exit(t, a)
           \/ SellRaises(t) \/ (\E x \in Exits : Sell(t, x))
           \/ MarkExitPending(t) \/ EndEvaluate(t) \/ Abandon(t)
    PROVE  TypeInv'
<1>d. DataOK /\ job[t] \in Job /\ Named(pc[t], job[t])
  BY Assemble DEF TypeInv, TypeOK, JobNamed
<1> USE DEF tws, service
<1>1. ASSUME NEW a \in Trades, Stay(t, a) \/ Exit(t, a) PROVE TypeInv'
  <2> DEFINE j == [job[t] EXCEPT !.todo = @ \ {a}]
  <2>1. DataOK'
    BY <1>1, <1>d, SufferKeeps DEF Stay, Exit, DataOK, ExitNamed, OrderOK
  <2>2. Go(t, "evaluate", j) \/ Go(t, "sell", [j EXCEPT !.trade = a])
    BY <1>1 DEF Stay, Exit
  <2>3. /\ j \in Job /\ Named("evaluate", j)
        /\ [j EXCEPT !.trade = a] \in Job /\ Named("sell", [j EXCEPT !.trade = a])
    BY <1>d DEF Job, Named
  <2>4. {"evaluate", "sell"} \subseteq Pc
    BY DEF Pc
  <2> HIDE DEF j
  <2> QED BY <2>1, <2>2, <2>3, <2>4, GoTyped, AssembleNext
<1>2. CASE SellRaises(t)
  <2>1. DataOK'
    BY <1>2, <1>d DEF SellRaises, DataOK, ExitNamed, OrderOK
  <2>2. Go(t, "evaluate", [job[t] EXCEPT !.trade = None]) /\ "evaluate" \in Pc
    BY <1>2 DEF SellRaises, Pc
  <2>3. /\ [job[t] EXCEPT !.trade = None] \in Job
        /\ Named("evaluate", [job[t] EXCEPT !.trade = None])
    BY <1>d DEF Job, Named
  <2> QED BY <2>1, <2>2, <2>3, GoTyped, AssembleNext
<1>3. ASSUME NEW x \in Exits, Sell(t, x) PROVE TypeInv'
  <2>1. job[t].trade \in Trades
    BY <1>3, <1>d DEF Sell, Named
  <2>2. [state |-> "working", of |-> job[t].trade, left |-> Lot] \in Order
    BY <2>1, LotAssumption DEF Order
  <2>3. order' \in [Orders -> Order] /\ OrderOK'
    BY <1>3, <1>d, <2>1, <2>2, LotAssumption, DisjointAssumption
       DEF Sell, DataOK, OrderOK, Orders
  <2>4. DataOK'
    BY <1>3, <1>d, <2>3 DEF Sell, DataOK, ExitNamed
  <2>5. Go(t, "mark", [job[t] EXCEPT !.sell = x]) /\ "mark" \in Pc
    BY <1>3 DEF Sell, Pc
  <2>6. [job[t] EXCEPT !.sell = x] \in Job /\ Named("mark", [job[t] EXCEPT !.sell = x])
    BY <1>d, <2>1 DEF Job, Named
  <2> QED BY <2>4, <2>5, <2>6, GoTyped, AssembleNext
<1>4. CASE MarkExitPending(t)
  <2>1. job[t].trade \in Trades /\ job[t].sell \in Exits
    BY <1>4, <1>d DEF MarkExitPending, Named
  <2>2. trade' \in [Trades -> Records] /\ ExitNamed'
    BY <1>4, <1>d, <2>1 DEF MarkExitPending, Update, DataOK, ExitNamed, Records, Statuses, Active
  <2>3. DataOK'
    BY <1>4, <1>d, <2>2 DEF MarkExitPending, DataOK, OrderOK
  <2> DEFINE j == [job[t] EXCEPT !.trade = None, !.sell = None]
  <2>4. j.legs = job[t].legs /\ j.lead = job[t].lead /\ j.snap = job[t].snap
    BY <1>d DEF Job
  <2>5. j \in Job
    BY <1>d DEF Job
  <2>6. Named("evaluate", j)
    <3> HIDE DEF j
    <3> QED BY <1>d, <2>4 DEF Named
  <2>7. Go(t, "evaluate", j) /\ "evaluate" \in Pc
    BY <1>4 DEF MarkExitPending, Pc
  <2> HIDE DEF j
  <2> QED BY <2>3, <2>5, <2>7, <2>6, GoTyped, AssembleNext
<1>5. CASE EndEvaluate(t)
  <2>1. DataOK'
    BY <1>5, <1>d DEF EndEvaluate, DataOK, ExitNamed, OrderOK
  <2>2. Go(t, "pass", Snapshot("end")) /\ "pass" \in Pc
    BY <1>5 DEF EndEvaluate, Pc
  <2> QED BY <2>1, <2>2, SnapshotTyped, GoTyped, AssembleNext
<1>6. CASE Abandon(t)
  <2>1. job[t].trade \in Trades
    BY <1>6, <1>d DEF Abandon, Named
  <2>2. trade' \in [Trades -> Records] /\ ExitNamed'
    BY <1>6, <1>d, <2>1 DEF Abandon, Update, DataOK, ExitNamed, Records, Statuses
  <2>3. DataOK'
    BY <1>6, <1>d, <2>2 DEF Abandon, DataOK, OrderOK
  <2>4. Go(t, "idle", NoJob) /\ "idle" \in Pc
    BY <1>6 DEF Abandon, Pc
  <2> QED BY <2>3, <2>4, NoJobTyped, GoTyped, AssembleNext
<1> QED BY <1>1, <1>2, <1>3, <1>4, <1>5, <1>6

LEMMA WorldTyped ==
    ASSUME TypeInv,
           \/ \E o \in Orders : Fill(o) \/ EndOrder(o) \/ OrderStatus(o)
           \/ \E s \in Symbols : UpdatePortfolio(s)
           \/ \E a \in Trades : Age(a)
    PROVE  TypeInv'
<1>d. DataOK
  BY Assemble
<1>t. UNCHANGED threads
  BY DEF Fill, EndOrder, OrderStatus, UpdatePortfolio, Age
<1> USE DEF tws, service
<1>1. ASSUME NEW o \in Orders, Fill(o) PROVE DataOK'
  <2>1. /\ order[o].left \in 1..Lot /\ order[o].left - 1 \in 0..Lot
        /\ order[o].of \in Trades /\ SymbolOf[order[o].of] \in Symbols
    BY <1>1, <1>d, LotAssumption DEF Fill, DataOK, OrderOK, Order, Symbols
  <2>2. Side(o) \in Int
    BY DEF Side
  <2>3. held' \in [Symbols -> Int]
    BY <1>1, <1>d, <2>1, <2>2 DEF Fill, DataOK
  <2>4. order'[o] = [state |-> IF order[o].left = 1 THEN "filled" ELSE "working",
                     of |-> order[o].of, left |-> order[o].left - 1]
        /\ \A p \in Orders : p # o => order'[p] = order[p]
    BY <1>1, <1>d DEF Fill, DataOK, Order
  <2>5. order' \in [Orders -> Order]
    <3>1. order'[o] \in Order
      BY <2>1, <2>4 DEF Order
    <3>2. DOMAIN order' = Orders /\ order' = [p \in Orders |-> order'[p]]
      BY <1>1, <1>d DEF Fill, DataOK
    <3> QED BY <1>d, <2>4, <3>1, <3>2 DEF DataOK
  <2>6. OrderOK'
    <3>1. /\ order'[o].of = order[o].of /\ order'[o].state # "none"
          /\ order'[o].state = "working" => order'[o].left > 0
      BY <2>1, <2>4
    <3>2. order[o].state # "none"
      BY <1>1 DEF Fill
    <3> QED BY <1>d, <2>1, <2>4, <3>1, <3>2 DEF OrderOK, DataOK
  <2>7. reports' \subseteq Orders /\ UNCHANGED <<trade, known, pos, seen>>
    BY <1>1, <1>d DEF Fill, DataOK
  <2> QED BY <1>d, <2>3, <2>5, <2>6, <2>7 DEF DataOK, ExitNamed
<1>2. ASSUME NEW o \in Orders, EndOrder(o) PROVE DataOK'
  <2>1. order' \in [Orders -> Order] /\ OrderOK'
    BY <1>2, <1>d DEF EndOrder, DataOK, OrderOK, Order
  <2> QED BY <1>2, <1>d, <2>1, SufferKeeps DEF EndOrder, DataOK, ExitNamed
<1>3. ASSUME NEW o \in Orders, OrderStatus(o) PROVE DataOK'
  BY <1>3, <1>d DEF OrderStatus, DataOK, ExitNamed, OrderOK
<1>4. ASSUME NEW s \in Symbols, UpdatePortfolio(s) PROVE DataOK'
  BY <1>4, <1>d DEF UpdatePortfolio, DataOK, ExitNamed, OrderOK
<1>5. ASSUME NEW a \in Trades, Age(a) PROVE DataOK'
  <2>1. /\ [trade[a] EXCEPT !.aged = TRUE] \in Records
        /\ [trade[a] EXCEPT !.aged = TRUE].status = trade[a].status
        /\ [trade[a] EXCEPT !.aged = TRUE].exit = trade[a].exit
    BY <1>d DEF DataOK, Records
  <2>2. trade' = [trade EXCEPT ![a] = [trade[a] EXCEPT !.aged = TRUE]]
    BY <1>5 DEF Age, Update
  <2>3. trade' \in [Trades -> Records] /\ ExitNamed'
    BY <1>d, <2>1, <2>2 DEF DataOK, ExitNamed
  <2> QED BY <1>5, <1>d, <2>3 DEF Age, DataOK, OrderOK
<1> QED BY <1>t, <1>1, <1>2, <1>3, <1>4, <1>5, ThreadsKept, AssembleNext

LEMMA RestartTyped == ASSUME TypeInv, Restart PROVE TypeInv'
<1>1. DataOK'
  BY Assemble, SufferKeeps DEF Restart, DataOK, ExitNamed, OrderOK, tws
<1>2. pc' \in [Threads -> Pc] /\ job' \in [Threads -> Job] /\ JobNamed'
  <2>1. \A t \in Threads : pc'[t] = "idle" /\ job'[t] = NoJob
    BY DEF Restart
  <2>2. \A t \in Threads : Named(pc'[t], job'[t])
    BY <2>1, NoJobTyped
  <2> QED BY <2>2, NoJobTyped DEF Restart, Pc, JobNamed, Named
<1> QED BY <1>1, <1>2, AssembleNext

LEMMA TypeStep == ASSUME TypeInv, [Next]_vars PROVE TypeInv'
<1>1. ASSUME UNCHANGED vars PROVE TypeInv'
  <2>1. DataOK'
    BY <1>1, Assemble DEF vars, tws, service, DataOK, ExitNamed, OrderOK
  <2> QED BY <1>1, <2>1, ThreadsKept, AssembleNext DEF vars
<1> QED BY <1>1, RequestTyped, CycleTyped, PassTyped, ExitTyped, WorldTyped, RestartTyped
        DEF Next, Continue

(* Every variable keeps its type, for any trades, symbols, lots and limits, *)
(* whichever hazards are allowed.                                           *)
THEOREM TypeCorrect == Spec => []TypeOK
<1>1. TypeInv => TypeOK
  BY DEF TypeInv
<1> QED BY <1>1, TypeInit, TypeStep, PTL DEF Spec
-----------------------------------------------------------------------------
(* The store and the broker.                                                *)

\* Orders only go on: what is over stays as it is.
Onward ==
    \A o \in Orders :
        /\ order[o].state \in {"filled", "ended"} => order'[o] = order[o]
        /\ order[o].state = "working" =>
              order'[o].state # "none" /\ order'[o].of = order[o].of

LEMMA OrdersGo == ASSUME TypeInv, [Next]_vars PROVE Onward
<1>d. /\ order \in [Orders -> Order] /\ Trades \subseteq Orders /\ Exits \subseteq Orders
      /\ \A t \in Threads, a \in Trades :
            job[t].snap[a].status = "EXIT_PENDING" => job[t].snap[a].exit \in Exits
  BY DEF TypeInv, TypeOK, Orders, JobNamed, Named
<1> USE DEF tws, service
<1>1. ASSUME order' = order PROVE Onward
  BY <1>1, <1>d DEF Onward
<1>2. ASSUME NEW o \in Orders, NEW n, order' = [order EXCEPT ![o] = n],
             order[o].state \in {"none", "working"},
             order[o].state = "working" => n.state # "none" /\ n.of = order[o].of
      PROVE  Onward
  BY <1>2, <1>d DEF Onward
<1>3. ASSUME NEW t \in Threads, NEW a \in Trades, BuyLeg(t, a) PROVE Onward
  BY <1>3, <1>2, <1>d DEF BuyLeg
<1>4. ASSUME NEW t \in Threads, NEW x \in Exits, Sell(t, x) PROVE Onward
  BY <1>4, <1>2, <1>d DEF Sell
<1>5. ASSUME NEW o \in Orders, EndOrder(o) PROVE Onward
  BY <1>5, <1>d DEF EndOrder, Onward, Order
<1>6. ASSUME NEW o \in Orders, Fill(o) PROVE Onward
  <2>1. /\ order[o].state = "working"
        /\ order' = [order EXCEPT ![o].left = @ - 1,
                                  ![o].state = IF order[o].left = 1 THEN "filled" ELSE @]
    BY <1>6 DEF Fill
  <2>2. order'[o].of = order[o].of /\ order'[o].state \in {"filled", "working"}
        /\ \A p \in Orders : p # o => order'[p] = order[p]
    BY <2>1, <1>d DEF Order
  <2> QED BY <2>1, <2>2 DEF Onward
<1>7. ASSUME NEW t \in Threads, NEW a \in Trades, CancelStale(t, a) PROVE Onward
  <2>1. job[t].snap[a].exit \in Orders
    BY <1>7, <1>d DEF CancelStale, Exiting
  <2>2. \/ order' = order
        \/ /\ order[job[t].snap[a].exit].state = "working"
           /\ order' = [order EXCEPT ![job[t].snap[a].exit].state = "ended"]
    BY <1>7 DEF CancelStale
  <2> QED BY <1>1, <1>d, <2>1, <2>2 DEF Onward, Order
<1>8. ASSUME NEW t \in Threads,
             \/ Request(t) \/ LegsFail(t) \/ LegsDone(t)
             \/ \E a \in Trades : \/ EntryFilled(t, a) \/ ExitFilled(t, a) \/ ExitEnded(t, a)
                                  \/ PassOver(t, a) \/ Stay(t, a) \/ Exit(t, a)
             \/ Reopen(t) \/ EndPass(t) \/ Evaluate(t) \/ SellRaises(t)
             \/ MarkExitPending(t) \/ EndEvaluate(t) \/ Abandon(t)
      PROVE  Onward
  BY <1>8, <1>1 DEF Request, RunOnce, ExecutePaper, Reconcile, CancelEntry, LegsFail,
     LegsDone, EntryFilled, ExitFilled, ExitEnded, PassOver, Stay, Exit, Reopen, EndPass,
     Evaluate, SellRaises, MarkExitPending, EndEvaluate, Abandon, Settles
<1>9. ASSUME \/ \E o \in Orders : OrderStatus(o)
             \/ \E s \in Symbols : UpdatePortfolio(s)
             \/ \E a \in Trades : Age(a)
             \/ Restart \/ UNCHANGED vars
      PROVE  Onward
  BY <1>9, <1>1 DEF OrderStatus, UpdatePortfolio, Age, Restart, vars
<1> QED BY <1>3, <1>4, <1>5, <1>6, <1>7, <1>8, <1>9 DEF Next, Continue

\* Record r of trade a agrees with the orders, and so does the store.
Agrees(ord, a, r) ==
    /\ r.status \in {"OPEN", "EXIT_PENDING"} => ord[a].state = "filled"
    /\ r.status = "EXIT_PENDING" => ord[r.exit].state # "none" /\ ord[r.exit].of = a

StoreAgrees(ord, store) ==
    \A a \in Trades :
        /\ Agrees(ord, a, store[a])
        /\ store[a].status = "CLOSED" =>
              \E x \in Exits : ord[x].of = a /\ ord[x].state = "filled"

\* What a thread has read agrees with the orders as well, whenever that was.
HasRead(ord, l, j) ==
    /\ \A a \in Trades : Agrees(ord, a, j.snap[a])
    /\ l \in {"evaluate", "sell", "mark"} => \A a \in j.todo : ord[a].state = "filled"
    /\ l \in {"reopen", "sell", "mark"} => ord[j.trade].state = "filled"
    /\ l = "mark" => ord[j.sell].state # "none" /\ ord[j.sell].of = j.trade

StoreInv == StoreAgrees(order, trade) /\ \A t \in Threads : HasRead(order, pc[t], job[t])

LEMMA NoJobRead == ASSUME NEW ord, NEW l \in {"idle", "legs"} PROVE HasRead(ord, l, NoJob)
  BY DEF NoJob, NoRecord, HasRead, Agrees

LEMMA AgreesStill ==
    ASSUME TypeInv, Onward, NEW a \in Trades, NEW r, Agrees(order, a, r),
           r.status = "EXIT_PENDING" => r.exit \in Exits
    PROVE  Agrees(order', a, r)
<1>1. a \in Orders /\ Exits \subseteq Orders /\ order \in [Orders -> Order]
  BY DEF Orders, TypeInv, TypeOK
<1>2. r.status = "EXIT_PENDING" => order'[r.exit].state # "none" /\ order'[r.exit].of = a
  <2> SUFFICES ASSUME r.status = "EXIT_PENDING"
               PROVE  order'[r.exit].state # "none" /\ order'[r.exit].of = a
    OBVIOUS
  <2>1. r.exit \in Orders /\ order[r.exit] \in Order
    BY <1>1
  <2>2. order[r.exit].state \in {"working", "filled", "ended"} /\ order[r.exit].of = a
    BY <2>1 DEF Agrees, Order
  <2> QED BY <2>1, <2>2 DEF Onward
<1>3. order[a].state = "filled" => order'[a].state = "filled"
  BY <1>1 DEF Onward
<1> QED BY <1>2, <1>3 DEF Agrees

LEMMA HasReadStill ==
    ASSUME TypeInv, Onward, NEW l, NEW j \in Job, Named(l, j), HasRead(order, l, j)
    PROVE  HasRead(order', l, j)
<1>1. \A a \in Trades : Agrees(order', a, j.snap[a])
  BY AgreesStill DEF HasRead, Named
<1>2. \A a \in Trades : order[a].state = "filled" => order'[a].state = "filled"
  BY DEF Onward, Orders
<1>3. l = "mark" => order'[j.sell].state # "none" /\ order'[j.sell].of = j.trade
  <2> SUFFICES ASSUME l = "mark"
               PROVE  order'[j.sell].state # "none" /\ order'[j.sell].of = j.trade
    OBVIOUS
  <2>1. j.sell \in Orders /\ order[j.sell] \in Order
    BY DEF Named, Orders, TypeInv, TypeOK
  <2>2. order[j.sell].state \in {"working", "filled", "ended"} /\ order[j.sell].of = j.trade
    BY <2>1 DEF HasRead, Order
  <2> QED BY <2>1, <2>2 DEF Onward
<1>4. l \in {"reopen", "sell", "mark"} => j.trade \in Trades
  BY DEF Named
<1>5. j.todo \subseteq Trades
  BY DEF Job
<1> QED BY <1>1, <1>2, <1>3, <1>4, <1>5 DEF HasRead

\* A thread that moves on has read what agrees with the orders.
LEMMA ReadMoves ==
    ASSUME TypeInv, StoreInv, Onward, NEW t \in Threads, NEW l, NEW j, Go(t, l, j),
           l # "idle" => HasRead(order', l, j)
    PROVE  \A u \in Threads : HasRead(order', pc'[u], job'[u])
<1> SUFFICES ASSUME NEW u \in Threads PROVE HasRead(order', pc'[u], job'[u])
  OBVIOUS
<1>1. CASE u # t
  <2>1. pc'[u] = pc[u] /\ job'[u] = job[u]
    BY <1>1, GoMoves DEF TypeInv
  <2>2. job[u] \in Job /\ Named(pc[u], job[u]) /\ HasRead(order, pc[u], job[u])
    BY DEF TypeInv, TypeOK, JobNamed, StoreInv
  <2> QED BY <2>1, <2>2, HasReadStill
<1>2. CASE u = t
  <2>1. pc'[t] = l /\ (l # "idle" => job'[t] = j) /\ (l = "idle" => job'[t] = NoJob)
    BY GoMoves DEF TypeInv
  <2>2. HasRead(order', "idle", NoJob)
    BY NoJobRead
  <2> QED BY <1>2, <2>1, <2>2
<1> QED BY <1>1, <1>2

LEMMA ReadKept ==
    ASSUME TypeInv, StoreInv, Onward, UNCHANGED threads
    PROVE  \A u \in Threads : HasRead(order', pc'[u], job'[u])
<1>1. \A u \in Threads : job[u] \in Job /\ Named(pc[u], job[u]) /\ HasRead(order, pc[u], job[u])
  BY DEF TypeInv, TypeOK, JobNamed, StoreInv
<1> QED BY <1>1, HasReadStill DEF threads

LEMMA StoreStill ==
    ASSUME TypeInv, StoreInv, Onward
    PROVE  StoreAgrees(order', trade)
<1> SUFFICES ASSUME NEW a \in Trades
             PROVE  /\ Agrees(order', a, trade[a])
                    /\ trade[a].status = "CLOSED" =>
                          \E x \in Exits : order'[x].of = a /\ order'[x].state = "filled"
  BY DEF StoreAgrees
<1>1. Agrees(order', a, trade[a])
  BY AgreesStill DEF StoreInv, StoreAgrees, TypeInv, ExitNamed
<1>2. \A x \in Exits : order[x].of = a /\ order[x].state = "filled" =>
                          order'[x].of = a /\ order'[x].state = "filled"
  BY DEF Onward, Orders
<1> QED BY <1>1, <1>2 DEF StoreInv, StoreAgrees

\* One record is written.
LEMMA StoreSet ==
    ASSUME TypeInv, StoreInv, Onward, NEW a \in Trades, NEW r,
           trade' = [trade EXCEPT ![a] = r],
           Agrees(order', a, r), 
           r.status = "CLOSED" => \E x \in Exits : order'[x].of = a /\ order'[x].state = "filled"
    PROVE  StoreAgrees(order', trade')
<1>1. trade'[a] = r /\ \A b \in Trades : b # a => trade'[b] = trade[b]
  BY DEF TypeInv, TypeOK
<1>2. StoreAgrees(order', trade)
  BY StoreStill
<1> QED BY <1>1, <1>2 DEF StoreAgrees

LEMMA DoneRead ==
    ASSUME TypeInv, StoreInv, Onward, NEW t \in Threads, NEW a \in Trades
    PROVE  HasRead(order', "pass", DoneWith(t, a))
<1>1. job[t] \in Job /\ Named(pc[t], job[t])
  BY DEF TypeInv, TypeOK, JobNamed
<1>2. \A b \in Trades : Agrees(order', b, job[t].snap[b])
  BY <1>1, AgreesStill DEF StoreInv, HasRead, Named
<1>3. Agrees(order', a, NoRecord)
  BY DEF NoRecord, Agrees
<1>4. DoneWith(t, a).snap = [job[t].snap EXCEPT ![a] = NoRecord]
      /\ job[t].snap \in [Trades -> Records]
  BY <1>1, DoneTyped DEF Job
<1>5. \A b \in Trades : Agrees(order', b, DoneWith(t, a).snap[b])
  BY <1>2, <1>3, <1>4
<1> QED BY <1>5 DEF HasRead

LEMMA SettleStep ==
    ASSUME TypeInv, StoreInv, Onward, NEW t \in Threads, NEW a \in Trades, NEW r,
           Settles(t, a, r), Agrees(order', a, r),
           r.status = "CLOSED" => \E x \in Exits : order'[x].of = a /\ order'[x].state = "filled"
    PROVE  StoreInv'
<1>1. trade' = [trade EXCEPT ![a] = r] /\ Go(t, "pass", DoneWith(t, a))
  BY DEF Settles, Update
<1>2. StoreAgrees(order', trade')
  BY <1>1, StoreSet
<1>3. \A u \in Threads : HasRead(order', pc'[u], job'[u])
  BY <1>1, DoneRead, ReadMoves
<1> QED BY <1>2, <1>3 DEF StoreInv

LEMMA StoreStep == ASSUME TypeInv, StoreInv, [Next]_vars PROVE StoreInv'
<1>o. Onward
  BY OrdersGo
<1>s. StoreAgrees(order', trade)
  BY <1>o, StoreStill
<1>d. /\ \A t \in Threads : /\ job[t] \in Job /\ Named(pc[t], job[t])
                            /\ HasRead(order, pc[t], job[t])
                            /\ HasRead(order', pc[t], job[t])
      /\ trade \in [Trades -> Records] /\ order \in [Orders -> Order]
      /\ Trades \subseteq Orders /\ Exits \subseteq Orders
  BY <1>o, HasReadStill DEF TypeInv, TypeOK, JobNamed, StoreInv, Orders
<1>q. ASSUME UNCHANGED trade, NEW t \in Threads, NEW l, NEW j, Go(t, l, j),
             l # "idle" => HasRead(order', l, j)
      PROVE  StoreInv'
  BY <1>q, <1>o, <1>s, ReadMoves DEF StoreInv
<1> USE DEF tws, service
\* Steps that read nothing and write nothing.
<1>1. ASSUME UNCHANGED <<trade, threads>> PROVE StoreInv'
  BY <1>1, <1>o, <1>s, ReadKept DEF StoreInv
<1>2. ASSUME NEW t \in Threads, RunOnce(t) \/ ExecutePaper(t) PROVE StoreInv'
  <2>1. HasRead(order', "legs", NoJob) /\ HasRead(order', "legs", [NoJob EXCEPT !.kept = FALSE])
    BY DEF HasRead, NoJob, NoRecord, Agrees
  <2> QED BY <1>2, <1>q, <2>1 DEF RunOnce, ExecutePaper
<1>3. ASSUME NEW t \in Threads, NEW then \in {"exits", "end"}, Go(t, "pass", Snapshot(then)),
             UNCHANGED trade
      PROVE  StoreInv'
  <2>1. HasRead(order', "pass", Snapshot(then))
    BY <1>s, SnapshotTyped DEF StoreAgrees, HasRead
  <2> QED BY <1>3, <1>q, <2>1
<1>4. ASSUME NEW t \in Threads, NEW a \in Trades, CancelEntry(t, a) PROVE StoreInv'
  <2>1. HasRead(order', "abandon", [NoJob EXCEPT !.trade = a])
    BY DEF HasRead, NoJob, NoRecord, Agrees
  <2> QED BY <1>4, <1>q, <2>1 DEF CancelEntry
<1>5. ASSUME NEW t \in Threads, NEW a \in Trades, BuyLeg(t, a) PROVE StoreInv'
  <2> DEFINE j == [job[t] EXCEPT !.legs = @ \cup {a}, !.lead = IF @ = None THEN a ELSE @]
  <2>1. j.snap = job[t].snap
    BY <1>d DEF Job
  <2>2. HasRead(order', "legs", j)
    <3> HIDE DEF j
    <3> QED BY <1>d, <2>1 DEF HasRead
  <2>3. Go(t, "legs", j) /\ UNCHANGED trade
    BY <1>5 DEF BuyLeg
  <2> HIDE DEF j
  <2> QED BY <1>q, <2>2, <2>3
<1>6. ASSUME NEW t \in Threads, LegsFail(t) \/ EndPass(t) PROVE StoreInv'
  BY <1>6, <1>q DEF LegsFail, EndPass
<1>7. ASSUME NEW t \in Threads, LegsDone(t) PROVE StoreInv'
  <2>1. job[t].lead \in Trades
    BY <1>7, <1>d DEF LegsDone, Named, Job
  <2> DEFINE r == [NoRecord EXCEPT !.status = "ENTRY_PENDING"]
  <2>2. Agrees(order', job[t].lead, r) /\ r.status # "CLOSED"
    BY DEF Agrees, NoRecord
  <2>3. trade' = trade \/ trade' = [trade EXCEPT ![job[t].lead] = r]
    BY <1>7 DEF LegsDone, Update
  <2>4. StoreAgrees(order', trade')
    <3> HIDE DEF r
    <3> QED BY <1>o, <1>s, <2>1, <2>2, <2>3, StoreSet
  <2>5. \A u \in Threads : HasRead(order', pc'[u], job'[u])
    BY <1>7, <1>o, ReadMoves DEF LegsDone
  <2> QED BY <2>4, <2>5 DEF StoreInv
<1>8. ASSUME NEW t \in Threads, NEW a \in Trades, EntryFilled(t, a) PROVE StoreInv'
  <2>1. order'[a].state = "filled"
    BY <1>8 DEF EntryFilled, Filled, Settles
  <2>2. Agrees(order', a, [trade[a] EXCEPT !.status = "OPEN"])
        /\ [trade[a] EXCEPT !.status = "OPEN"].status = "OPEN"
    BY <1>d, <2>1 DEF Agrees, Records
  <2> QED BY <1>8, <1>o, <2>2, SettleStep DEF EntryFilled
<1>9. ASSUME NEW t \in Threads, NEW a \in Trades, ExitFilled(t, a) PROVE StoreInv'
  <2> DEFINE x == job[t].snap[a].exit
  <2>1. x \in Exits /\ order[x].of = a /\ order[x].state = "filled"
    BY <1>9, <1>d DEF ExitFilled, Exiting, Filled, Named, HasRead, Agrees
  <2>2. order'[x].of = a /\ order'[x].state = "filled"
    BY <1>9, <2>1 DEF ExitFilled, Settles
  <2>3. Agrees(order', a, [trade[a] EXCEPT !.status = "CLOSED"])
    BY <1>d DEF Agrees, Records
  <2> QED BY <1>9, <1>o, <2>1, <2>2, <2>3, SettleStep DEF ExitFilled
<1>10. ASSUME NEW a \in Trades, order'[a].state = "filled"
       PROVE  Agrees(order', a, Reopened(a)) /\ Reopened(a).status # "CLOSED"
  <2>1. Reopened(a).status = "OPEN"
    BY <1>d DEF Reopened, Records
  <2> QED BY <1>10, <2>1 DEF Agrees
<1>11. ASSUME NEW t \in Threads, NEW a \in Trades, ExitEnded(t, a) PROVE StoreInv'
  <2>1. order'[a].state = "filled"
    BY <1>11, <1>d DEF ExitEnded, Exiting, HasRead, Agrees
  <2> QED BY <1>11, <1>o, <1>10, <2>1, SettleStep DEF ExitEnded
<1>12. ASSUME NEW t \in Threads, Reopen(t) PROVE StoreInv'
  <2>1. job[t].trade \in Trades /\ order'[job[t].trade].state = "filled"
    BY <1>12, <1>d DEF Reopen, HasRead, Named
  <2> QED BY <1>12, <1>o, <1>10, <2>1, SettleStep DEF Reopen
<1>13. ASSUME NEW t \in Threads, NEW a \in Trades, CancelStale(t, a) PROVE StoreInv'
  <2>1. order'[a].state = "filled"
    BY <1>13, <1>d DEF CancelStale, Exiting, HasRead, Agrees
  <2>2. /\ [job[t] EXCEPT !.trade = a].snap = job[t].snap
        /\ [job[t] EXCEPT !.trade = a].trade = a
    BY <1>d DEF Job
  <2>3. HasRead(order', "reopen", [job[t] EXCEPT !.trade = a])
    BY <1>d, <2>1, <2>2 DEF HasRead
  <2> QED BY <1>13, <1>q, <2>3 DEF CancelStale
<1>14. ASSUME NEW t \in Threads, NEW a \in Trades, PassOver(t, a) PROVE StoreInv'
  BY <1>14, <1>o, <1>q, DoneRead DEF PassOver
<1>15. ASSUME NEW t \in Threads, Evaluate(t) PROVE StoreInv'
  <2>1. PICK S \in SUBSET OpenTrades : Go(t, "evaluate", [NoJob EXCEPT !.todo = S])
    BY <1>15 DEF Evaluate
  <2>2. \A a \in S : order'[a].state = "filled"
    BY <1>s DEF StoreAgrees, Agrees, OpenTrades
  <2>3. HasRead(order', "evaluate", [NoJob EXCEPT !.todo = S])
    BY <2>2 DEF HasRead, NoJob, NoRecord, Agrees
  <2> QED BY <1>15, <1>q, <2>1, <2>3 DEF Evaluate
<1>16. ASSUME NEW t \in Threads, NEW a \in Trades, Stay(t, a) \/ Exit(t, a) PROVE StoreInv'
  <2> DEFINE j == [job[t] EXCEPT !.todo = @ \ {a}]
  <2>1. /\ j.snap = job[t].snap /\ j.todo = job[t].todo \ {a}
        /\ [j EXCEPT !.trade = a].snap = job[t].snap
        /\ [j EXCEPT !.trade = a].todo = job[t].todo \ {a}
        /\ [j EXCEPT !.trade = a].trade = a
    BY <1>d DEF Job
  <2>2. pc[t] = "evaluate" /\ a \in job[t].todo /\ UNCHANGED trade
        /\ (Go(t, "evaluate", j) \/ Go(t, "sell", [j EXCEPT !.trade = a]))
    BY <1>16 DEF Stay, Exit
  <2> HIDE DEF j
  <2>3. HasRead(order', "evaluate", j) /\ HasRead(order', "sell", [j EXCEPT !.trade = a])
    BY <1>d, <2>1, <2>2 DEF HasRead
  <2> QED BY <1>q, <2>2, <2>3
<1>17. ASSUME NEW t \in Threads, SellRaises(t) PROVE StoreInv'
  <2>1. /\ [job[t] EXCEPT !.trade = None].snap = job[t].snap
        /\ [job[t] EXCEPT !.trade = None].todo = job[t].todo
    BY <1>d DEF Job
  <2>2. HasRead(order', "evaluate", [job[t] EXCEPT !.trade = None])
    BY <1>17, <1>d, <2>1 DEF SellRaises, HasRead
  <2> QED BY <1>17, <1>q, <2>2 DEF SellRaises
<1>18. ASSUME NEW t \in Threads, NEW x \in Exits, Sell(t, x) PROVE StoreInv'
  <2>1. /\ [job[t] EXCEPT !.sell = x].snap = job[t].snap
        /\ [job[t] EXCEPT !.sell = x].todo = job[t].todo
        /\ [job[t] EXCEPT !.sell = x].trade = job[t].trade
        /\ [job[t] EXCEPT !.sell = x].sell = x
    BY <1>d DEF Job
  <2>2. order'[x].state # "none" /\ order'[x].of = job[t].trade
    BY <1>18, <1>d DEF Sell
  <2>3. HasRead(order', "mark", [job[t] EXCEPT !.sell = x])
    BY <1>18, <1>d, <2>1, <2>2 DEF Sell, HasRead
  <2> QED BY <1>18, <1>q, <2>3 DEF Sell
<1>19. ASSUME NEW t \in Threads, MarkExitPending(t) PROVE StoreInv'
  <2> DEFINE j == [job[t] EXCEPT !.trade = None, !.sell = None]
             r == [status |-> "EXIT_PENDING", exit |-> job[t].sell, aged |-> FALSE]
  <2>1. j.snap = job[t].snap /\ j.todo = job[t].todo
    BY <1>d DEF Job
  <2>2. Go(t, "evaluate", j) /\ pc[t] = "mark" /\ trade' = [trade EXCEPT ![job[t].trade] = r]
    BY <1>19 DEF MarkExitPending, Update
  <2>3. job[t].trade \in Trades
    BY <1>d, <2>2 DEF Named
  <2>4. Agrees(order', job[t].trade, r) /\ r.status # "CLOSED"
    BY <1>d, <2>2 DEF HasRead, Agrees
  <2> HIDE DEF j, r
  <2>5. StoreAgrees(order', trade')
    BY <1>o, <2>2, <2>3, <2>4, StoreSet
  <2>6. HasRead(order', "evaluate", j)
    BY <1>d, <2>1, <2>2 DEF HasRead
  <2>7. \A u \in Threads : HasRead(order', pc'[u], job'[u])
    BY <1>o, <2>2, <2>6, ReadMoves
  <2> QED BY <2>5, <2>7 DEF StoreInv
<1>20. ASSUME NEW t \in Threads, Abandon(t) PROVE StoreInv'
  <2> DEFINE r == [trade[job[t].trade] EXCEPT !.status = "FAILED"]
  <2>1. job[t].trade \in Trades
    BY <1>20, <1>d DEF Abandon, Named
  <2>2. r.status = "FAILED"
    BY <1>d, <2>1 DEF Records
  <2>3. trade' = [trade EXCEPT ![job[t].trade] = r] /\ Go(t, "idle", NoJob)
    BY <1>20 DEF Abandon, Update
  <2> HIDE DEF r
  <2>4. StoreAgrees(order', trade')
    BY <1>o, <2>1, <2>2, <2>3, StoreSet DEF Agrees
  <2>5. \A u \in Threads : HasRead(order', pc'[u], job'[u])
    BY <1>o, <2>3, ReadMoves
  <2> QED BY <2>4, <2>5 DEF StoreInv
<1>21. ASSUME NEW a \in Trades, Age(a) PROVE StoreInv'
  <2> DEFINE r == [trade[a] EXCEPT !.aged = TRUE]
  <2>1. r.status = trade[a].status /\ r.exit = trade[a].exit
    BY <1>d DEF Records
  <2>2. trade' = [trade EXCEPT ![a] = r] /\ UNCHANGED threads
    BY <1>21 DEF Age, Update
  <2> HIDE DEF r
  <2>3. StoreAgrees(order', trade')
    BY <1>o, <1>s, <2>1, <2>2, StoreSet DEF StoreAgrees, Agrees
  <2> QED BY <1>o, <2>2, <2>3, ReadKept DEF StoreInv
<1>22. ASSUME Restart PROVE StoreInv'
  <2>1. \A u \in Threads : HasRead(order', pc'[u], job'[u])
    BY <1>22, NoJobRead DEF Restart
  <2> QED BY <1>22, <1>s, <2>1 DEF Restart, StoreInv
<1>23. ASSUME NEW t \in Threads, NEW then \in {"exits", "end"}, Reconcile(t, then) PROVE StoreInv'
  BY <1>23, <1>3 DEF Reconcile
<1>24. ASSUME NEW t \in Threads, EndEvaluate(t) PROVE StoreInv'
  BY <1>24, <1>3 DEF EndEvaluate
<1>25. ASSUME \/ \E o \in Orders : Fill(o) \/ EndOrder(o) \/ OrderStatus(o)
              \/ \E s \in Symbols : UpdatePortfolio(s)
              \/ UNCHANGED vars
       PROVE  StoreInv'
  BY <1>25, <1>1 DEF Fill, EndOrder, OrderStatus, UpdatePortfolio, vars
<1> QED BY <1>2, <1>4, <1>5, <1>6, <1>7, <1>8, <1>9, <1>11, <1>12, <1>13, <1>14, <1>15,
           <1>16, <1>17, <1>18, <1>19, <1>20, <1>21, <1>22, <1>23, <1>24, <1>25
        DEF Next, Request, Continue

LEMMA StoreInit == Init => StoreInv
<1> SUFFICES ASSUME Init PROVE StoreInv
  OBVIOUS
<1>1. StoreAgrees(order, trade)
  BY DEF Init, StoreAgrees, Agrees, NoRecord
<1>2. \A t \in Threads : HasRead(order, pc[t], job[t])
  BY NoJobRead DEF Init
<1> QED BY <1>1, <1>2 DEF StoreInv

LEMMA StoreAlways == Spec => [](TypeInv /\ StoreInv)
  BY TypeInit, TypeStep, StoreInit, StoreStep, PTL DEF Spec

(* The store tells the truth about the broker, whichever reports were lost  *)
(* and from whichever out-of-date records a pass wrote it: an open or       *)
(* exiting trade has been bought in full, a closed one was sold in full     *)
(* (TradeReconciler.reconcile).                                             *)
THEOREM StoreHolds == Spec => []StoreIsTrue
<1>1. StoreInv => StoreIsTrue
  BY DEF StoreInv, StoreAgrees, Agrees, StoreIsTrue, Sold
<1> QED BY <1>1, StoreAlways, PTL
-----------------------------------------------------------------------------
(* What was bought is looked after.                                         *)

\* Hazards are never forgotten.
LEMMA SeenGrows == ASSUME [Next]_vars PROVE seen \subseteq seen'
<1>1. ASSUME NEW t \in Threads, Request(t) PROVE seen \subseteq seen'
  BY <1>1, SufferKeeps DEF Request, RunOnce, ExecutePaper, Reconcile, CancelEntry, Arrives
<1>2. ASSUME NEW t \in Threads, Continue(t) PROVE seen \subseteq seen'
  <2>1. ASSUME NEW a \in Trades, CancelStale(t, a) PROVE seen \subseteq seen'
    BY <2>1, SufferKeeps DEF CancelStale
  <2>2. CASE LegsFail(t) \/ LegsDone(t) \/ \E a \in Trades : Exit(t, a)
    BY <2>2, SufferKeeps DEF LegsFail, LegsDone, Exit
  <2> QED BY <1>2, <2>1, <2>2 DEF Continue, BuyLeg, EntryFilled, ExitFilled, ExitEnded,
     PassOver, Stay, Reopen, EndPass, Evaluate, SellRaises, Sell, MarkExitPending,
     EndEvaluate, Abandon, Settles
<1>3. ASSUME NEW o \in Orders, Fill(o) \/ EndOrder(o) \/ OrderStatus(o) PROVE seen \subseteq seen'
  BY <1>3, SufferKeeps DEF Fill, EndOrder, OrderStatus
<1>4. ASSUME \/ \E s \in Symbols : UpdatePortfolio(s)
             \/ \E a \in Trades : Age(a)
             \/ UNCHANGED vars
      PROVE  seen \subseteq seen'
  BY <1>4 DEF UpdatePortfolio, Age, vars
<1>5. ASSUME Restart PROVE seen \subseteq seen'
  BY <1>5, SufferKeeps DEF Restart
<1> QED BY <1>1, <1>2, <1>3, <1>4, <1>5 DEF Next

ExposureInv ==
    /\ ExposureHasACause
    /\ \A t \in Threads :
          pc[t] = "abandon" \/ (pc[t] = "legs" /\ ~job[t].kept) => "handoff" \in seen

\* An order that is not new exposes nothing that was not exposed.
LEMMA ExposedBefore ==
    ASSUME TypeInv, Onward, NEW a \in Trades, order[a].state # "none" \/ order'[a] = order[a],
           Exposed(a)'
    PROVE  Exposed(a)
<1>1. a \in Orders /\ order \in [Orders -> Order] /\ Exits \subseteq Orders
  BY DEF Orders, TypeInv, TypeOK
<1>2. ~Sold(a)
  BY <1>1 DEF Exposed, Sold, Onward
<1>3. order[a].state \in {"none", "working", "filled", "ended"}
  BY <1>1 DEF Order
<1> QED BY <1>1, <1>2, <1>3 DEF Exposed, Onward

\* A step that neither begins nor ends a cycle or a cancellation, and gives up
\* only trades that were sold or cancelled by the operator.
LEMMA ExposureCalm ==
    ASSUME TypeInv, ExposureInv, Onward, seen \subseteq seen',
           \A a \in Trades : order[a].state # "none" \/ order'[a] = order[a],
           \A a \in Trades : trade[a].status \in Active =>
              trade'[a].status \in Active \/ Sold(a)' \/ "handoff" \in seen',
           \A u \in Threads : pc[u] = "legs" \/ pc'[u] \in {"legs", "abandon"} =>
              pc'[u] = pc[u] /\ job'[u] = job[u]
    PROVE  ExposureInv'
<1>1. \A u \in Threads :
         pc'[u] = "abandon" \/ (pc'[u] = "legs" /\ ~job'[u].kept) => "handoff" \in seen'
  BY DEF ExposureInv
<1>2. ASSUME NEW a \in Trades, Exposed(a)'
      PROVE  \/ trade'[a].status \in Active
             \/ \E t \in Threads : pc'[t] = "legs" /\ a \in job'[t].legs
             \/ seen' \cap {"crash", "handoff"} # {}
  <2>1. Exposed(a) /\ ~Sold(a)'
    BY <1>2, ExposedBefore DEF Exposed
  <2>2. \/ trade[a].status \in Active
        \/ \E t \in Threads : pc[t] = "legs" /\ a \in job[t].legs
        \/ seen \cap {"crash", "handoff"} # {}
    BY <2>1 DEF ExposureInv, ExposureHasACause
  <2> QED BY <2>1, <2>2
<1> QED BY <1>1, <1>2 DEF ExposureInv, ExposureHasACause

LEMMA ExposureStep == ASSUME TypeInv, StoreInv, ExposureInv, [Next]_vars PROVE ExposureInv'
<1>o. Onward /\ seen \subseteq seen'
  BY OrdersGo, SeenGrows
<1>d. /\ \A t \in Threads : /\ job[t] \in Job /\ Named(pc[t], job[t])
                            /\ HasRead(order, pc[t], job[t])
      /\ trade \in [Trades -> Records] /\ order \in [Orders -> Order]
      /\ Trades \subseteq Orders /\ Exits \subseteq Orders
      /\ \A a \in Trades, x \in Exits : a # x
  BY DisjointAssumption DEF TypeInv, TypeOK, JobNamed, StoreInv, Orders
<1> USE DEF tws, service
\* Threads that move on within a pass or an evaluation.
<1>m. ASSUME NEW t \in Threads, NEW l, NEW j, Go(t, l, j), pc[t] # "legs",
             l \notin {"legs", "abandon"}
      PROVE  \A u \in Threads : pc[u] = "legs" \/ pc'[u] \in {"legs", "abandon"} =>
                pc'[u] = pc[u] /\ job'[u] = job[u]
  BY <1>m, GoMoves DEF TypeInv
<1>n. ASSUME UNCHANGED threads
      PROVE  \A u \in Threads : pc[u] = "legs" \/ pc'[u] \in {"legs", "abandon"} =>
                pc'[u] = pc[u] /\ job'[u] = job[u]
  BY <1>n DEF threads
\* Steps of a thread that leave the store and the entries alone.
<1>1. ASSUME NEW t \in Threads,
             \/ \E then \in {"exits", "end"} : Reconcile(t, then)
             \/ \E a \in Trades : PassOver(t, a) \/ Stay(t, a)
             \/ EndPass(t) \/ SellRaises(t) \/ EndEvaluate(t)
      PROVE  ExposureInv'
  <2>1. UNCHANGED <<trade, order>>
    BY <1>1 DEF Reconcile, PassOver, Stay, EndPass, SellRaises, EndEvaluate
  <2>2. pc[t] # "legs" /\ \E l \in {"pass", "evaluate", "idle"} : \E j : Go(t, l, j)
    BY <1>1 DEF Reconcile, Arrives, PassOver, Stay, EndPass, SellRaises, EndEvaluate
  <2>3. \A u \in Threads : pc[u] = "legs" \/ pc'[u] \in {"legs", "abandon"} =>
                pc'[u] = pc[u] /\ job'[u] = job[u]
    BY <1>m, <2>2
  <2> QED BY <1>o, <2>1, <2>3, ExposureCalm
<1>2. ASSUME NEW t \in Threads, Evaluate(t) \/ \E a \in Trades : Exit(t, a) PROVE ExposureInv'
  <2>1. UNCHANGED <<trade, order>> /\ pc[t] # "legs"
    BY <1>2 DEF Evaluate, Exit
  <2>2. CASE Evaluate(t)
    <3>1. \E j : Go(t, "evaluate", j)
      BY <2>2 DEF Evaluate
    <3> QED BY <1>o, <1>m, <2>1, <3>1, ExposureCalm
  <2>3. ASSUME NEW a \in Trades, Exit(t, a) PROVE ExposureInv'
    <3>1. \E l \in {"sell", "evaluate"} : \E j : Go(t, l, j)
      BY <2>3 DEF Exit
    <3>2. \A u \in Threads : pc[u] = "legs" \/ pc'[u] \in {"legs", "abandon"} =>
                pc'[u] = pc[u] /\ job'[u] = job[u]
      BY <1>m, <2>1, <3>1
    <3> QED BY <1>o, <2>1, <3>2, ExposureCalm
  <2> QED BY <1>2, <2>2, <2>3
<1>3. ASSUME NEW t \in Threads, NEW a \in Trades, NEW r, Settles(t, a, r), pc[t] # "legs",
             r.status \in Active \/ Sold(a)'
      PROVE  ExposureInv'
  <2>1. Go(t, "pass", DoneWith(t, a)) /\ UNCHANGED order /\ trade' = [trade EXCEPT ![a] = r]
    BY <1>3 DEF Settles, Update
  <2>2. trade'[a] = r /\ \A b \in Trades : b # a => trade'[b] = trade[b]
    BY <1>d, <2>1
  <2>3. \A b \in Trades : trade[b].status \in Active => trade'[b].status \in Active \/ Sold(b)'
    BY <1>3, <2>2
  <2> QED BY <1>o, <1>m, <1>3, <2>1, <2>3, ExposureCalm
<1>4. ASSUME NEW t \in Threads,
             \/ \E a \in Trades : EntryFilled(t, a) \/ ExitEnded(t, a)
             \/ Reopen(t)
      PROVE  ExposureInv'
  <2>1. \A a \in Trades : /\ Reopened(a).status \in Active
                          /\ [trade[a] EXCEPT !.status = "OPEN"].status \in Active
    BY <1>d DEF Reopened, Records, Active
  <2>2. pc[t] = "reopen" => job[t].trade \in Trades
    BY <1>d DEF Named
  <2> QED BY <1>3, <1>4, <2>1, <2>2 DEF EntryFilled, ExitEnded, Exiting, Reopen
<1>5. ASSUME NEW t \in Threads, NEW a \in Trades, ExitFilled(t, a) PROVE ExposureInv'
  <2> DEFINE x == job[t].snap[a].exit
  <2>1. x \in Exits /\ order[x].of = a /\ order[x].state = "filled" /\ order' = order
    BY <1>5, <1>d DEF ExitFilled, Exiting, Filled, Named, HasRead, Agrees, Settles
  <2>2. Sold(a)'
    BY <2>1 DEF Sold
  <2> QED BY <1>5, <1>3, <2>2 DEF ExitFilled, Exiting
<1>6. ASSUME NEW t \in Threads, NEW a \in Trades, CancelStale(t, a) PROVE ExposureInv'
  <2>1. job[t].snap[a].exit \in Exits
    BY <1>6, <1>d DEF CancelStale, Exiting, Named
  <2>2. \/ order' = order
        \/ order' = [order EXCEPT ![job[t].snap[a].exit].state = "ended"]
    BY <1>6 DEF CancelStale
  <2>3. \A b \in Trades : order'[b] = order[b]
    BY <1>d, <2>1, <2>2
  <2>4. Go(t, "reopen", [job[t] EXCEPT !.trade = a]) /\ UNCHANGED trade /\ pc[t] # "legs"
    BY <1>6 DEF CancelStale, Exiting
  <2> QED BY <1>o, <1>m, <2>3, <2>4, ExposureCalm
<1>7. ASSUME NEW t \in Threads, NEW x \in Exits, Sell(t, x) PROVE ExposureInv'
  <2>1. /\ \A b \in Trades : order'[b] = order[b]
        /\ UNCHANGED trade /\ pc[t] # "legs"
        /\ Go(t, "mark", [job[t] EXCEPT !.sell = x])
    BY <1>7, <1>d DEF Sell
  <2> QED BY <1>o, <1>m, <2>1, ExposureCalm
<1>8. ASSUME NEW t \in Threads, MarkExitPending(t) PROVE ExposureInv'
  <2>1. /\ \A b \in Trades : trade[b].status \in Active => trade'[b].status \in Active
        /\ UNCHANGED order /\ pc[t] # "legs"
        /\ \E j : Go(t, "evaluate", j)
    BY <1>8, <1>d DEF MarkExitPending, Update, Active
  <2> QED BY <1>o, <1>m, <2>1, ExposureCalm
<1>9. ASSUME NEW t \in Threads, Abandon(t) PROVE ExposureInv'
  <2>1. /\ "handoff" \in seen' /\ UNCHANGED order /\ pc[t] # "legs"
        /\ \E j : Go(t, "idle", j)
    BY <1>9, <1>o DEF Abandon, ExposureInv
  <2> QED BY <1>o, <1>m, <2>1, ExposureCalm
<1>10. ASSUME NEW o \in Orders, Fill(o) \/ EndOrder(o) \/ OrderStatus(o) PROVE ExposureInv'
  <2>1. UNCHANGED <<trade, threads>>
    BY <1>10 DEF Fill, EndOrder, OrderStatus
  <2>2. \A a \in Trades : order[a].state # "none" \/ order'[a] = order[a]
    BY <1>10, <1>d DEF Fill, EndOrder, OrderStatus
  <2> QED BY <1>o, <1>n, <2>1, <2>2, ExposureCalm
<1>11. ASSUME NEW a \in Trades, Age(a) PROVE ExposureInv'
  <2>1. \A b \in Trades : trade'[b].status = trade[b].status
    BY <1>11, <1>d DEF Age, Update, Records
  <2>2. UNCHANGED <<order, threads>>
    BY <1>11 DEF Age
  <2> QED BY <1>o, <1>n, <2>1, <2>2, ExposureCalm
<1>12. ASSUME (\E s \in Symbols : UpdatePortfolio(s)) \/ UNCHANGED vars PROVE ExposureInv'
  <2>1. UNCHANGED <<trade, order, threads>>
    BY <1>12 DEF UpdatePortfolio, vars
  <2> QED BY <1>o, <1>n, <2>1, ExposureCalm
\* A cycle begins, or the operator cancels an entry.
<1>13. ASSUME NEW t \in Threads,
              RunOnce(t) \/ ExecutePaper(t) \/ \E a \in Trades : CancelEntry(t, a)
       PROVE  ExposureInv'
  <2>1. /\ UNCHANGED <<trade, order>> /\ pc[t] = "idle"
        /\ \A u \in Threads : u # t => pc'[u] = pc[u] /\ job'[u] = job[u]
    BY <1>13, GoMoves DEF RunOnce, ExecutePaper, CancelEntry, Arrives, TypeInv
  <2>2. (pc'[t] = "legs" /\ job'[t].kept) \/ "handoff" \in seen'
    <3>1. CASE RunOnce(t)
      BY <3>1, GoMoves DEF RunOnce, TypeInv, NoJob
    <3>2. CASE ExecutePaper(t) \/ \E a \in Trades : CancelEntry(t, a)
      <4>1. PICK H : Suffer({"handoff"} \cup H)
        BY <3>2 DEF ExecutePaper, CancelEntry, Arrives
      <4> QED BY <4>1, SufferKeeps
    <3> QED BY <1>13, <3>1, <3>2
  <2>3. \A a \in Trades : Exposed(a)' = Exposed(a)
    BY <2>1 DEF Exposed, Sold
  <2>4. ExposureHasACause'
    BY <1>o, <2>1, <2>3 DEF ExposureInv, ExposureHasACause
  <2>5. \A u \in Threads :
           pc'[u] = "abandon" \/ (pc'[u] = "legs" /\ ~job'[u].kept) => "handoff" \in seen'
    BY <1>o, <2>1, <2>2 DEF ExposureInv
  <2> QED BY <2>4, <2>5 DEF ExposureInv
<1>14. ASSUME NEW t \in Threads, NEW a \in Trades, BuyLeg(t, a) PROVE ExposureInv'
  <2> DEFINE j == [job[t] EXCEPT !.legs = @ \cup {a}, !.lead = IF @ = None THEN a ELSE @]
  <2>1. j.legs = job[t].legs \cup {a} /\ j.kept = job[t].kept
    BY <1>d DEF Job
  <2>2. Go(t, "legs", j) /\ UNCHANGED <<trade, seen>> /\ pc[t] = "legs"
        /\ \A b \in Trades : b # a => order'[b] = order[b]
    BY <1>14, <1>d DEF BuyLeg
  <2> HIDE DEF j
  <2>3. pc'[t] = "legs" /\ job'[t] = j
        /\ \A u \in Threads : u # t => pc'[u] = pc[u] /\ job'[u] = job[u]
    BY <2>2, GoMoves DEF TypeInv
  <2>4. \A b \in Trades : b # a /\ Exposed(b)' => Exposed(b)
    BY <1>o, <2>2, ExposedBefore
  <2>5. ExposureHasACause'
    BY <2>1, <2>2, <2>3, <2>4 DEF ExposureInv, ExposureHasACause
  <2>6. \A u \in Threads :
           pc'[u] = "abandon" \/ (pc'[u] = "legs" /\ ~job'[u].kept) => "handoff" \in seen'
    BY <1>o, <2>1, <2>2, <2>3 DEF ExposureInv
  <2> QED BY <2>5, <2>6 DEF ExposureInv
\* A cycle ends.
<1>15. ASSUME NEW t \in Threads, LegsFail(t) \/ LegsDone(t) PROVE ExposureInv'
  <2>1. /\ UNCHANGED order /\ pc[t] = "legs" /\ pc'[t] = "idle"
        /\ \A u \in Threads : u # t => pc'[u] = pc[u] /\ job'[u] = job[u]
    BY <1>15, GoMoves DEF LegsFail, LegsDone, TypeInv
  <2>2. \A a \in job[t].legs : trade'[a].status \in Active \/ "handoff" \in seen'
    <3>1. CASE LegsFail(t)
      BY <3>1, SufferKeeps DEF LegsFail
    <3>2. CASE LegsDone(t) /\ job[t].kept
      <4>1. job[t].lead \in Trades
        BY <3>2, <1>d DEF LegsDone, Named, Job
      <4>2. trade'[job[t].lead].status \in Active
        BY <3>2, <1>d, <4>1 DEF LegsDone, Update, NoRecord, Active
      <4>3. job[t].legs = {job[t].lead} \/ "handoff" \in seen'
        BY <3>2, SufferKeeps DEF LegsDone
      <4> QED BY <4>2, <4>3
    <3>3. CASE ~job[t].kept
      BY <1>o, <2>1, <3>3 DEF ExposureInv
    <3> QED BY <1>15, <3>1, <3>2, <3>3
  <2>3. \A a \in Trades : trade[a].status \in Active => trade'[a].status \in Active
    BY <1>15, <1>d DEF LegsFail, LegsDone, Update, NoRecord, Active
  <2>4. \A a \in Trades : Exposed(a)' = Exposed(a)
    BY <2>1 DEF Exposed, Sold
  <2>5. ExposureHasACause'
    BY <1>o, <2>1, <2>2, <2>3, <2>4 DEF ExposureInv, ExposureHasACause
  <2>6. \A u \in Threads :
           pc'[u] = "abandon" \/ (pc'[u] = "legs" /\ ~job'[u].kept) => "handoff" \in seen'
    BY <1>o, <2>1 DEF ExposureInv
  <2> QED BY <2>5, <2>6 DEF ExposureInv
<1>16. ASSUME Restart PROVE ExposureInv'
  <2>1. /\ UNCHANGED <<trade, order>> /\ \A u \in Threads : pc'[u] = "idle"
        /\ (\E u \in Threads : pc[u] # "idle") => "crash" \in seen'
    BY <1>16, SufferKeeps DEF Restart, Busy
  <2>2. \A a \in Trades : Exposed(a)' = Exposed(a)
    BY <2>1 DEF Exposed, Sold
  <2> QED BY <1>o, <2>1, <2>2 DEF ExposureInv, ExposureHasACause
<1> QED BY <1>1, <1>2, <1>4, <1>5, <1>6, <1>7, <1>8, <1>9, <1>10, <1>11, <1>12, <1>13, <1>14,
           <1>15, <1>16
        DEF Next, Request, Continue

LEMMA ExposureInit == Init => ExposureInv
  BY LotAssumption DEF Init, ExposureInv, ExposureHasACause, Exposed, NoOrder, Orders

(* Shares that were or may be bought, and were not sold, belong to a trade  *)
(* somebody looks after, for any number of trades and requests at once;     *)
(* the exceptions are a process that ends within a cycle, a basket, the     *)
(* engine without the runner, and the operator's cancellation (run_once,    *)
(* reconcile, evaluate_open_trades).                                        *)
THEOREM ExposureHolds == Spec => []ExposureHasACause
<1>1. ExposureInv => ExposureHasACause
  BY DEF ExposureInv
<1> QED BY <1>1, StoreAlways, ExposureInit, ExposureStep, PTL DEF Spec
-----------------------------------------------------------------------------
(* An exit is sold once.                                                    *)

\* No hazard that lets two steps of a request come apart.
Calm == seen \cap {"overlap", "crash", "cancel"} = {}

\* The one request at work.
Alone == \A t, u \in Threads : pc[t] # "idle" /\ pc[u] # "idle" => t = u

\* Exit x sells, or has sold and its fill will be heard of.
Live(x) == order[x].state = "working" \/ (order[x].state = "filled" /\ "unheard" \notin seen)

\* What a thread goes by is so.
Current(l, j) ==
    /\ l \in {"sell", "mark", "abandon"} => trade[j.trade].status = "OPEN"
    /\ l \in {"evaluate", "sell", "mark"} => \A a \in j.todo : trade[a].status = "OPEN"
    /\ l \in {"sell", "mark"} => j.trade \notin j.todo
    /\ l \in {"pass", "reopen"} =>
          \A a \in j.todo : /\ j.snap[a].status = trade[a].status
                            /\ j.snap[a].exit = trade[a].exit
    /\ l = "reopen" => /\ j.trade \in j.todo
                       /\ trade[j.trade].status = "EXIT_PENDING"
                       /\ ~Live(trade[j.trade].exit)
    /\ l = "legs" => \A a \in j.legs : order[a].state # "none" /\ trade[a].status = "none"

\* A live exit is the one its trade has, or is about to have, or was closed by.
Has(x) ==
    LET a == order[x].of
    IN  \/ trade[a].status = "EXIT_PENDING" /\ trade[a].exit = x
        \/ \E t \in Threads : pc[t] = "mark" /\ job[t].sell = x /\ job[t].trade = a
        \/ trade[a].status = "CLOSED" /\ order[x].state = "filled"

AllCurrent == \A t \in Threads : Current(pc[t], job[t])

Unbought == \A a \in Trades : order[a].state = "none" => trade[a].status = "none"
LiveHad  == \A x \in Exits : Live(x) => Has(x)
Once     == \A x, y \in Exits : Live(x) /\ Live(y) /\ order[x].of = order[y].of => x = y

SellInv ==
    Calm => /\ Alone /\ Unbought /\ LiveHad /\ Once
            /\ AllCurrent

LEMMA CalmBefore == ASSUME [Next]_vars, Calm' PROVE Calm /\ seen \subseteq seen'
  BY SeenGrows DEF Calm

\* An exit that lives after a step, and was not sold in it, lived before it.
LEMMA LiveBefore ==
    ASSUME TypeInv, Onward, seen \subseteq seen', NEW x \in Exits, Live(x)', order[x].state # "none"
    PROVE  Live(x) /\ order'[x].of = order[x].of
<1>1. x \in Orders /\ order[x].state \in {"working", "filled", "ended"}
  BY DEF Orders, TypeInv, TypeOK, Order
<1> QED BY <1>1 DEF Onward, Live

LEMMA OneMoves ==
    ASSUME TypeInv, NEW t \in Threads, NEW l, NEW j, Go(t, l, j),
           \A u \in Threads : u # t => pc[u] = "idle",
           l # "idle" => Current(l, j)'
    PROVE  Alone' /\ AllCurrent'
<1>1. /\ pc'[t] = l /\ (l # "idle" => job'[t] = j)
      /\ \A u \in Threads : u # t => pc'[u] = "idle"
  BY GoMoves DEF TypeInv
<1>2. Alone'
  BY <1>1 DEF Alone
<1>3. ASSUME NEW u \in Threads PROVE Current(pc[u], job[u])'
  <2>1. CASE pc'[u] = "idle"
    BY <2>1 DEF Current
  <2>2. CASE pc'[u] # "idle"
    BY <1>1, <2>2
  <2> QED BY <2>1, <2>2
<1> QED BY <1>2, <1>3 DEF AllCurrent

\* A step that begins no exit, leaves the thread that may be about to record one
\* as it is, and takes no live exit from its trade.
LEMMA HadStill ==
    ASSUME TypeInv, Onward, seen \subseteq seen', LiveHad, Once, Unbought,
           (\A u \in Threads : pc[u] # "mark") \/ UNCHANGED threads,
           \A x \in Exits : Live(x)' =>
              /\ order[x].state # "none"
              /\ LET a == order[x].of
                 IN  \/ trade'[a].status = trade[a].status /\ trade'[a].exit = trade[a].exit
                     \/ trade'[a].status = "CLOSED" /\ order[x].state = "filled",
           \A a \in Trades : trade'[a].status = trade[a].status \/ order[a].state # "none"
    PROVE  LiveHad' /\ Once' /\ Unbought'
<1>1. \A x \in Exits : Live(x)' => Live(x) /\ order'[x].of = order[x].of
  BY LiveBefore
<1>2. \A x \in Exits : order[x].state = "filled" => order'[x].state = "filled"
  BY DEF Onward, Orders
<1>3. LiveHad'
  <2> SUFFICES ASSUME NEW x \in Exits, Live(x)' PROVE Has(x)'
    BY DEF LiveHad
  <2>1. Has(x) /\ order'[x].of = order[x].of
    BY <1>1 DEF LiveHad
  <2>2. CASE \E u \in Threads : pc[u] = "mark" /\ job[u].sell = x /\ job[u].trade = order[x].of
    BY <2>1, <2>2 DEF Has, threads
  <2>3. CASE \/ trade[order[x].of].status = "EXIT_PENDING" /\ trade[order[x].of].exit = x
             \/ trade[order[x].of].status = "CLOSED" /\ order[x].state = "filled"
    BY <1>2, <2>1, <2>3 DEF Has
  <2> QED BY <2>1, <2>2, <2>3 DEF Has
<1>4. Once'
  BY <1>1 DEF Once
<1>5. Unbought'
  <2> SUFFICES ASSUME NEW a \in Trades, order'[a].state = "none" PROVE trade'[a].status = "none"
    BY DEF Unbought
  <2>1. a \in Orders /\ order[a].state \in {"none", "working", "filled", "ended"}
    BY DEF Orders, TypeInv, TypeOK, Order
  <2>2. order[a].state = "none"
    BY <2>1 DEF Onward
  <2> QED BY <2>2 DEF Unbought
<1> QED BY <1>3, <1>4, <1>5

\* What there is to know before a step of a thread.
Before(t) ==
    /\ TypeInv /\ StoreInv /\ Onward /\ seen \subseteq seen'
    /\ LiveHad /\ Once /\ Unbought
    /\ Current(pc[t], job[t])
    /\ \A u \in Threads : u # t => pc[u] = "idle"

LEMMA ThreadsBefore ==
    ASSUME TypeInv, StoreInv, SellInv, [Next]_vars, Calm', NEW t \in Threads,
           pc[t] = "idle" => ~Busy
    PROVE  Before(t)
<1>1. Calm /\ seen \subseteq seen' /\ Onward
  BY CalmBefore, OrdersGo
<1>2. \A u \in Threads : u # t => pc[u] = "idle"
  BY <1>1 DEF SellInv, Alone, Busy
<1> QED BY <1>1, <1>2 DEF Before, SellInv, AllCurrent

LEMMA SellAfter ==
    ASSUME Alone', AllCurrent', LiveHad', Once', Unbought' PROVE SellInv'
  BY DEF SellInv

\* A thread moves on, and leaves the store and the orders alone.
LEMMA SellCalm ==
    ASSUME NEW t \in Threads, Before(t), UNCHANGED <<trade, order>>, pc[t] # "mark",
           NEW l, NEW j, Go(t, l, j), l # "idle" => Current(l, j)'
    PROVE  SellInv'
<1>1. TypeInv /\ \A u \in Threads : pc[u] # "mark"
  BY DEF Before
<1>2. ASSUME NEW x \in Exits, Live(x)' PROVE order[x].state # "none"
  BY <1>2 DEF Live
<1>3. LiveHad' /\ Once' /\ Unbought'
  BY <1>1, <1>2, HadStill DEF Before
<1>4. Alone' /\ AllCurrent'
  BY OneMoves DEF Before
<1> QED BY <1>3, <1>4, SellAfter

LEMMA SellRequest ==
    ASSUME NEW t \in Threads, Before(t), Calm', Request(t)
    PROVE  SellInv'
<1>1. CASE RunOnce(t) \/ ExecutePaper(t)
  <2>1. PICK j : Go(t, "legs", j) /\ j.legs = {}
    BY <1>1 DEF RunOnce, ExecutePaper, NoJob
  <2>2. Current("legs", j)'
    BY <2>1 DEF Current
  <2> QED BY <1>1, <2>1, <2>2, SellCalm DEF RunOnce, ExecutePaper, Arrives, tws
<1>2. ASSUME NEW then \in {"exits", "end"}, Reconcile(t, then) PROVE SellInv'
  <2>1. PICK j : j = Snapshot(then)
    OBVIOUS
  <2>2. UNCHANGED <<trade, order>> /\ Go(t, "pass", j) /\ pc[t] = "idle"
    BY <1>2, <2>1 DEF Reconcile, Arrives, tws
  <2>3. j.snap = trade
    BY <2>1, SnapshotTyped DEF Before
  <2>4. Current("pass", j)'
    BY <2>2, <2>3 DEF Current
  <2> QED BY <2>2, <2>4, SellCalm
<1>3. ASSUME NEW a \in Trades, CancelEntry(t, a) PROVE SellInv'
  <2>1. PICK j : Go(t, "abandon", j) /\ j.trade = a
    BY <1>3 DEF CancelEntry, NoJob
  <2>2. UNCHANGED <<trade, order>> /\ trade[a].status = "OPEN" /\ pc[t] = "idle"
    BY <1>3 DEF CancelEntry, Arrives, tws
  <2>3. Current("abandon", j)'
    BY <2>1, <2>2 DEF Current
  <2> QED BY <2>1, <2>2, <2>3, SellCalm
<1> QED BY <1>1, <1>2, <1>3 DEF Request

LEMMA SellLegs ==
    ASSUME NEW t \in Threads, Before(t), Calm',
           (\E a \in Trades : BuyLeg(t, a)) \/ LegsFail(t) \/ LegsDone(t)
    PROVE  SellInv'
<1>d. /\ TypeInv /\ job[t] \in Job /\ Named(pc[t], job[t]) /\ trade \in [Trades -> Records]
      /\ order \in [Orders -> Order] /\ Trades \subseteq Orders /\ Exits \subseteq Orders
      /\ \A b \in Trades, x \in Exits : b # x
      /\ \A u \in Threads : u # t => pc[u] = "idle"
  BY DisjointAssumption DEF Before, TypeInv, TypeOK, JobNamed, Orders
<1> USE DEF tws, service
<1>1. ASSUME NEW a \in Trades, BuyLeg(t, a) PROVE SellInv'
  <2> DEFINE e == [job[t] EXCEPT !.legs = @ \cup {a}, !.lead = IF @ = None THEN a ELSE @]
  <2>1. e.legs = job[t].legs \cup {a}
    BY <1>d DEF Job
  <2>2. Go(t, "legs", e) /\ UNCHANGED trade /\ pc[t] = "legs" /\ order[a].state = "none"
    BY <1>1 DEF BuyLeg
  <2>3. /\ order'[a].state # "none"
        /\ \A o \in Orders : o # a => order'[o] = order[o]
    BY <1>1, <1>d DEF BuyLeg
  <2> HIDE DEF e
  <2>4. PICK j : j = e
    OBVIOUS
  <2>5. Current("legs", j)'
    <3>1. \A b \in job[t].legs : order[b].state # "none" /\ trade[b].status = "none"
      BY <2>2 DEF Before, Current
    <3>2. trade[a].status = "none"
      BY <2>2 DEF Before, Unbought
    <3>3. job[t].legs \subseteq Trades
      BY <1>d DEF Job
    <3> QED BY <1>d, <2>1, <2>2, <2>3, <2>4, <3>1, <3>2, <3>3 DEF Current
  <2>6. Alone' /\ AllCurrent'
    BY <1>d, <2>2, <2>4, <2>5, OneMoves
  <2>7. ASSUME NEW x \in Exits, Live(x)' PROVE order[x].state # "none"
    BY <1>d, <2>3, <2>7 DEF Live
  <2>8. \A u \in Threads : pc[u] # "mark"
    BY <1>d, <2>2
  <2>9. LiveHad' /\ Once' /\ Unbought'
    BY <2>2, <2>7, <2>8, HadStill DEF Before
  <2> QED BY <2>6, <2>9, SellAfter
<1>2. CASE LegsFail(t)
  <2>1. \E j : Go(t, "idle", j)
    BY <1>2 DEF LegsFail
  <2> QED BY <1>2, <2>1, SellCalm DEF LegsFail
<1>3. CASE LegsDone(t)
  <2> DEFINE a == job[t].lead
  <2>1. a \in Trades /\ pc[t] = "legs" /\ UNCHANGED order /\ Go(t, "idle", NoJob)
    BY <1>3, <1>d DEF LegsDone, Named, Job
  <2>2. order[a].state # "none" /\ trade[a].status = "none"
    BY <1>3, <1>d DEF LegsDone, Named, Before, Current
  <2>3. \A b \in Trades : b # a => trade'[b] = trade[b]
    BY <1>3, <1>d, <2>1 DEF LegsDone, Update
  <2>4. Alone' /\ AllCurrent'
    BY <1>d, <2>1, OneMoves
  <2>5. \A u \in Threads : pc[u] # "mark"
    BY <1>d, <2>1
  <2> HIDE DEF a
  <2>6. ASSUME NEW x \in Exits, Live(x)'
        PROVE  /\ order[x].state # "none"
               /\ trade'[order[x].of] = trade[order[x].of]
    <3>1. Live(x) /\ order[x].state # "none"
      BY <2>1, <2>6 DEF Live, Before
    <3>2. Has(x)
      BY <3>1 DEF Before, LiveHad
    <3>3. order[x].of # a
      BY <2>2, <2>5, <3>2 DEF Has
    <3>4. order[x].of \in Trades
      BY <1>d, <3>1 DEF TypeInv, OrderOK
    <3> QED BY <2>3, <3>1, <3>3, <3>4
  <2>7. LiveHad' /\ Once' /\ Unbought'
    BY <1>d, <2>2, <2>3, <2>5, <2>6, HadStill DEF Before
  <2> QED BY <2>4, <2>7, SellAfter
<1> QED BY <1>1, <1>2, <1>3

\* A trade of the pass is written; if it had a live exit, it is closed by that.
LEMMA SellSettles ==
    ASSUME NEW t \in Threads, Before(t), NEW a \in Trades, NEW r, Settles(t, a, r),
           pc[t] \in {"pass", "reopen"}, trade[a].status # "none",
           \A x \in Exits : Live(x) /\ order[x].of = a =>
              r.status = "CLOSED" /\ order[x].state = "filled"
    PROVE  SellInv'
<1>d. /\ TypeInv /\ job[t] \in Job /\ trade \in [Trades -> Records]
      /\ \A u \in Threads : u # t => pc[u] = "idle"
  BY DEF Before, TypeInv, TypeOK
<1>1. /\ UNCHANGED order /\ Go(t, "pass", DoneWith(t, a))
      /\ trade'[a] = r /\ \A b \in Trades : b # a => trade'[b] = trade[b]
  BY <1>d DEF Settles, Update, tws
<1>2. PICK j : j = DoneWith(t, a)
  OBVIOUS
<1>3. j.todo = job[t].todo \ {a} /\ \A b \in Trades : b # a => j.snap[b] = job[t].snap[b]
  <2>1. /\ DoneWith(t, a).snap = [job[t].snap EXCEPT ![a] = NoRecord]
        /\ DoneWith(t, a).todo = job[t].todo \ {a}
    BY <1>d, DoneTyped
  <2>2. job[t].snap \in [Trades -> Records]
    BY <1>d DEF Job
  <2> QED BY <1>2, <2>1, <2>2
<1>4. Current("pass", j)'
  <2>1. \A b \in job[t].todo : /\ job[t].snap[b].status = trade[b].status
                               /\ job[t].snap[b].exit = trade[b].exit
    BY DEF Before, Current
  <2>2. job[t].todo \subseteq Trades
    BY <1>d DEF Job
  <2> QED BY <1>1, <1>3, <2>1, <2>2 DEF Current
<1>5. Alone' /\ AllCurrent'
  BY <1>d, <1>1, <1>2, <1>4, OneMoves
<1>6. \A u \in Threads : pc[u] # "mark"
  BY <1>d
<1>7. ASSUME NEW x \in Exits, Live(x)'
      PROVE  /\ order[x].state # "none"
             /\ \/ trade'[order[x].of] = trade[order[x].of]
                \/ trade'[order[x].of].status = "CLOSED" /\ order[x].state = "filled"
  <2>1. Live(x) /\ order[x].state # "none"
    BY <1>1, <1>7 DEF Live, Before
  <2>2. order[x].of \in Trades
    BY <1>d, <2>1 DEF TypeInv, OrderOK, Orders
  <2> QED BY <1>1, <2>1, <2>2
<1>8. \A b \in Trades : trade'[b].status = trade[b].status \/ order[b].state # "none"
  BY <1>1 DEF Before, Unbought
<1>9. LiveHad' /\ Once' /\ Unbought'
  BY <1>d, <1>6, <1>7, <1>8, HadStill DEF Before
<1> QED BY <1>5, <1>9, SellAfter

LEMMA SellPass ==
    ASSUME NEW t \in Threads, Before(t), Calm',
           \/ \E a \in Trades : \/ EntryFilled(t, a) \/ ExitFilled(t, a) \/ ExitEnded(t, a)
                                \/ CancelStale(t, a) \/ PassOver(t, a)
           \/ Reopen(t) \/ EndPass(t) \/ Evaluate(t)
    PROVE  SellInv'
<1>d. /\ TypeInv /\ job[t] \in Job /\ trade \in [Trades -> Records]
      /\ order \in [Orders -> Order] /\ Exits \subseteq Orders
      /\ Named(pc[t], job[t]) /\ HasRead(order, pc[t], job[t])
      /\ Current(pc[t], job[t]) /\ \A u \in Threads : u # t => pc[u] = "idle"
  BY DEF Before, TypeInv, TypeOK, JobNamed, StoreInv, Orders
\* A trade that is not being recorded as exiting has the live exit it says.
<1>h. ASSUME NEW a \in Trades, NEW x \in Exits, Live(x), order[x].of = a,
             pc[t] \in {"pass", "reopen"}
      PROVE  \/ trade[a].status = "EXIT_PENDING" /\ trade[a].exit = x
             \/ trade[a].status = "CLOSED"
  <2>1. Has(x)
    BY <1>h DEF Before, LiveHad
  <2>2. \A u \in Threads : pc[u] # "mark"
    BY <1>d, <1>h
  <2> QED BY <1>h, <2>1, <2>2 DEF Has
<1> USE DEF tws, service
<1>1. ASSUME NEW a \in Trades, EntryFilled(t, a) PROVE SellInv'
  <2>1. trade[a].status = "ENTRY_PENDING" /\ pc[t] = "pass"
    BY <1>1, <1>d DEF EntryFilled, Current
  <2>2. \A x \in Exits : Live(x) => order[x].of # a
    BY <1>h, <2>1
  <2> QED BY <1>1, <2>1, <2>2, SellSettles DEF EntryFilled
<1>e. ASSUME NEW a \in Trades, Exiting(t, a)
      PROVE  /\ pc[t] = "pass" /\ a \in job[t].todo
             /\ trade[a].status = "EXIT_PENDING" /\ trade[a].exit = job[t].snap[a].exit
             /\ trade[a].exit \in Exits /\ order[trade[a].exit].of = a
             /\ \A x \in Exits : Live(x) /\ order[x].of = a => x = trade[a].exit
  <2>1. /\ pc[t] = "pass" /\ a \in job[t].todo
        /\ trade[a].status = "EXIT_PENDING" /\ trade[a].exit = job[t].snap[a].exit
        /\ trade[a].exit \in Exits /\ order[trade[a].exit].of = a
    BY <1>e, <1>d DEF Exiting, Current, Named, HasRead, Agrees
  <2> QED BY <1>h, <2>1
<1>2. ASSUME NEW a \in Trades, ExitFilled(t, a) PROVE SellInv'
  <2>1. Exiting(t, a) /\ order[job[t].snap[a].exit].state = "filled"
    BY <1>2 DEF ExitFilled, Filled
  <2>2. [trade[a] EXCEPT !.status = "CLOSED"].status = "CLOSED"
    BY <1>d DEF Records
  <2> DEFINE r == [trade[a] EXCEPT !.status = "CLOSED"]
  <2>3. Settles(t, a, r) /\ pc[t] = "pass" /\ trade[a].status # "none"
    BY <1>2, <1>e, <2>1 DEF ExitFilled
  <2>4. \A x \in Exits : Live(x) /\ order[x].of = a =>
           r.status = "CLOSED" /\ order[x].state = "filled"
    BY <1>e, <2>1, <2>2
  <2> HIDE DEF r
  <2> QED BY <2>3, <2>4, SellSettles
<1>3. ASSUME NEW a \in Trades, ExitEnded(t, a) PROVE SellInv'
  <2>1. Exiting(t, a) /\ order[job[t].snap[a].exit].state = "ended"
    BY <1>3 DEF ExitEnded, Ended
  <2>2. \A x \in Exits : Live(x) => order[x].of # a
    BY <1>e, <2>1 DEF Live
  <2> QED BY <1>3, <1>e, <2>1, <2>2, SellSettles DEF ExitEnded
<1>4. CASE Reopen(t)
  <2> DEFINE a == job[t].trade
  <2>1. pc[t] = "reopen" /\ Settles(t, a, Reopened(a))
    BY <1>4 DEF Reopen
  <2>2. a \in Trades /\ trade[a].status = "EXIT_PENDING" /\ ~Live(trade[a].exit)
    BY <1>d, <2>1 DEF Named, Current
  <2> HIDE DEF a
  <2>3. \A x \in Exits : Live(x) => order[x].of # a
    BY <1>h, <2>1, <2>2
  <2> QED BY <2>1, <2>2, <2>3, SellSettles
<1>5. ASSUME NEW a \in Trades, CancelStale(t, a) PROVE SellInv'
  <2>x. PICK x : x = job[t].snap[a].exit
    OBVIOUS
  <2>1. /\ Exiting(t, a) /\ UNCHANGED trade
        /\ Go(t, "reopen", [job[t] EXCEPT !.trade = a])
    BY <1>5 DEF CancelStale
  <2>2. x \in Exits /\ trade[a].exit = x
    BY <1>e, <2>1, <2>x
  <2>3. \/ order[x].state = "working" /\ order' = [order EXCEPT ![x].state = "ended"]
        \/ order[x].state # "working" /\ order' = order
           /\ (order[x].state = "filled" => "unheard" \in seen')
    <3>1. ASSUME Suffer({"cancel"}) PROVE FALSE
      BY <3>1, SufferKeeps DEF Calm
    <3> QED BY <1>5, <2>x, <3>1, SufferKeeps DEF CancelStale
  <2>4. ~Live(x)'
    <3>1. order'[x].state = "ended" \/ (order'[x].state # "working" /\
             (order'[x].state = "filled" => "unheard" \in seen'))
      BY <1>d, <2>2, <2>3 DEF Order
    <3> QED BY <3>1 DEF Live
  <2>5. \A y \in Exits : order[y].state = "none" => order'[y].state = "none"
    BY <1>d, <2>2, <2>3
  <2>6. PICK j : j = [job[t] EXCEPT !.trade = a]
    OBVIOUS
  <2>7. j.trade = a /\ j.todo = job[t].todo /\ j.snap = job[t].snap
    BY <1>d, <2>6 DEF Job
  <2>8. Current("reopen", j)'
    <3>1. \A b \in job[t].todo : /\ job[t].snap[b].status = trade[b].status
                                 /\ job[t].snap[b].exit = trade[b].exit
      BY <1>d, <1>e, <2>1 DEF Current
    <3>2. a \in job[t].todo /\ trade[a].status = "EXIT_PENDING"
      BY <1>e, <2>1
    <3>3. ~Live(trade[a].exit)'
      BY <2>1, <2>2, <2>4 DEF Live
    <3> QED BY <2>1, <2>7, <3>1, <3>2, <3>3 DEF Current
  <2>9. Alone' /\ AllCurrent'
    BY <1>d, <2>1, <2>6, <2>8, OneMoves
  <2>10. \A y \in Exits : Live(y)' => order[y].state # "none"
    BY <2>5 DEF Live
  <2>11. \A u \in Threads : pc[u] # "mark"
    BY <1>d, <1>e, <2>1
  <2>12. LiveHad' /\ Once' /\ Unbought'
    BY <2>1, <2>10, <2>11, HadStill DEF Before
  <2> QED BY <2>9, <2>12, SellAfter
<1>6. ASSUME NEW a \in Trades, PassOver(t, a) PROVE SellInv'
  <2>1. UNCHANGED <<trade, order>> /\ pc[t] = "pass" /\ Go(t, "pass", DoneWith(t, a))
    BY <1>6 DEF PassOver
  <2>2. PICK j : j = DoneWith(t, a)
    OBVIOUS
  <2>3. j.todo = job[t].todo \ {a} /\ \A b \in Trades : b # a => j.snap[b] = job[t].snap[b]
    <3>1. /\ DoneWith(t, a).snap = [job[t].snap EXCEPT ![a] = NoRecord]
          /\ DoneWith(t, a).todo = job[t].todo \ {a}
      BY <1>d, DoneTyped
    <3>2. job[t].snap \in [Trades -> Records]
      BY <1>d DEF Job
    <3> QED BY <2>2, <3>1, <3>2
  <2>4. Current("pass", j)'
    <3>1. job[t].todo \subseteq Trades
      BY <1>d DEF Job
    <3> QED BY <1>d, <2>1, <2>3, <3>1 DEF Current
  <2> QED BY <2>1, <2>2, <2>4, SellCalm
<1>7. CASE EndPass(t)
  BY <1>7, SellCalm DEF EndPass
<1>8. CASE Evaluate(t)
  <2>1. PICK S \in SUBSET OpenTrades : Go(t, "evaluate", [NoJob EXCEPT !.todo = S])
    BY <1>8 DEF Evaluate
  <2>2. PICK j : j = [NoJob EXCEPT !.todo = S]
    OBVIOUS
  <2>3. j.todo = S
    BY <2>2 DEF NoJob
  <2>4. UNCHANGED <<trade, order>> /\ pc[t] = "pass"
    BY <1>8 DEF Evaluate
  <2>5. Current("evaluate", j)'
    BY <2>3, <2>4 DEF Current, OpenTrades
  <2> QED BY <2>1, <2>2, <2>4, <2>5, SellCalm
<1> QED BY <1>1, <1>2, <1>3, <1>4, <1>5, <1>6, <1>7, <1>8

LEMMA SellExit ==
    ASSUME NEW t \in Threads, Before(t), Calm',
           \/ \E a \in Trades : Stay(t, a) \/ Exit(t, a)
           \/ SellRaises(t) \/ (\E x \in Exits : Sell(t, x))
           \/ MarkExitPending(t) \/ EndEvaluate(t) \/ Abandon(t)
    PROVE  SellInv'
<1>d. /\ TypeInv /\ job[t] \in Job /\ job[t].todo \subseteq Trades
      /\ trade \in [Trades -> Records]
      /\ order \in [Orders -> Order] /\ Trades \subseteq Orders /\ Exits \subseteq Orders
      /\ \A b \in Trades, x \in Exits : b # x
      /\ Named(pc[t], job[t]) /\ HasRead(order, pc[t], job[t])
      /\ Current(pc[t], job[t]) /\ \A u \in Threads : u # t => pc[u] = "idle"
  BY DisjointAssumption DEF Before, TypeInv, TypeOK, JobNamed, StoreInv, Orders, Job
<1> USE DEF tws, service
<1>1. ASSUME NEW a \in Trades, Stay(t, a) \/ Exit(t, a) PROVE SellInv'
  <2>1. PICK e : e = [job[t] EXCEPT !.todo = @ \ {a}]
    OBVIOUS
  <2>2. PICK f : f = [e EXCEPT !.trade = a]
    OBVIOUS
  <2>3. /\ e.todo = job[t].todo \ {a} /\ f.todo = e.todo /\ f.trade = a
    BY <1>d, <2>1, <2>2 DEF Job
  <2>4. /\ UNCHANGED <<trade, order>> /\ pc[t] = "evaluate" /\ a \in job[t].todo
        /\ Go(t, "evaluate", e) \/ Go(t, "sell", f)
    BY <1>1, <2>1, <2>2 DEF Stay, Exit
  <2>5. Current("evaluate", e)' /\ Current("sell", f)'
    BY <1>d, <2>3, <2>4 DEF Current
  <2> QED BY <2>4, <2>5, SellCalm
<1>2. CASE SellRaises(t)
  <2>1. PICK j : j = [job[t] EXCEPT !.trade = None]
    OBVIOUS
  <2>2. j.todo = job[t].todo
    BY <1>d, <2>1 DEF Job
  <2>3. UNCHANGED <<trade, order>> /\ pc[t] = "sell" /\ Go(t, "evaluate", j)
    BY <1>2, <2>1 DEF SellRaises
  <2>4. Current("evaluate", j)'
    BY <1>d, <2>2, <2>3 DEF Current
  <2> QED BY <2>3, <2>4, SellCalm
\* Nothing sells an open trade but the thread that is about to record it.
<1>h. ASSUME NEW x \in Exits, Live(x), trade[order[x].of].status = "OPEN"
      PROVE  pc[t] = "mark" /\ job[t].sell = x /\ job[t].trade = order[x].of
  BY <1>d, <1>h DEF Before, LiveHad, Has
<1>3. ASSUME NEW x \in Exits, Sell(t, x) PROVE SellInv'
  <2> DEFINE a == job[t].trade
  <2>1. /\ pc[t] = "sell" /\ a \in Trades /\ UNCHANGED trade /\ order[x].state = "none"
        /\ trade[a].status = "OPEN"
    BY <1>3, <1>d DEF Sell, Named, Current
  <2>2. /\ order'[x].of = a /\ order'[x].state = "working"
        /\ \A o \in Orders : o # x => order'[o] = order[o]
    BY <1>3, <1>d DEF Sell
  <2>3. PICK j : j = [job[t] EXCEPT !.sell = x]
    OBVIOUS
  <2>4. j.sell = x /\ j.trade = a /\ j.todo = job[t].todo
    BY <1>d, <2>3 DEF Job
  <2>5. Go(t, "mark", j)
    BY <1>3, <2>3 DEF Sell
  <2>6. Current("mark", j)'
    BY <1>d, <2>1, <2>4 DEF Current
  <2>7. Alone' /\ AllCurrent'
    BY <1>d, <2>5, <2>6, OneMoves
  <2>8. pc'[t] = "mark" /\ job'[t] = j
    BY <1>d, <2>5, GoMoves DEF TypeInv
  <2> HIDE DEF a
  <2>9. \A y \in Exits : y # x /\ Live(y)' => Live(y) /\ order'[y] = order[y]
    BY <1>d, <2>2 DEF Before, Live
  <2>10. LiveHad'
    <3> SUFFICES ASSUME NEW y \in Exits, Live(y)' PROVE Has(y)'
      BY DEF LiveHad
    <3>1. CASE y = x
      BY <2>2, <2>4, <2>8, <3>1 DEF Has
    <3>2. CASE y # x
      <4>1. Has(y) /\ order'[y] = order[y]
        BY <2>9, <3>2 DEF Before, LiveHad
      <4>2. \A u \in Threads : pc[u] # "mark"
        BY <1>d, <2>1
      <4> QED BY <2>1, <4>1, <4>2 DEF Has
    <3> QED BY <3>1, <3>2
  <2>11. Once'
    <3>1. \A y \in Exits : y # x /\ Live(y)' => order'[y].of # a
      BY <1>h, <2>1, <2>9
    <3> QED BY <2>2, <2>9, <3>1 DEF Once, Before
  <2>12. Unbought'
    BY <1>d, <2>1, <2>2 DEF Unbought, Before
  <2> QED BY <2>7, <2>10, <2>11, <2>12, SellAfter
<1>4. CASE MarkExitPending(t)
  <2> DEFINE a == job[t].trade
             x == job[t].sell
  <2>1. /\ pc[t] = "mark" /\ a \in Trades /\ x \in Exits /\ UNCHANGED order
        /\ trade[a].status = "OPEN" /\ a \notin job[t].todo
    BY <1>4, <1>d DEF MarkExitPending, Named, Current
  <2>2. /\ trade'[a].status = "EXIT_PENDING" /\ trade'[a].exit = x
        /\ \A b \in Trades : b # a => trade'[b] = trade[b]
    BY <1>4, <1>d, <2>1 DEF MarkExitPending, Update
  <2>3. PICK j : j = [job[t] EXCEPT !.trade = None, !.sell = None]
    OBVIOUS
  <2>4. j.todo = job[t].todo /\ Go(t, "evaluate", j)
    BY <1>4, <1>d, <2>3 DEF MarkExitPending, Job
  <2>5. Current("evaluate", j)'
    BY <1>d, <2>1, <2>2, <2>4 DEF Current
  <2>6. Alone' /\ AllCurrent'
    BY <1>d, <2>4, <2>5, OneMoves
  <2> HIDE DEF a, x
  <2>7. \A y \in Exits : Live(y)' => Live(y) /\ order[y].of \in Trades
    BY <1>d, <2>1 DEF Before, Live, TypeInv, OrderOK
  <2>8. LiveHad'
    <3> SUFFICES ASSUME NEW y \in Exits, Live(y)' PROVE Has(y)'
      BY DEF LiveHad
    <3>1. Has(y) /\ Live(y) /\ order[y].of \in Trades
      BY <2>7 DEF Before, LiveHad
    <3>2. CASE order[y].of = a
      <4>1. x = y
        BY <1>h, <2>1, <3>1, <3>2 DEF x
      <4> QED BY <2>1, <2>2, <3>2, <4>1 DEF Has
    <3>3. CASE order[y].of # a
      <4>1. \A u \in Threads : ~(pc[u] = "mark" /\ job[u].trade = order[y].of)
        BY <1>d, <3>3 DEF a
      <4> QED BY <2>1, <2>2, <3>1, <3>3, <4>1 DEF Has
    <3> QED BY <3>2, <3>3
  <2>9. Once'
    BY <2>1, <2>7 DEF Once, Before
  <2>10. Unbought'
    BY <2>1, <2>2 DEF Unbought, Before
  <2> QED BY <2>6, <2>8, <2>9, <2>10, SellAfter
<1>5. CASE EndEvaluate(t)
  <2>1. PICK j : j = Snapshot("end")
    OBVIOUS
  <2>2. UNCHANGED <<trade, order>> /\ Go(t, "pass", j) /\ pc[t] = "evaluate"
    BY <1>5, <2>1 DEF EndEvaluate
  <2>3. j.snap = trade
    BY <1>d, <2>1, SnapshotTyped
  <2>4. Current("pass", j)'
    BY <2>2, <2>3 DEF Current
  <2> QED BY <2>2, <2>4, SellCalm
<1>6. CASE Abandon(t)
  <2> DEFINE a == job[t].trade
  <2>1. /\ pc[t] = "abandon" /\ a \in Trades /\ UNCHANGED order
        /\ trade[a].status = "OPEN" /\ Go(t, "idle", NoJob)
        /\ \A b \in Trades : b # a => trade'[b] = trade[b]
    BY <1>6, <1>d DEF Abandon, Named, Current, Update
  <2>2. Alone' /\ AllCurrent'
    BY <1>d, <2>1, OneMoves
  <2>3. \A u \in Threads : pc[u] # "mark"
    BY <1>d, <2>1
  <2> HIDE DEF a
  <2>4. ASSUME NEW x \in Exits, Live(x)'
        PROVE  order[x].state # "none" /\ trade'[order[x].of] = trade[order[x].of]
    <3>1. Live(x) /\ order[x].state # "none" /\ order[x].of \in Trades
      BY <1>d, <2>1, <2>4 DEF Live, Before, TypeInv, OrderOK
    <3> QED BY <1>h, <2>1, <3>1
  <2>5. LiveHad' /\ Once' /\ Unbought'
    BY <1>d, <2>1, <2>3, <2>4, HadStill DEF Before, Unbought
  <2> QED BY <2>2, <2>5, SellAfter
<1> QED BY <1>1, <1>2, <1>3, <1>4, <1>5, <1>6

\* TWS, the clock, and a process that ends while no request is at work.
LEMMA SellWorld ==
    ASSUME TypeInv, StoreInv, Onward, seen \subseteq seen', SellInv, Calm, UNCHANGED threads,
           \A a \in Trades : trade'[a].status = trade[a].status /\ trade'[a].exit = trade[a].exit,
           \A o \in Orders : order[o].state = "none" => order'[o].state = "none"
    PROVE  SellInv'
<1>d. /\ Exits \subseteq Orders /\ Trades \subseteq Orders /\ order \in [Orders -> Order]
      /\ trade \in [Trades -> Records]
      /\ Alone /\ AllCurrent /\ LiveHad /\ Once /\ Unbought
  BY DEF Orders, TypeInv, TypeOK, SellInv
<1>1. ASSUME NEW x \in Exits, Live(x)' PROVE order[x].state # "none" /\ order[x].of \in Trades
  BY <1>d, <1>1 DEF Live, TypeInv, OrderOK
<1>2. LiveHad' /\ Once' /\ Unbought'
  BY <1>d, <1>1, HadStill
<1>3. Alone'
  BY <1>d DEF Alone, threads
<1>4. AllCurrent'
  <2> SUFFICES ASSUME NEW t \in Threads PROVE Current(pc[t], job[t])'
    BY DEF AllCurrent
  <2>1. /\ pc'[t] = pc[t] /\ job'[t] = job[t] /\ Current(pc[t], job[t])
        /\ job[t] \in Job /\ Named(pc[t], job[t])
    BY <1>d DEF threads, AllCurrent, TypeInv, TypeOK, JobNamed
  <2>2. job[t].todo \subseteq Trades /\ job[t].legs \subseteq Trades
    BY <2>1 DEF Job
  <2>3. \A a \in Trades : order[a].state # "none" => order'[a].state # "none"
    BY <1>d DEF Onward, Order
  <2>4. ASSUME pc[t] = "reopen" PROVE ~Live(trade[job[t].trade].exit)'
    <3>1. /\ job[t].trade \in Trades /\ trade[job[t].trade].status = "EXIT_PENDING"
          /\ ~Live(trade[job[t].trade].exit)
      BY <2>1, <2>4 DEF Named, Current
    <3>2. PICK x : x = trade[job[t].trade].exit
      OBVIOUS
    <3>3. x \in Exits /\ order[x].state # "none"
      BY <3>1, <3>2 DEF TypeInv, ExitNamed, StoreInv, StoreAgrees, Agrees
    <3>4. ~Live(x)'
      BY <3>1, <3>2, <3>3, LiveBefore
    <3>5. trade'[job'[t].trade].exit = x
      BY <2>1, <3>1, <3>2
    <3> QED BY <3>4, <3>5 DEF Live
  <2>5. \A a \in Trades : trade'[a].status = trade[a].status /\ trade'[a].exit = trade[a].exit
    OBVIOUS
  <2> QED BY <2>1, <2>2, <2>3, <2>4, <2>5 DEF Current, Named
<1> QED BY <1>2, <1>3, <1>4, SellAfter

LEMMA SellRestart ==
    ASSUME TypeInv, StoreInv, SellInv, [Next]_vars, Calm', Restart
    PROVE  SellInv'
<1>1. Calm /\ seen \subseteq seen' /\ Onward
  BY CalmBefore, OrdersGo
<1>2. UNCHANGED <<trade, order>> /\ \A t \in Threads : pc[t] = "idle" /\ pc'[t] = "idle"
  <2>1. ~Busy
    BY SufferKeeps DEF Restart, Calm
  <2> QED BY <2>1 DEF Restart, Busy, tws
<1>3. Alone' /\ AllCurrent'
  BY <1>2 DEF Alone, AllCurrent, Current
<1>4. \A x \in Exits : Live(x)' => order[x].state # "none"
  BY <1>2 DEF Live
<1>5. LiveHad' /\ Once' /\ Unbought'
  BY <1>1, <1>2, <1>4, HadStill DEF SellInv
<1> QED BY <1>3, <1>5, SellAfter

LEMMA SellStep == ASSUME TypeInv, StoreInv, SellInv, [Next]_vars PROVE SellInv'
<1> SUFFICES ASSUME Calm' PROVE SellInv'
  BY DEF SellInv
<1>1. Calm /\ seen \subseteq seen' /\ Onward
  BY CalmBefore, OrdersGo
<1>2. ASSUME NEW t \in Threads, Request(t) PROVE SellInv'
  <2>1. pc[t] = "idle" /\ (Busy => "overlap" \in seen')
    <3>1. PICK H : Arrives(t, H)
      BY <1>2 DEF Request, RunOnce, ExecutePaper, Reconcile, CancelEntry
    <3> QED BY <3>1, SufferKeeps DEF Arrives
  <2> QED BY <1>2, <2>1, ThreadsBefore, SellRequest DEF Calm
<1>3. ASSUME NEW t \in Threads, Continue(t) PROVE SellInv'
  <2>1. pc[t] # "idle"
    BY <1>3 DEF Continue, BuyLeg, LegsFail, LegsDone, EntryFilled, ExitFilled, ExitEnded,
       CancelStale, Exiting, PassOver, Stay, Exit, Reopen, EndPass, Evaluate, SellRaises, Sell,
       MarkExitPending, EndEvaluate, Abandon
  <2>2. Before(t)
    BY <2>1, ThreadsBefore
  <2> QED BY <1>3, <2>2, SellLegs, SellPass, SellExit DEF Continue
<1>4. ASSUME NEW o \in Orders, Fill(o) \/ EndOrder(o) \/ OrderStatus(o) PROVE SellInv'
  <2>1. UNCHANGED <<trade, threads>>
    BY <1>4 DEF Fill, EndOrder, OrderStatus
  <2>2. \A p \in Orders : order[p].state = "none" => order'[p].state = "none"
    <3>1. order \in [Orders -> Order]
      BY DEF TypeInv, TypeOK
    <3> QED BY <1>4, <3>1 DEF Fill, EndOrder, OrderStatus, tws
  <2> QED BY <1>1, <2>1, <2>2, SellWorld
<1>5. ASSUME NEW a \in Trades, Age(a) PROVE SellInv'
  <2>1. \A b \in Trades : trade'[b].status = trade[b].status /\ trade'[b].exit = trade[b].exit
    BY <1>5 DEF Age, Update, TypeInv, TypeOK, Records
  <2>2. UNCHANGED <<order, threads>>
    BY <1>5 DEF Age, tws
  <2> QED BY <1>1, <2>1, <2>2, SellWorld
<1>6. ASSUME (\E s \in Symbols : UpdatePortfolio(s)) \/ UNCHANGED vars PROVE SellInv'
  <2>1. UNCHANGED <<trade, order, threads>>
    BY <1>6 DEF UpdatePortfolio, vars, tws
  <2> QED BY <1>1, <2>1, SellWorld
<1> QED BY <1>2, <1>3, <1>4, <1>5, <1>6, SellRestart DEF Next

LEMMA SellInit == Init => SellInv
<1> SUFFICES ASSUME Init PROVE SellInv
  OBVIOUS
<1>1. /\ \A t \in Threads : pc[t] = "idle"
      /\ \A o \in Orders : order[o].state = "none"
      /\ \A a \in Trades : trade[a].status = "none"
  BY DEF Init, NoOrder, NoRecord
<1>2. Alone /\ AllCurrent
  BY <1>1 DEF Alone, AllCurrent, Current
<1>3. \A x \in Exits : ~Live(x)
  BY <1>1 DEF Live, Orders
<1> QED BY <1>1, <1>2, <1>3 DEF SellInv, Unbought, LiveHad, Once

LEMMA SellAlways == Spec => [](TypeInv /\ StoreInv /\ SellInv)
  BY StoreAlways, SellInit, SellStep, PTL DEF Spec

\* No two SELLs of a trade work at once, unless records are out of date.
OneSell ==
    \A x, y \in Exits :
        /\ x # y /\ order[x].of = order[y].of
        /\ order[x].state = "working" /\ order[y].state = "working"
        => ~Calm

(* A trade is sold by one order at a time, for any number of trades, shares *)
(* and symbols, although an exit is retried that nobody heard of; what it   *)
(* takes is that requests do not overlap, that the process does not end     *)
(* within one, and that a cancellation is in time (evaluate_open_trades,    *)
(* reconcile, _cancel_exit_order_before_revert).                            *)
THEOREM OneSellHolds == Spec => []OneSell
<1>1. SellInv => OneSell
  BY DEF SellInv, OneSell, Once, Live
<1> QED BY <1>1, SellAlways, PTL
-----------------------------------------------------------------------------
(* The account stays long: what an exit sells is there.                     *)

\* Without another trade in its symbol, an exit finds the shares it is to sell.
Covers(s) ==
    /\ held[s] >= 0
    /\ \A x \in Exits : order[x].state = "working" /\ SymbolOf[order[x].of] = s =>
          held[s] >= order[x].left
    /\ \A t \in Threads : pc[t] = "sell" /\ SymbolOf[job[t].trade] = s => held[s] >= Lot

CoverInv == Calm /\ "lag" \notin seen => \A s \in Symbols : Shared(s) \/ Covers(s)

\* A trade that was recorded stays recorded.
LEMMA RecordedGrows == ASSUME TypeInv, [Next]_vars PROVE Recorded \subseteq Recorded'
<1>d. /\ trade \in [Trades -> Records]
      /\ \A t \in Threads : job[t] \in Job /\ Named(pc[t], job[t])
  BY DEF TypeInv, TypeOK, JobNamed
<1> USE DEF tws, service
<1>1. ASSUME trade' = trade PROVE Recorded \subseteq Recorded'
  BY <1>1 DEF Recorded
<1>2. ASSUME NEW a \in Trades, NEW r, trade' = [trade EXCEPT ![a] = r], r.status # "none"
      PROVE  Recorded \subseteq Recorded'
  BY <1>2, <1>d DEF Recorded
<1>3. ASSUME NEW t \in Threads, LegsDone(t) PROVE Recorded \subseteq Recorded'
  BY <1>3, <1>d DEF LegsDone, Update, NoRecord, Recorded
<1>4. ASSUME NEW t \in Threads,
             \/ \E a \in Trades : EntryFilled(t, a) \/ ExitFilled(t, a) \/ ExitEnded(t, a)
             \/ Reopen(t)
      PROVE  Recorded \subseteq Recorded'
  <2>1. \A a \in Trades : /\ Reopened(a).status # "none"
                          /\ [trade[a] EXCEPT !.status = "OPEN"].status # "none"
                          /\ [trade[a] EXCEPT !.status = "CLOSED"].status # "none"
    BY <1>d DEF Reopened, Records
  <2>2. pc[t] = "reopen" => job[t].trade \in Trades
    BY <1>d DEF Named
  <2>3. ASSUME NEW a \in Trades, NEW r, Settles(t, a, r), r.status # "none"
        PROVE  Recorded \subseteq Recorded'
    BY <1>2, <2>3 DEF Settles, Update
  <2>4. CASE Reopen(t)
    BY <2>1, <2>2, <2>3, <2>4 DEF Reopen
  <2>5. ASSUME NEW a \in Trades, EntryFilled(t, a) \/ ExitFilled(t, a) \/ ExitEnded(t, a)
        PROVE  Recorded \subseteq Recorded'
    BY <2>1, <2>3, <2>5 DEF EntryFilled, ExitFilled, ExitEnded
  <2> QED BY <1>4, <2>4, <2>5
<1>5. ASSUME NEW t \in Threads, MarkExitPending(t) \/ Abandon(t)
      PROVE  Recorded \subseteq Recorded'
  BY <1>5, <1>d DEF MarkExitPending, Abandon, Update, Recorded, Records
<1>6. ASSUME NEW a \in Trades, Age(a) PROVE Recorded \subseteq Recorded'
  BY <1>6, <1>d DEF Age, Update, Recorded, Records
<1>7. ASSUME NEW t \in Threads,
             \/ Request(t) \/ (\E a \in Trades : BuyLeg(t, a)) \/ LegsFail(t)
             \/ \E a \in Trades : CancelStale(t, a) \/ PassOver(t, a) \/ Stay(t, a) \/ Exit(t, a)
             \/ EndPass(t) \/ Evaluate(t) \/ SellRaises(t) \/ (\E x \in Exits : Sell(t, x))
             \/ EndEvaluate(t)
      PROVE  trade' = trade
  BY <1>7 DEF Request, RunOnce, ExecutePaper, Reconcile, CancelEntry, BuyLeg, LegsFail,
     CancelStale, PassOver, Stay, Exit, EndPass, Evaluate, SellRaises, Sell, EndEvaluate
<1>8. ASSUME \/ \E o \in Orders : Fill(o) \/ EndOrder(o) \/ OrderStatus(o)
             \/ \E s \in Symbols : UpdatePortfolio(s)
             \/ Restart \/ UNCHANGED vars
      PROVE  trade' = trade
  BY <1>8 DEF Fill, EndOrder, OrderStatus, UpdatePortfolio, Restart, vars
<1> QED BY <1>1, <1>3, <1>4, <1>5, <1>6, <1>7, <1>8 DEF Next, Continue

\* The trade of a live exit has been recorded.
LEMMA LiveRecorded ==
    ASSUME TypeInv, SellInv, Calm, NEW x \in Exits, Live(x)
    PROVE  order[x].of \in Recorded
<1>1. order[x].of \in Trades /\ Has(x)
  BY DEF SellInv, LiveHad, Live, TypeInv, OrderOK, Orders
<1>2. \A t \in Threads : pc[t] = "mark" => trade[job[t].trade].status = "OPEN"
  BY DEF SellInv, AllCurrent, Current
<1> QED BY <1>1, <1>2 DEF Has, Recorded

\* A step that moves no shares, sells none and admits no thread to a sale.
LEMMA CoverCalm ==
    ASSUME NEW s \in Symbols, Covers(s), held' = held,
           \A x \in Exits : order'[x].state = "working" =>
              order[x].state = "working" /\ order'[x].of = order[x].of
                                         /\ order'[x].left = order[x].left,
           \A t \in Threads : pc'[t] = "sell" => pc[t] = "sell" /\ job'[t].trade = job[t].trade
    PROVE  Covers(s)'
  BY DEF Covers

LEMMA CoverStep ==
    ASSUME TypeInv, StoreInv, SellInv, CoverInv, [Next]_vars
    PROVE  CoverInv'
<1> SUFFICES ASSUME Calm', "lag" \notin seen', NEW s \in Symbols, ~Shared(s)' PROVE Covers(s)'
  BY DEF CoverInv, Symbols
<1>s. Calm /\ seen \subseteq seen' /\ Onward
  BY CalmBefore, OrdersGo
<1>c. Covers(s) /\ ~Shared(s)
  BY <1>s, RecordedGrows DEF CoverInv, Shared
<1>d. /\ order \in [Orders -> Order] /\ held \in [Symbols -> Int] /\ Lot \in Nat \ {0}
      /\ Exits \subseteq Orders /\ Trades \subseteq Orders /\ \A a \in Trades, x \in Exits : a # x
      /\ \A t \in Threads : job[t] \in Job /\ Named(pc[t], job[t])
      /\ Alone /\ AllCurrent /\ LiveHad /\ Once
  BY <1>s, DisjointAssumption, LotAssumption
     DEF TypeInv, TypeOK, Orders, JobNamed, SellInv
<1> USE DEF tws, service
\* A thread moves on, and the orders and the shares stay as they are.
<1>m. ASSUME NEW t \in Threads, NEW l, NEW j, Go(t, l, j), l # "sell",
             UNCHANGED <<order, held>>
      PROVE  Covers(s)'
  <2>1. \A u \in Threads : pc'[u] = "sell" => pc[u] = "sell" /\ job'[u] = job[u]
    BY <1>m, GoMoves DEF TypeInv
  <2> QED BY <1>c, <1>m, <2>1, CoverCalm
<1>1. ASSUME NEW t \in Threads,
             \/ Request(t) \/ LegsFail(t) \/ LegsDone(t)
             \/ \E a \in Trades : \/ EntryFilled(t, a) \/ ExitFilled(t, a) \/ ExitEnded(t, a)
                                  \/ PassOver(t, a) \/ Stay(t, a)
             \/ Reopen(t) \/ EndPass(t) \/ Evaluate(t) \/ SellRaises(t)
             \/ MarkExitPending(t) \/ EndEvaluate(t) \/ Abandon(t)
      PROVE  Covers(s)'
  <2>1. UNCHANGED <<order, held>>
    BY <1>1 DEF Request, RunOnce, ExecutePaper, Reconcile, CancelEntry, LegsFail, LegsDone,
       EntryFilled, ExitFilled, ExitEnded, PassOver, Stay, Reopen, EndPass, Evaluate, SellRaises,
       MarkExitPending, EndEvaluate, Abandon, Settles
  <2>2. \E l \in {"legs", "pass", "abandon", "idle", "evaluate"} : \E j : Go(t, l, j)
    BY <1>1 DEF Request, RunOnce, ExecutePaper, Reconcile, CancelEntry, LegsFail, LegsDone,
       EntryFilled, ExitFilled, ExitEnded, PassOver, Stay, Reopen, EndPass, Evaluate, SellRaises,
       MarkExitPending, EndEvaluate, Abandon, Settles
  <2> QED BY <1>m, <2>1, <2>2
<1>2. ASSUME NEW t \in Threads, NEW a \in Trades, Exit(t, a) PROVE Covers(s)'
  <2>1. UNCHANGED <<order, held>>
    BY <1>2 DEF Exit
  <2> DEFINE e == [job[t] EXCEPT !.todo = @ \ {a}]
  <2>2. CASE Go(t, "evaluate", e)
    BY <1>m, <2>1, <2>2
  <2>3. CASE Go(t, "sell", [e EXCEPT !.trade = a]) /\ pos[SymbolOf[a]] >= Lot
             /\ (pos[SymbolOf[a]] # held[SymbolOf[a]] => "lag" \in seen')
    <3>1. PICK f : f = [e EXCEPT !.trade = a]
      OBVIOUS
    <3>2. f.trade = a /\ Go(t, "sell", f)
      BY <1>d, <2>3, <3>1 DEF Job
    <3>3. pc'[t] = "sell" /\ job'[t].trade = a
          /\ \A u \in Threads : u # t => pc'[u] = pc[u] /\ job'[u] = job[u]
      BY <3>2, GoMoves DEF TypeInv
    <3>4. held[SymbolOf[a]] >= Lot
      BY <2>3
    <3> QED BY <1>c, <2>1, <3>3, <3>4 DEF Covers
  <2> QED BY <1>2, <2>2, <2>3, SufferKeeps DEF Exit
<1>3. ASSUME NEW t \in Threads, NEW a \in Trades, BuyLeg(t, a) PROVE Covers(s)'
  <2>1. \A x \in Exits : order'[x] = order[x]
    BY <1>3, <1>d DEF BuyLeg
  <2>2. \A u \in Threads : pc'[u] = "sell" => pc[u] = "sell" /\ job'[u] = job[u]
    <3>1. \E j : Go(t, "legs", j)
      BY <1>3 DEF BuyLeg
    <3> QED BY <3>1, GoMoves DEF TypeInv
  <2>3. held' = held
    BY <1>3 DEF BuyLeg
  <2> QED BY <1>c, <2>1, <2>2, <2>3, CoverCalm
<1>4. ASSUME NEW t \in Threads, NEW a \in Trades, CancelStale(t, a) PROVE Covers(s)'
  <2>1. \E j : Go(t, "reopen", j)
    BY <1>4 DEF CancelStale
  <2>2. held' = held /\ pc[t] = "pass" /\ job[t].snap[a].exit \in Exits
    BY <1>4, <1>d DEF CancelStale, Exiting, Named
  <2>3. \/ order' = order
        \/ order' = [order EXCEPT ![job[t].snap[a].exit].state = "ended"]
    BY <1>4 DEF CancelStale
  <2>4. \A x \in Exits : order'[x].state = "working" => order'[x] = order[x]
    BY <1>d, <2>2, <2>3 DEF Order
  <2>5. \A u \in Threads : pc'[u] = "sell" => pc[u] = "sell" /\ job'[u] = job[u]
    BY <2>1, GoMoves DEF TypeInv
  <2> QED BY <1>c, <2>2, <2>4, <2>5, CoverCalm
<1>5. ASSUME NEW t \in Threads, NEW x \in Exits, Sell(t, x) PROVE Covers(s)'
  <2>1. /\ pc[t] = "sell" /\ held' = held /\ Go(t, "mark", [job[t] EXCEPT !.sell = x])
        /\ order'[x].of = job[t].trade /\ order'[x].left = Lot
        /\ \A y \in Exits : y # x => order'[y] = order[y]
    BY <1>5, <1>d DEF Sell
  <2>2. \A u \in Threads : pc'[u] = "sell" => pc[u] = "sell" /\ job'[u] = job[u]
    BY <2>1, GoMoves DEF TypeInv
  <2> QED BY <1>c, <2>1, <2>2 DEF Covers
\* The shares of an entry come, or those of an exit go, which no other exit counts on.
<1>6. ASSUME NEW o \in Orders, Fill(o) PROVE Covers(s)'
  <2> DEFINE b == order[o].of
  <2>1. /\ order[o].state = "working" /\ b \in Trades /\ SymbolOf[b] \in Symbols
        /\ order[o].left \in 1..Lot
    BY <1>6, <1>d DEF Fill, TypeInv, OrderOK, Order, Symbols
  <2>2. /\ order'[o].of = b /\ order'[o].left = order[o].left - 1
        /\ \A p \in Orders : p # o => order'[p] = order[p]
    BY <1>6, <1>d DEF Fill, Order
  <2>3. /\ held'[SymbolOf[b]] = held[SymbolOf[b]] + Side(o)
        /\ \A r \in Symbols : r # SymbolOf[b] => held'[r] = held[r]
        /\ UNCHANGED threads
    BY <1>6, <1>d, <2>1 DEF Fill
  <2>4. held[s] \in Int /\ \A x \in Exits : order[x].left \in Int
    BY <1>d DEF Order
  <2> HIDE DEF b
  <2>5. CASE o \in Trades
    <3>1. held'[s] >= held[s]
      BY <1>d, <2>1, <2>3, <2>4, <2>5 DEF Side
    <3>2. \A x \in Exits : order'[x] = order[x]
      BY <1>d, <2>2, <2>5
    <3>3. held'[s] \in Int
      BY <2>1, <2>3, <2>4, <2>5 DEF Side
    <3> QED BY <1>c, <1>d, <2>3, <2>4, <3>1, <3>2, <3>3 DEF Covers, threads
  <2>6. CASE o \in Exits
    <3>1. CASE SymbolOf[b] # s
      <4>1. held'[s] = held[s]
        BY <2>3, <3>1
      <4>2. \A y \in Exits : SymbolOf[order'[y].of] = s => order'[y] = order[y]
        BY <1>d, <2>2, <3>1
      <4>3. \A t \in Threads : pc'[t] = pc[t] /\ job'[t] = job[t]
        BY <2>3 DEF threads
      <4> QED BY <1>c, <4>1, <4>2, <4>3 DEF Covers
    <3>2. CASE SymbolOf[b] = s
      <4>1. b \in Recorded /\ Live(o)
        BY <1>s, <2>1, <2>6, LiveRecorded DEF Live, b
      <4>2. \A a \in Recorded : SymbolOf[a] = s => a = b
        BY <1>c, <3>2, <4>1 DEF Shared
      <4>3. \A y \in Exits : order[y].state = "working" /\ SymbolOf[order[y].of] = s => y = o
        <5> SUFFICES ASSUME NEW y \in Exits, order[y].state = "working",
                            SymbolOf[order[y].of] = s
                     PROVE  y = o
          OBVIOUS
        <5>1. Live(y) /\ order[y].of \in Recorded
          BY <1>s, LiveRecorded DEF Live
        <5>2. order[y].of = b
          BY <4>2, <5>1
        <5> QED BY <1>d, <2>6, <4>1, <5>1, <5>2 DEF Once, b
      <4>4. \A t \in Threads : ~(pc[t] = "sell" /\ SymbolOf[job[t].trade] = s)
        <5> SUFFICES ASSUME NEW t \in Threads, pc[t] = "sell", SymbolOf[job[t].trade] = s
                     PROVE  FALSE
          OBVIOUS
        <5>1. job[t].trade \in Trades /\ trade[job[t].trade].status = "OPEN"
          BY <1>d DEF Named, AllCurrent, Current
        <5>2. trade[b].status = "OPEN"
          BY <4>2, <5>1 DEF Recorded
        <5>3. PICK u \in Threads : pc[u] = "mark"
          BY <1>d, <2>6, <4>1, <5>2 DEF LiveHad, Has, b
        <5> QED BY <1>d, <5>3 DEF Alone
      <4>5. Side(o) = -1
        BY <1>d, <2>6 DEF Side
      <4>6. held[s] >= order[o].left
        BY <1>c, <2>1, <2>6, <3>2 DEF Covers, b
      <4>7. held'[s] = held[s] - 1
        BY <2>3, <2>4, <3>2, <4>5
      <4>8. held'[s] >= 0 /\ held'[s] >= order'[o].left
        BY <2>1, <2>2, <2>4, <4>6, <4>7
      <4>9. \A y \in Exits : order'[y].state = "working" /\ SymbolOf[order'[y].of] = s => y = o
        BY <1>d, <2>2, <4>3
      <4>10. \A t \in Threads : ~(pc'[t] = "sell" /\ SymbolOf[job'[t].trade] = s)
        BY <2>3, <4>4 DEF threads
      <4> QED BY <4>8, <4>9, <4>10 DEF Covers
    <3> QED BY <3>1, <3>2
  <2> QED BY <2>5, <2>6 DEF Orders
<1>7. ASSUME NEW o \in Orders, EndOrder(o) PROVE Covers(s)'
  <2>1. held' = held /\ UNCHANGED threads
    BY <1>7 DEF EndOrder
  <2>2. \A x \in Exits : order'[x].state = "working" => order'[x] = order[x]
    BY <1>7, <1>d DEF EndOrder
  <2> QED BY <1>c, <2>1, <2>2, CoverCalm DEF threads
<1>8. ASSUME \/ \E o \in Orders : OrderStatus(o)
             \/ \E r \in Symbols : UpdatePortfolio(r)
             \/ \E a \in Trades : Age(a)
             \/ UNCHANGED vars
      PROVE  Covers(s)'
  <2>1. UNCHANGED <<order, held, threads>>
    BY <1>8 DEF OrderStatus, UpdatePortfolio, Age, vars
  <2> QED BY <1>c, <2>1, CoverCalm DEF threads
<1>9. ASSUME Restart PROVE Covers(s)'
  <2>1. UNCHANGED <<order, held>> /\ \A t \in Threads : pc'[t] = "idle"
    BY <1>9 DEF Restart
  <2> QED BY <1>c, <2>1, CoverCalm
<1> QED BY <1>1, <1>2, <1>3, <1>4, <1>5, <1>6, <1>7, <1>8, <1>9 DEF Next, Continue
-----------------------------------------------------------------------------
(* The account stays long when trades share a symbol: the shares are        *)
(* counted.                                                                 *)

\* The shares bought for symbol s and not sold: share i of a trade is bought when
\* its entry has less than i to buy, and sold when an exit has less than i to sell.
Stock(s) ==
    {p \in Trades \X (1..Lot) :
        /\ SymbolOf[p[1]] = s
        /\ order[p[1]].left < p[2]
        /\ \A x \in Exits : order[x].of = p[1] => p[2] <= order[x].left}

Counted(s) == IsFiniteSet(Stock(s)) /\ held[s] = Cardinality(Stock(s))

\* Orders that were filled have nothing left; an exit sells what was bought; and
\* unless one ended in part, an exit that is over has sold nothing.
OrdersPlain ==
    /\ \A o \in Orders : order[o].state = "filled" => order[o].left = 0
    /\ \A x \in Exits : order[x].state # "none" => order[order[x].of].state = "filled"
    /\ "partial" \notin seen => \A x \in Exits : order[x].state = "ended" => order[x].left = Lot

LEMMA StockKept ==
    ASSUME TypeInv, NEW s \in Symbols,
           \A o \in Orders : order'[o].left = order[o].left,
           \A x \in Exits : order'[x].of = order[x].of \/ order[x].left = Lot
    PROVE  Stock(s)' = Stock(s)
<1>1. \A x \in Exits, i \in 1..Lot : order[x].left = Lot => i <= order'[x].left /\ i <= order[x].left
  BY LotAssumption DEF Orders
<1> QED BY <1>1 DEF Stock, Orders

LEMMA CountedKept ==
    ASSUME TypeInv, NEW s \in Symbols, Counted(s), held' = held,
           \A o \in Orders : order'[o].left = order[o].left,
           \A x \in Exits : order'[x].of = order[x].of \/ order[x].left = Lot
    PROVE  Counted(s)'
  BY StockKept DEF Counted

LEMMA PlainStep ==
    ASSUME TypeInv, StoreInv, OrdersPlain, [Next]_vars
    PROVE  OrdersPlain'
<1>s. Onward /\ seen \subseteq seen'
  BY OrdersGo, SeenGrows
<1>d. /\ order \in [Orders -> Order] /\ Lot \in Nat \ {0}
      /\ Exits \subseteq Orders /\ Trades \subseteq Orders /\ \A a \in Trades, x \in Exits : a # x
      /\ \A t \in Threads : /\ job[t] \in Job /\ Named(pc[t], job[t])
                            /\ HasRead(order, pc[t], job[t])
  BY DisjointAssumption, LotAssumption DEF TypeInv, TypeOK, Orders, JobNamed, StoreInv
<1> USE DEF tws, service
\* An order that changes, and what it becomes.
<1>1. ASSUME NEW o \in Orders, \A p \in Orders : p # o => order'[p] = order[p],
             order'[o].state = "filled" => order'[o].left = 0,
             o \in Exits /\ order'[o].state # "none" =>
                order'[o].of \in Trades /\ order[order'[o].of].state = "filled",
             "partial" \notin seen' /\ o \in Exits /\ order'[o].state = "ended" =>
                order'[o].left = Lot
      PROVE  OrdersPlain'
  <2>1. \A p \in Orders : order'[p].state = "filled" => order'[p].left = 0
    BY <1>1 DEF OrdersPlain
  <2>2. \A x \in Exits : order'[x].state # "none" => order'[order'[x].of].state = "filled"
    <3> SUFFICES ASSUME NEW x \in Exits, order'[x].state # "none"
                 PROVE  order'[order'[x].of].state = "filled"
      OBVIOUS
    <3>1. order'[x].of \in Trades /\ order[order'[x].of].state = "filled"
      BY <1>1, <1>d DEF OrdersPlain, TypeInv, OrderOK
    <3> QED BY <1>s, <1>d, <3>1 DEF Onward
  <2>3. "partial" \notin seen' => \A x \in Exits : order'[x].state = "ended" => order'[x].left = Lot
    BY <1>1, <1>s, <1>d DEF OrdersPlain
  <2> QED BY <2>1, <2>2, <2>3 DEF OrdersPlain
<1>2. ASSUME order' = order PROVE OrdersPlain'
  BY <1>2, <1>s DEF OrdersPlain
<1>o. \A x \in Exits : order[x].state # "none" =>
         order[x].of \in Trades /\ order[order[x].of].state = "filled"
  BY <1>d DEF OrdersPlain, TypeInv, OrderOK
<1>3. ASSUME NEW t \in Threads, NEW a \in Trades, BuyLeg(t, a) PROVE OrdersPlain'
  <2>1. order'[a].state = "working" /\ \A p \in Orders : p # a => order'[p] = order[p]
    BY <1>3, <1>d DEF BuyLeg
  <2> QED BY <1>1, <1>d, <2>1
<1>4. ASSUME NEW t \in Threads, NEW x \in Exits, Sell(t, x) PROVE OrdersPlain'
  <2>1. /\ order'[x].state = "working" /\ order'[x].of = job[t].trade
        /\ \A p \in Orders : p # x => order'[p] = order[p]
        /\ job[t].trade \in Trades /\ order[job[t].trade].state = "filled"
    BY <1>4, <1>d DEF Sell, Named, HasRead
  <2> QED BY <1>1, <1>d, <2>1
\* An order ends, and if that is an exit that has sold a part, it is noticed.
<1>5. ASSUME NEW o \in Orders, order' = [order EXCEPT ![o].state = "ended"],
             order[o].state = "working",
             o \in Exits /\ order[o].left < Lot => "partial" \in seen'
      PROVE  OrdersPlain'
  <2>1. /\ order'[o].state = "ended" /\ order'[o].of = order[o].of
        /\ order'[o].left = order[o].left /\ order[o].left \in 0..Lot
        /\ \A p \in Orders : p # o => order'[p] = order[p]
    BY <1>5, <1>d DEF Order
  <2> QED BY <1>1, <1>5, <1>o, <1>d, <2>1
<1>6. ASSUME NEW o \in Orders, EndOrder(o) PROVE OrdersPlain'
  BY <1>6, <1>5, SufferKeeps DEF EndOrder
<1>7. ASSUME NEW t \in Threads, NEW a \in Trades, CancelStale(t, a) PROVE OrdersPlain'
  <2>1. PICK x : x = job[t].snap[a].exit
    OBVIOUS
  <2>2. x \in Exits
    BY <1>7, <1>d, <2>1 DEF CancelStale, Exiting, Named
  <2>3. CASE order' = order
    BY <1>2, <2>3
  <2>4. CASE /\ order[x].state = "working" /\ order' = [order EXCEPT ![x].state = "ended"]
             /\ order[x].left < Lot => "partial" \in seen'
    BY <1>5, <1>d, <2>2, <2>4
  <2> QED BY <1>7, <2>1, <2>3, <2>4, SufferKeeps DEF CancelStale
<1>8. ASSUME NEW o \in Orders, Fill(o) PROVE OrdersPlain'
  <2>1. /\ order'[o].of = order[o].of /\ order'[o].left = order[o].left - 1
        /\ order'[o].state = IF order[o].left = 1 THEN "filled" ELSE "working"
        /\ \A p \in Orders : p # o => order'[p] = order[p]
        /\ order[o].state = "working"
    BY <1>8, <1>d DEF Fill, Order
  <2> QED BY <1>1, <1>o, <1>d, <2>1
<1>9. ASSUME NEW t \in Threads,
             \/ Request(t) \/ LegsFail(t) \/ LegsDone(t)
             \/ \E a \in Trades : \/ EntryFilled(t, a) \/ ExitFilled(t, a) \/ ExitEnded(t, a)
                                  \/ PassOver(t, a) \/ Stay(t, a) \/ Exit(t, a)
             \/ Reopen(t) \/ EndPass(t) \/ Evaluate(t) \/ SellRaises(t)
             \/ MarkExitPending(t) \/ EndEvaluate(t) \/ Abandon(t)
      PROVE  order' = order
  BY <1>9 DEF Request, RunOnce, ExecutePaper, Reconcile, CancelEntry, LegsFail, LegsDone,
     EntryFilled, ExitFilled, ExitEnded, PassOver, Stay, Exit, Reopen, EndPass, Evaluate,
     SellRaises, MarkExitPending, EndEvaluate, Abandon, Settles
<1>10. ASSUME \/ \E o \in Orders : OrderStatus(o)
              \/ \E s \in Symbols : UpdatePortfolio(s)
              \/ \E a \in Trades : Age(a)
              \/ Restart \/ UNCHANGED vars
       PROVE  order' = order
  BY <1>10 DEF OrderStatus, UpdatePortfolio, Age, Restart, vars
<1> QED BY <1>2, <1>3, <1>4, <1>6, <1>7, <1>8, <1>9, <1>10 DEF Next, Continue

\* What is held of a symbol is what was bought of it and not sold, unless an exit
\* ended in part or was retried though it had been filled.
StockInv ==
    /\ OrdersPlain
    /\ Calm /\ seen \cap {"partial", "unheard"} = {} => \A s \in Symbols : Counted(s)

LEMMA StockStep ==
    ASSUME TypeInv, StoreInv, SellInv, StockInv, [Next]_vars
    PROVE  StockInv'
<1>p. OrdersPlain /\ OrdersPlain'
  BY PlainStep DEF StockInv
<1> SUFFICES ASSUME Calm', seen' \cap {"partial", "unheard"} = {}, NEW s \in Symbols
             PROVE  Counted(s)'
  BY <1>p DEF StockInv, Symbols
<1>s. Calm /\ seen \subseteq seen' /\ Onward
  BY CalmBefore, OrdersGo
<1>c. Counted(s)
  BY <1>s DEF StockInv
<1>d. /\ order \in [Orders -> Order] /\ held \in [Symbols -> Int] /\ Lot \in Nat \ {0}
      /\ Exits \subseteq Orders /\ Trades \subseteq Orders /\ \A a \in Trades, x \in Exits : a # x
      /\ \A t \in Threads : job[t] \in Job /\ Named(pc[t], job[t])
      /\ LiveHad /\ Once
      /\ \A o \in Orders : order[o].state = "none" => order[o].left = Lot
  BY <1>s, DisjointAssumption, LotAssumption
     DEF TypeInv, TypeOK, Orders, JobNamed, SellInv, OrderOK
<1> USE DEF tws, service
<1>1. ASSUME UNCHANGED <<order, held>> PROVE Counted(s)'
  BY <1>1, <1>c, CountedKept
<1>2. ASSUME NEW t \in Threads,
             \/ Request(t) \/ LegsFail(t) \/ LegsDone(t)
             \/ \E a \in Trades : \/ EntryFilled(t, a) \/ ExitFilled(t, a) \/ ExitEnded(t, a)
                                  \/ PassOver(t, a) \/ Stay(t, a) \/ Exit(t, a)
             \/ Reopen(t) \/ EndPass(t) \/ Evaluate(t) \/ SellRaises(t)
             \/ MarkExitPending(t) \/ EndEvaluate(t) \/ Abandon(t)
      PROVE  UNCHANGED <<order, held>>
  BY <1>2 DEF Request, RunOnce, ExecutePaper, Reconcile, CancelEntry, LegsFail, LegsDone,
     EntryFilled, ExitFilled, ExitEnded, PassOver, Stay, Exit, Reopen, EndPass, Evaluate,
     SellRaises, MarkExitPending, EndEvaluate, Abandon, Settles
<1>3. ASSUME \/ \E o \in Orders : OrderStatus(o)
             \/ \E r \in Symbols : UpdatePortfolio(r)
             \/ \E a \in Trades : Age(a)
             \/ Restart \/ UNCHANGED vars
      PROVE  UNCHANGED <<order, held>>
  BY <1>3 DEF OrderStatus, UpdatePortfolio, Age, Restart, vars
\* An order is placed, or ends, and nothing is traded.
<1>4. ASSUME NEW t \in Threads, NEW a \in Trades, BuyLeg(t, a) PROVE Counted(s)'
  <2>1. order'[a].left = Lot /\ order[a].left = Lot /\ held' = held
        /\ \A p \in Orders : p # a => order'[p] = order[p]
    BY <1>4, <1>d DEF BuyLeg
  <2> QED BY <1>c, <1>d, <2>1, CountedKept
<1>5. ASSUME NEW t \in Threads, NEW x \in Exits, Sell(t, x) PROVE Counted(s)'
  <2>1. order'[x].left = Lot /\ order[x].left = Lot /\ held' = held
        /\ \A p \in Orders : p # x => order'[p] = order[p]
    BY <1>5, <1>d DEF Sell
  <2> QED BY <1>c, <1>d, <2>1, CountedKept
<1>6. ASSUME NEW o \in Orders, order' = [order EXCEPT ![o].state = "ended"], held' = held
      PROVE  Counted(s)'
  <2>1. \A p \in Orders : order'[p].left = order[p].left /\ order'[p].of = order[p].of
    BY <1>6, <1>d DEF Order
  <2> QED BY <1>6, <1>c, <1>d, <2>1, CountedKept
<1>7. ASSUME NEW o \in Orders, EndOrder(o) PROVE Counted(s)'
  BY <1>7, <1>6 DEF EndOrder
<1>8. ASSUME NEW t \in Threads, NEW a \in Trades, CancelStale(t, a) PROVE Counted(s)'
  <2>1. job[t].snap[a].exit \in Orders /\ held' = held
    BY <1>8, <1>d DEF CancelStale, Exiting, Named
  <2>2. \/ order' = order
        \/ order' = [order EXCEPT ![job[t].snap[a].exit].state = "ended"]
    BY <1>8 DEF CancelStale
  <2> QED BY <1>1, <1>6, <2>1, <2>2
<1>9. ASSUME NEW o \in Orders, Fill(o) PROVE Counted(s)'
  <2> DEFINE b == order[o].of
             k == order[o].left
  <2>1. /\ order[o].state = "working" /\ b \in Trades /\ SymbolOf[b] \in Symbols
        /\ k \in 1..Lot
    BY <1>9, <1>d DEF Fill, TypeInv, OrderOK, Order, Symbols
  <2>2. /\ order'[o].of = b /\ order'[o].left = k - 1
        /\ \A p \in Orders : p # o => order'[p] = order[p]
    BY <1>9, <1>d DEF Fill, Order
  <2>3. /\ held'[SymbolOf[b]] = held[SymbolOf[b]] + Side(o)
        /\ \A r \in Symbols : r # SymbolOf[b] => held'[r] = held[r]
    BY <1>9, <1>d, <2>1 DEF Fill
  <2>4. held[s] = Cardinality(Stock(s)) /\ IsFiniteSet(Stock(s)) /\ held[s] \in Int
    BY <1>c, <1>d DEF Counted
  <2>5. \A p \in Orders : order[p].left \in 0..Lot
    BY <1>d DEF Order
  <2>6. PICK share : share = <<b, k>>
    OBVIOUS
  <2>7. share \in Trades \X (1..Lot) /\ share[1] = b /\ share[2] = k
    BY <2>1, <2>6
  <2> HIDE DEF b, k
  <2>8. CASE SymbolOf[b] # s
    <3>1. held'[s] = held[s]
      BY <2>3, <2>8
    <3>2. Stock(s)' = Stock(s)
      <4>1. \A a \in Trades : SymbolOf[a] = s => order'[a] = order[a]
        <5>1. o \in Trades => o = b
          BY <2>1 DEF TypeInv, OrderOK, b
        <5> QED BY <1>d, <2>2, <2>8, <5>1
      <4>2. \A a \in Trades : SymbolOf[a] = s => \A x \in Exits :
               (order'[x].of = a <=> order[x].of = a) /\ (order[x].of = a => order'[x] = order[x])
        BY <1>d, <2>2, <2>8 DEF b
      <4> QED BY <4>1, <4>2 DEF Stock
    <3> QED BY <2>4, <3>1, <3>2 DEF Counted
  <2>9. CASE SymbolOf[b] = s /\ o \in Trades
    <3>1. o = b /\ held'[s] = held[s] + 1
      BY <1>d, <2>1, <2>3, <2>9 DEF TypeInv, OrderOK, Side, b
    <3>2. \A x \in Exits : order'[x] = order[x] /\ (order[x].of = b => order[x].left = Lot)
      BY <1>d, <1>p, <2>1, <2>2, <3>1 DEF OrdersPlain
    <3>3. share \notin Stock(s)
      BY <2>7, <3>1 DEF Stock, k
    <3>4. Stock(s)' = Stock(s) \cup {share}
      <4>1. \A a \in Trades, i \in 1..Lot :
               order'[a].left < i <=> (order[a].left < i \/ (a = b /\ i = k))
        BY <1>d, <2>1, <2>2, <2>5, <3>1 DEF k
      <4>2. \A x \in Exits : order[x].of = b => k <= order[x].left
        BY <2>1, <3>2
      <4>3. \A p \in Trades \X (1..Lot) : p[1] \in Trades /\ p[2] \in 1..Lot
                                          /\ (p = share <=> p[1] = b /\ p[2] = k)
        BY <2>6
      <4> QED BY <2>7, <2>9, <3>2, <4>1, <4>2, <4>3 DEF Stock
    <3>5. IsFiniteSet(Stock(s) \cup {share}) /\ Cardinality(Stock(s) \cup {share}) = held[s] + 1
      BY <2>4, <3>3, FS_AddElement
    <3> QED BY <3>1, <3>4, <3>5 DEF Counted
  <2>10. CASE SymbolOf[b] = s /\ o \in Exits
    <3>1. held'[s] = held[s] - 1
      BY <1>d, <2>3, <2>10 DEF Side
    <3>2. order[b].left = 0 /\ \A a \in Trades : order'[a] = order[a]
      BY <1>d, <1>p, <2>1, <2>2, <2>10 DEF OrdersPlain, b
    <3>3. \A y \in Exits : y # o /\ order[y].of = b => order[y].left = Lot
      <4> SUFFICES ASSUME NEW y \in Exits, y # o, order[y].of = b PROVE order[y].left = Lot
        OBVIOUS
      <4>1. ~Live(y)
        BY <1>d, <2>1, <2>10 DEF Once, Live, b
      <4>2. order[y].state \in {"none", "ended"}
        BY <1>d, <1>s, <4>1 DEF Live, Order
      <4> QED BY <1>d, <1>p, <1>s, <4>2 DEF OrdersPlain
    <3>4. share \in Stock(s)
      BY <2>1, <2>5, <2>7, <2>10, <3>2, <3>3 DEF Stock, k
    <3>5. Stock(s)' = Stock(s) \ {share}
      <4>1. \A a \in Trades, x \in Exits :
               /\ order'[x].of = a <=> order[x].of = a
               /\ x # o => order'[x] = order[x]
        BY <1>d, <2>2 DEF b
      <4>2. \A i \in 1..Lot : i <= order'[o].left <=> i <= order[o].left /\ i # k
        BY <1>d, <2>1, <2>2 DEF k
      <4>3. \A p \in Trades \X (1..Lot) : p[1] \in Trades /\ p[2] \in 1..Lot
                                          /\ (p = share <=> p[1] = b /\ p[2] = k)
        BY <2>6
      <4> QED BY <2>7, <2>10, <3>2, <4>1, <4>2, <4>3 DEF Stock, b
    <3>6. IsFiniteSet(Stock(s) \ {share}) /\ Cardinality(Stock(s) \ {share}) = held[s] - 1
      BY <2>4, <3>4, FS_RemoveElement
    <3> QED BY <3>1, <3>5, <3>6 DEF Counted
  <2> QED BY <2>8, <2>9, <2>10 DEF Orders
<1> QED BY <1>1, <1>2, <1>3, <1>4, <1>5, <1>7, <1>8, <1>9 DEF Next, Continue

LEMMA LongInit == Init => CoverInv /\ StockInv
<1> SUFFICES ASSUME Init PROVE CoverInv /\ StockInv
  OBVIOUS
<1>1. /\ \A o \in Orders : order[o].state = "none" /\ order[o].left = Lot
      /\ \A s \in Symbols : held[s] = 0
      /\ \A t \in Threads : pc[t] = "idle"
      /\ Exits \subseteq Orders /\ Trades \subseteq Orders
  BY DEF Init, NoOrder, Orders
<1>2. CoverInv
  BY <1>1 DEF CoverInv, Covers
<1>3. OrdersPlain
  BY <1>1 DEF OrdersPlain
<1>4. ASSUME NEW s \in Symbols PROVE Counted(s)
  <2>1. Stock(s) = {}
    <3> SUFFICES ASSUME NEW p \in Stock(s) PROVE FALSE
      OBVIOUS
    <3>1. p[1] \in Trades /\ p[2] \in 1..Lot /\ order[p[1]].left < p[2]
      BY DEF Stock
    <3> QED BY <1>1, <3>1, LotAssumption
  <2> QED BY <1>1, <2>1, FS_EmptySet DEF Counted
<1> QED BY <1>2, <1>3, <1>4 DEF StockInv

LEMMA LongAlways == Spec => [](TypeInv /\ StoreInv /\ SellInv /\ CoverInv /\ StockInv)
  BY SellAlways, LongInit, CoverStep, StockStep, PTL DEF Spec

(* A short position has a cause outside the code, for any number of trades, *)
(* symbols, shares and requests.  With a trade alone in its symbol each     *)
(* exit finds what it is to sell, however often exits are tried again; with *)
(* several, what is held is what was bought and not sold as long as no exit *)
(* is retried that had sold something (_oversell_guard, reconcile).         *)
THEOREM ShortHolds == Spec => []ShortHasACause
<1>1. TypeInv /\ CoverInv /\ StockInv => ShortHasACause
  <2> SUFFICES ASSUME TypeInv, CoverInv, StockInv, NEW s \in Symbols, Short(s),
                      seen \cap {"overlap", "crash", "cancel", "lag"} = {}
               PROVE  seen \cap {"partial", "unheard"} # {} /\ Shared(s)
    BY DEF ShortHasACause
  <2>1. Calm /\ "lag" \notin seen
    BY DEF Calm
  <2>2. Shared(s)
    BY <2>1 DEF CoverInv, Covers, Short, TypeInv, TypeOK
  <2>3. ASSUME seen \cap {"partial", "unheard"} = {} PROVE FALSE
    <3>1. held[s] = Cardinality(Stock(s)) /\ IsFiniteSet(Stock(s))
      BY <2>1, <2>3 DEF StockInv, Counted
    <3>2. held[s] \in Nat
      BY <3>1, FS_CardinalityType
    <3> QED BY <3>2 DEF Short
  <2> QED BY <2>2, <2>3
<1> QED BY <1>1, LongAlways, PTL

=============================================================================
