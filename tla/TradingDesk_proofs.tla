------------------------- MODULE TradingDesk_proofs -------------------------
(* Proofs about TradingDesk: its types, that a halt that has returned holds *)
(* at the gate of an order, what the trading state shows, and which socket  *)
(* is behind a connection.                                                  *)
EXTENDS TradingDesk, TLAPS

LEMMA SufferKeeps ==
    ASSUME NEW H, Suffer(H)
    PROVE  /\ H \subseteq seen' /\ seen \subseteq seen'
           /\ (seen \subseteq Hazards => seen' \subseteq Hazards)
  BY EnvAssumption DEF Suffer

LEMMA GoTyped ==
    ASSUME TypeOK, NEW t \in Threads, NEW l \in Pc, NEW j \in Job, Go(t, l, j)
    PROVE  pc' \in [Threads -> Pc] /\ job' \in [Threads -> Job]
<1>1. NoJob \in Job
  BY DEF NoJob, Job
<1> QED BY <1>1 DEF Go, TypeOK

\* Where the threads are after one of them has moved.
LEMMA GoMoves ==
    ASSUME TypeOK, NEW t \in Threads, NEW l, NEW j, Go(t, l, j)
    PROVE  /\ pc'[t] = l
           /\ l # "idle" => job'[t] = j
           /\ \A u \in Threads : u # t => pc'[u] = pc[u] /\ job'[u] = job[u]
  BY DEF Go, TypeOK

LEMMA ThreadsKept ==
    ASSUME TypeOK, UNCHANGED threads
    PROVE  pc' \in [Threads -> Pc] /\ job' \in [Threads -> Job]
  BY DEF threads, TypeOK

\* The parts of TypeOK that do not concern the threads.
DataOK ==
    /\ conn \in Envs \cup {None}
    /\ bridge \in Bridges \cup {None}
    /\ equity \in Bridges \cup {None}
    /\ tstate \in TradingStates
    /\ armer \in {"none", "connect", "resume"}
    /\ flag \in BOOLEAN /\ file \in BOOLEAN /\ halted \in BOOLEAN
    /\ socket \in [Bridges -> Sockets]
    /\ lost \in [Bridges -> 0..2]
    /\ seen \subseteq Hazards

LEMMA AssembleNext ==
    ASSUME DataOK', pc' \in [Threads -> Pc] /\ job' \in [Threads -> Job]
    PROVE  TypeOK'
  BY DEF TypeOK, DataOK

LEMMA TypeInit == Init => TypeOK
<1>1. NoJob \in Job
  BY DEF NoJob, Job
<1> SUFFICES ASSUME Init PROVE TypeOK
  OBVIOUS
<1>2. /\ socket \in [Bridges -> Sockets] /\ lost \in [Bridges -> 0..2]
      /\ pc \in [Threads -> Pc] /\ job \in [Threads -> Job]
  BY <1>1 DEF Init, Sockets, Pc
<1>3. /\ conn \in Envs \cup {None} /\ bridge \in Bridges \cup {None}
      /\ equity \in Bridges \cup {None} /\ seen \subseteq Hazards
  BY DEF Init
<1>4. /\ tstate \in TradingStates /\ armer \in {"none", "connect", "resume"}
      /\ flag \in BOOLEAN /\ file \in BOOLEAN /\ halted \in BOOLEAN
  BY DEF Init, TradingStates
<1> QED BY <1>2, <1>3, <1>4 DEF TypeOK

LEMMA ThreadTyped ==
    ASSUME TypeOK, NEW t \in Threads, Request(t) \/ Continue(t)
    PROVE  TypeOK'
<1>d. DataOK /\ job[t] \in Job /\ NoJob \in Job
  BY DEF TypeOK, DataOK, NoJob, Job
<1>p. {"idle"} \cup Connecting \cup Closing \cup Halting \cup Resuming \cup Ordering = Pc
  BY DEF Pc
<1> USE DEF service, state, emergency, sockets
<1>1. ASSUME NEW e \in Envs, NEW b \in Bridges, Connect(t, e, b) PROVE TypeOK'
  <2>1. [NoJob EXCEPT !.env = e, !.bridge = b] \in Job
    BY DEF NoJob, Job
  <2>2. Go(t, "dial", [NoJob EXCEPT !.env = e, !.bridge = b]) /\ "dial" \in Pc
    BY <1>1 DEF Connect, Pc, Connecting
  <2>3. DataOK'
    BY <1>1, <1>d, SufferKeeps DEF Connect, DataOK, Sockets
  <2> QED BY <2>1, <2>2, <2>3, GoTyped, AssembleNext
<1>2. ASSUME \/ Disconnect(t) \/ Halt(t) \/ Resume(t) \/ SubmitOrder(t)
             \/ ConnectFails(t) \/ SetConnected(t) \/ CheckAccount(t)
             \/ MarkHalted(t) \/ WriteMarker(t) \/ ReleaseFlag(t)
             \/ RestoreState(t) \/ CapState(t) \/ LowerState(t)
             \/ ValidateManualOrder(t) \/ RecordOrder(t)
      PROVE  TypeOK'
  <2>1. PICK l \in Pc : Go(t, l, NoJob)
    BY <1>2 DEF Disconnect, Halt, Resume, SubmitOrder, ConnectFails, SetConnected,
       CheckAccount, MarkHalted, WriteMarker, ReleaseFlag, RestoreState, CapState,
       LowerState, ValidateManualOrder, RecordOrder, Pc, Connecting, Closing, Halting,
       Resuming, Ordering
  <2>2. seen' \subseteq Hazards
    BY <1>2, <1>d, SufferKeeps DEF Disconnect, Halt, Resume, SubmitOrder, ConnectFails,
       SetConnected, CheckAccount, MarkHalted, WriteMarker, ReleaseFlag, RestoreState,
       CapState, LowerState, ValidateManualOrder, RecordOrder, DataOK
  <2>3. /\ conn' \in Envs \cup {None} /\ equity' \in Bridges \cup {None}
        /\ bridge' \in Bridges \cup {None}
        /\ socket' \in [Bridges -> Sockets] /\ lost' \in [Bridges -> 0..2]
        /\ flag' \in BOOLEAN /\ file' \in BOOLEAN /\ halted' \in BOOLEAN
    BY <1>2, <1>d DEF Disconnect, Halt, Resume, SubmitOrder, ConnectFails,
       SetConnected, CheckAccount, MarkHalted, WriteMarker, ReleaseFlag, RestoreState,
       CapState, LowerState, ValidateManualOrder, RecordOrder, DataOK, Job
  <2>4. tstate' \in TradingStates /\ armer' \in {"none", "connect", "resume"}
    BY <1>2, <1>d DEF Disconnect, Halt, Resume, SubmitOrder, ConnectFails,
       SetConnected, CheckAccount, MarkHalted, WriteMarker, ReleaseFlag, RestoreState,
       CapState, LowerState, ValidateManualOrder, RecordOrder, DataOK, SetState, StateFor,
       TradingStates
  <2>5. DataOK'
    BY <2>2, <2>3, <2>4 DEF DataOK
  <2> QED BY <2>1, <2>5, <1>d, GoTyped, AssembleNext
<1>3. ASSUME BridgeUp(t) \/ BridgeTimesOut(t) PROVE TypeOK'
  <2>1. PICK l \in {"attach", "fail", "notice"}, j \in {job[t], [job[t] EXCEPT !.then = "fail"]} :
           Go(t, l, j)
    BY <1>3 DEF BridgeUp, BridgeTimesOut
  <2>2. l \in Pc /\ j \in Job
    BY <1>d DEF Pc, Connecting, Closing, Job
  <2>3. DataOK'
    BY <1>3, <1>d DEF BridgeUp, BridgeTimesOut, DataOK, Sockets
  <2> QED BY <2>1, <2>2, <2>3, GoTyped, AssembleNext
<1>4. ASSUME AttachBridge(t) PROVE TypeOK'
  <2>1. Go(t, "announce", job[t]) /\ "announce" \in Pc
    BY <1>4 DEF AttachBridge, Pc, Connecting
  <2>2. DataOK'
    BY <1>4, <1>d DEF AttachBridge, DataOK, Job
  <2> QED BY <2>1, <2>2, <1>d, GoTyped, AssembleNext
<1>5. ASSUME DetachBridge(t) PROVE TypeOK'
  <2>1. [NoJob EXCEPT !.bridge = bridge] \in Job
    BY <1>d DEF NoJob, Job, DataOK
  <2>2. Go(t, "close", [NoJob EXCEPT !.bridge = bridge]) /\ "close" \in Pc
    BY <1>5 DEF DetachBridge, Pc, Closing
  <2>3. DataOK'
    BY <1>5, <1>d DEF DetachBridge, DataOK
  <2> QED BY <2>1, <2>2, <2>3, GoTyped, AssembleNext
<1>6. ASSUME CloseBridge(t) PROVE TypeOK'
  <2>1. PICK l \in {"notice", "undo"}, j \in {NoJob, [job[t] EXCEPT !.then = "undo"]} :
           Go(t, l, j)
    BY <1>6 DEF CloseBridge
  <2>2. l \in Pc /\ j \in Job
    BY <1>d DEF Pc, Closing, Job
  <2>3. DataOK'
    BY <1>6, <1>d DEF CloseBridge, DataOK, Sockets
  <2> QED BY <2>1, <2>2, <2>3, GoTyped, AssembleNext
<1>7. ASSUME NoticeLost(t) PROVE TypeOK'
  <2>1. PICK l \in {job[t].then, "undo"}, j \in {NoJob, [job[t] EXCEPT !.bridge = None]} :
           Go(t, l, j)
    BY <1>7 DEF NoticeLost
  <2>2. l \in Pc /\ j \in Job
    BY <1>d DEF Pc, Closing, Connecting, Job
  <2>3. DataOK'
    BY <1>7, <1>d, SufferKeeps DEF NoticeLost, DataOK
  <2> QED BY <2>1, <2>2, <2>3, GoTyped, AssembleNext
<1>8. ASSUME SetDisconnected(t) PROVE TypeOK'
  <2>1. Go(t, job[t].then, NoJob) /\ job[t].then \in Pc
    BY <1>8, <1>d DEF SetDisconnected, Pc, Closing, Connecting, Job
  <2>2. DataOK'
    BY <1>8, <1>d, SufferKeeps DEF SetDisconnected, DataOK, SetState, TradingStates
  <2> QED BY <2>1, <2>2, <1>d, GoTyped, AssembleNext
<1>9. ASSUME ReadConnection(t) PROVE TypeOK'
  <2>1. [NoJob EXCEPT !.env = conn] \in Job
    BY <1>d DEF NoJob, Job, DataOK
  <2>2. Go(t, "restore", [NoJob EXCEPT !.env = conn]) /\ "restore" \in Pc
    BY <1>9 DEF ReadConnection, Pc, Resuming
  <2>3. DataOK'
    BY <1>9, <1>d DEF ReadConnection, DataOK
  <2> QED BY <2>1, <2>2, <2>3, GoTyped, AssembleNext
<1> QED BY <1>1, <1>2, <1>3, <1>4, <1>5, <1>6, <1>7, <1>8, <1>9 DEF Request, Continue

LEMMA BridgeTyped ==
    ASSUME TypeOK, NEW b \in Bridges,
           SocketDrops(b) \/ ConnectionClosed(b) \/ UpdateAccountValue(b)
    PROVE  TypeOK'
<1>d. DataOK /\ b \in Threads
  BY DEF TypeOK, DataOK, Threads
<1> USE DEF service, state, emergency, sockets
<1>1. CASE SocketDrops(b)
  <2>1. DataOK'
    BY <1>1, <1>d, SufferKeeps DEF SocketDrops, DataOK, Sockets
  <2> QED BY <1>1, <2>1, ThreadsKept, AssembleNext DEF SocketDrops
<1>2. CASE ConnectionClosed(b)
  <2>1. [NoJob EXCEPT !.bridge = b] \in Job
    BY DEF NoJob, Job
  <2>2. Go(b, "notice", [NoJob EXCEPT !.bridge = b]) /\ "notice" \in Pc
    BY <1>2 DEF ConnectionClosed, Pc, Closing
  <2>3. DataOK'
    BY <1>2, <1>d DEF ConnectionClosed, DataOK
  <2> QED BY <1>d, <2>1, <2>2, <2>3, GoTyped, AssembleNext
<1>3. CASE UpdateAccountValue(b)
  <2>1. DataOK'
    BY <1>3, <1>d, SufferKeeps DEF UpdateAccountValue, DataOK
  <2> QED BY <1>3, <2>1, ThreadsKept, AssembleNext DEF UpdateAccountValue
<1> QED BY <1>1, <1>2, <1>3

LEMMA RestartTyped == ASSUME TypeOK, Restart PROVE TypeOK'
<1>1. DataOK'
  <2>1. socket' \in [Bridges -> Sockets] /\ lost' \in [Bridges -> 0..2]
    BY DEF Restart, Sockets
  <2>2. /\ conn' \in Envs \cup {None} /\ bridge' \in Bridges \cup {None}
        /\ equity' \in Bridges \cup {None} /\ seen' \subseteq Hazards
    BY DEF Restart, Hazards
  <2>3. /\ tstate' \in TradingStates /\ armer' \in {"none", "connect", "resume"}
        /\ flag' \in BOOLEAN /\ file' \in BOOLEAN /\ halted' \in BOOLEAN
    BY DEF Restart, TypeOK, TradingStates
  <2> QED BY <2>1, <2>2, <2>3 DEF DataOK
<1>2. NoJob \in Job
  BY DEF NoJob, Job
<1>3. pc' \in [Threads -> Pc] /\ job' \in [Threads -> Job]
  BY <1>2 DEF Restart, Pc
<1> QED BY <1>1, <1>3, AssembleNext

LEMMA TypeStep == ASSUME TypeOK, [Next]_vars PROVE TypeOK'
<1>1. ASSUME UNCHANGED vars PROVE TypeOK'
  <2>1. DataOK'
    BY <1>1 DEF vars, service, state, emergency, sockets, TypeOK, DataOK
  <2> QED BY <1>1, <2>1, ThreadsKept, AssembleNext DEF vars
<1>2. Requests \subseteq Threads
  BY DEF Threads
<1> QED BY <1>1, <1>2, ThreadTyped, BridgeTyped, RestartTyped DEF Next

(* Every variable keeps its type, for any requests and bridges, whichever   *)
(* hazards are allowed.                                                     *)
THEOREM TypeCorrect == Spec => []TypeOK
  BY TypeInit, TypeStep, PTL DEF Spec
-----------------------------------------------------------------------------
(* The emergency stop and the trading state.                                *)

Stopping == Halting \cup Resuming

\* A step that has no part in a halt or a resume.
Quiet ==
    /\ UNCHANGED emergency /\ seen \subseteq seen'
    /\ \A u \in Threads : pc[u] \in Stopping \/ pc'[u] \in Stopping => pc'[u] = pc[u]

\* One that leaves the connection and the trading state alone as well.
Still == Quiet /\ UNCHANGED <<conn, state>>

LEMMA StillSteps ==
    ASSUME TypeOK, NEW t \in Threads,
           \/ \E e \in Envs, b \in Bridges : Connect(t, e, b)
           \/ Disconnect(t) \/ SubmitOrder(t)
           \/ BridgeUp(t) \/ BridgeTimesOut(t) \/ AttachBridge(t) \/ CheckAccount(t)
           \/ DetachBridge(t) \/ CloseBridge(t) \/ NoticeLost(t)
           \/ ValidateManualOrder(t) \/ RecordOrder(t)
    PROVE  Still
<1>j. job[t].then \in {"idle", "undo", "fail"}
  BY DEF TypeOK, Job
<1>s. /\ {"idle", "undo", "fail"} \cap Stopping = {}
      /\ {"dial", "detach", "gate", "attach", "announce", "close", "notice",
          "record"} \cap Stopping = {}
  BY DEF Stopping, Halting, Resuming
<1>1. pc[t] \in {"idle", "dial", "attach", "check", "detach", "close", "notice", "gate", "record"}
  BY DEF Connect, Disconnect, SubmitOrder, BridgeUp, BridgeTimesOut, AttachBridge,
     CheckAccount, DetachBridge, CloseBridge, NoticeLost, ValidateManualOrder, RecordOrder
<1>4. \E l \in {"idle", "undo", "fail", "dial", "detach", "gate", "attach", "announce",
                "close", "notice", "record"} : \E j : Go(t, l, j)
  <2>1. CASE \E e \in Envs, b \in Bridges : Connect(t, e, b)
    BY <2>1 DEF Connect
  <2>2. CASE \/ Disconnect(t) \/ SubmitOrder(t) \/ BridgeUp(t) \/ BridgeTimesOut(t)
             \/ AttachBridge(t)
    BY <2>2 DEF Disconnect, SubmitOrder, BridgeUp, BridgeTimesOut, AttachBridge
  <2>3. CASE CheckAccount(t) \/ DetachBridge(t) \/ CloseBridge(t)
    BY <2>3 DEF CheckAccount, DetachBridge, CloseBridge
  <2>4. CASE NoticeLost(t)
    BY <2>4, <1>j DEF NoticeLost
  <2>5. CASE ValidateManualOrder(t) \/ RecordOrder(t)
    BY <2>5 DEF ValidateManualOrder, RecordOrder
  <2> QED BY <2>1, <2>2, <2>3, <2>4, <2>5
<1>5. pc[t] \notin Stopping /\ pc'[t] \notin Stopping
      /\ \A u \in Threads : u # t => pc'[u] = pc[u]
  <2> PICK l \in {"idle", "undo", "fail", "dial", "detach", "gate", "attach", "announce",
                  "close", "notice", "record"} : \E j : Go(t, l, j)
    BY <1>4
  <2> PICK j : Go(t, l, j)
    OBVIOUS
  <2>1. "check" \notin Stopping
    BY DEF Stopping, Halting, Resuming
  <2> QED BY <1>s, <1>1, <2>1, GoMoves
<1>2. UNCHANGED <<conn, state, emergency>>
  BY DEF Connect, Disconnect, SubmitOrder, BridgeUp, BridgeTimesOut, AttachBridge,
     CheckAccount, DetachBridge, CloseBridge, NoticeLost, ValidateManualOrder, RecordOrder,
     service
<1>3. seen \subseteq seen'
  BY SufferKeeps
     DEF Connect, Disconnect, SubmitOrder, BridgeUp, BridgeTimesOut, AttachBridge,
     CheckAccount, DetachBridge, CloseBridge, NoticeLost, ValidateManualOrder, RecordOrder
<1> QED BY <1>2, <1>3, <1>5 DEF Still, Quiet

LEMMA BridgeStill ==
    ASSUME TypeOK, NEW b \in Bridges,
           SocketDrops(b) \/ ConnectionClosed(b) \/ UpdateAccountValue(b)
    PROVE  Still
<1>1. b \in Threads
  BY DEF Threads
<1>2. CASE SocketDrops(b) \/ UpdateAccountValue(b)
  BY <1>2, SufferKeeps DEF SocketDrops, UpdateAccountValue, service, state, emergency,
     threads, Still, Quiet
<1>3. CASE ConnectionClosed(b)
  BY <1>1, <1>3, GoMoves DEF ConnectionClosed, service, state, emergency, Still, Quiet,
     Stopping, Halting, Resuming
<1> QED BY <1>2, <1>3

\* The steps of a connection that do change its state have no part in a halt.
LEMMA QuietSteps ==
    ASSUME TypeOK, NEW t \in Threads,
           ConnectFails(t) \/ SetConnected(t) \/ SetDisconnected(t)
    PROVE  Quiet
<1>j. job[t].then \in {"idle", "undo", "fail"}
  BY DEF TypeOK, Job
<1>1. pc[t] \notin Stopping /\ \E l, j : Go(t, l, j) /\ l \notin Stopping
  BY <1>j DEF ConnectFails, SetConnected, SetDisconnected, Stopping, Halting, Resuming
<1>2. UNCHANGED emergency /\ seen \subseteq seen'
  BY SufferKeeps DEF ConnectFails, SetConnected, SetDisconnected
<1> QED BY <1>1, <1>2, GoMoves DEF Quiet

\* What a step can be, for the emergency stop.
LEMMA StopCases ==
    ASSUME TypeOK, [Next]_vars
    PROVE  \/ Still
           \/ \E t \in Threads : ConnectFails(t) \/ SetConnected(t) \/ SetDisconnected(t)
           \/ \E t \in Threads : Halt(t) \/ MarkHalted(t) \/ WriteMarker(t)
           \/ \E t \in Threads : \/ Resume(t) \/ ReleaseFlag(t) \/ ReadConnection(t)
                                 \/ RestoreState(t) \/ CapState(t) \/ LowerState(t)
           \/ Restart
<1>1. ASSUME UNCHANGED vars PROVE Still
  BY <1>1 DEF vars, service, threads, Still, Quiet
<1>2. Requests \subseteq Threads
  BY DEF Threads
<1> QED BY <1>1, <1>2, StillSteps, BridgeStill DEF Next, Request, Continue

\* Why a halt that has returned is known: it was written, or it was not and
\* the flag is left; and who takes the flag back had begun after it, or met it.
HaltInv ==
    /\ \A t \in Threads : pc[t] \in Halting => flag \/ "race" \in seen
    /\ \A t, u \in Threads : pc[t] \in Halting /\ pc[u] \in Resuming => "race" \in seen
    /\ \A t \in Threads : halted /\ pc[t] \in Resuming => "race" \in seen
    /\ halted => file \/ "disk" \in seen
    /\ halted => flag \/ file \/ seen \cap {"restart", "race"} # {}

LEMMA HaltStep == ASSUME TypeOK, HaltInv, [Next]_vars PROVE HaltInv'
<1> DEFINE Met == Halting \cap Resuming = {} /\ "idle" \notin Halting \cup Resuming
<1>m. Met
  BY DEF Halting, Resuming
<1>1. ASSUME Quiet PROVE HaltInv'
  BY <1>1 DEF Quiet, HaltInv, Stopping, emergency
<1>2. ASSUME NEW t \in Threads, Halt(t) PROVE HaltInv'
  <2>1. seen \subseteq seen' /\ (At(Resuming) # {} => "race" \in seen')
    BY <1>2, SufferKeeps DEF Halt
  <2>2. "mark" \in Halting /\ "mark" \notin Resuming
    BY DEF Halting, Resuming
  <2> QED BY <1>2, <2>1, <2>2, GoMoves DEF Halt, HaltInv, At
<1>3. ASSUME NEW t \in Threads, MarkHalted(t) PROVE HaltInv'
  BY <1>3, GoMoves DEF MarkHalted, HaltInv, emergency, Halting, Resuming
<1>4. ASSUME NEW t \in Threads, WriteMarker(t) PROVE HaltInv'
  <2>1. seen \subseteq seen' /\ (file' = TRUE \/ "disk" \in seen')
    BY <1>4, SufferKeeps DEF WriteMarker
  <2>2. pc[t] \in Halting /\ pc'[t] = "idle" /\ halted' /\ flag' = flag
        /\ \A u \in Threads : u # t => pc'[u] = pc[u]
    BY <1>4, GoMoves DEF WriteMarker, Halting
  <2> QED BY <1>m, <2>1, <2>2 DEF HaltInv
<1>5. ASSUME NEW t \in Threads, Resume(t) PROVE HaltInv'
  <2>1. /\ ~halted' /\ flag' = flag /\ ("race" \in seen => "race" \in seen')
        /\ At(Halting) # {} => "race" \in seen'
    BY <1>5, SufferKeeps DEF Resume
  <2>2. pc'[t] = "release" /\ \A u \in Threads : u # t => pc'[u] = pc[u]
    BY <1>5, GoMoves DEF Resume
  <2>3. "release" \notin Halting
    BY DEF Halting
  <2> QED BY <2>1, <2>2, <2>3 DEF HaltInv, At
<1>6. ASSUME NEW t \in Threads,
             \/ ReleaseFlag(t) \/ ReadConnection(t) \/ RestoreState(t) \/ CapState(t)
             \/ LowerState(t)
      PROVE  HaltInv'
  <2>1. pc[t] \in Resuming /\ pc'[t] \notin Halting
        /\ \A u \in Threads : u # t => pc'[u] = pc[u]
    BY <1>6, GoMoves DEF ReleaseFlag, ReadConnection, RestoreState, CapState, LowerState,
       Resuming, Halting
  <2>2. UNCHANGED <<file, halted>> /\ seen \subseteq seen'
    BY <1>6, SufferKeeps DEF ReleaseFlag, ReadConnection, RestoreState, CapState,
       LowerState, emergency
  <2>3. pc[t] = "release" \/ UNCHANGED flag
    BY <1>6 DEF ReleaseFlag, ReadConnection, RestoreState, CapState, LowerState, emergency
  <2> QED BY <2>1, <2>2, <2>3 DEF HaltInv
<1>7. ASSUME Restart PROVE HaltInv'
  BY <1>7, <1>m DEF Restart, HaltInv
<1> QED BY <1>1, <1>2, <1>3, <1>4, <1>5, <1>6, <1>7, StopCases, QuietSteps DEF Still

LEMMA HaltInit == Init => HaltInv
  BY DEF Init, HaltInv, Halting, Resuming

LEMMA HaltAlways == Spec => [](TypeOK /\ HaltInv)
  BY TypeInit, TypeStep, HaltInit, HaltStep, PTL DEF Spec

(* A halt that has returned is in force until somebody resumes, in memory   *)
(* or on disk, whatever connects, is lost, resumes or restarts meanwhile:   *)
(* it is forgotten only if its marker could not be written and the process  *)
(* restarted, or a resume was under way (halt, resume, api_emergency.py).   *)
THEOREM HaltRemembered == Spec => []HaltHolds
<1>1. HaltInv => HaltHolds
  BY DEF HaltInv, HaltHolds
<1> QED BY <1>1, HaltAlways, PTL

(* No manual order that comes to the gate after a halt returned is let      *)
(* through, with the same exception (validate_manual_order).                *)
THEOREM GateClosed == Spec => GateSeesHalt
<1> DEFINE Sees == \A t \in Requests :
                      pc[t] = "gate" /\ pc'[t] = "record" =>
                         \/ ~halted
                         \/ "disk" \in seen /\ seen \cap {"restart", "race"} # {}
<1>1. ASSUME TypeOK, HaltInv, [Next]_vars PROVE Sees \/ UNCHANGED vars
  <2> SUFFICES ASSUME NEW t \in Requests, pc[t] = "gate", pc'[t] = "record", Next, halted
               PROVE  "disk" \in seen /\ seen \cap {"restart", "race"} # {}
    BY <1>1
  <2>1. ~(file \/ flag)
    <3>1. t \in Threads
      BY DEF Threads
    <3>2. ASSUME NEW u \in Threads, Request(u) \/ Continue(u) PROVE ~(file \/ flag)
      <4>1. \E l, j : Go(u, l, j)
        BY <3>2 DEF Request, Continue, Connect, Disconnect, Halt, Resume, SubmitOrder,
           BridgeUp, BridgeTimesOut, ConnectFails, AttachBridge, SetConnected,
           CheckAccount, DetachBridge, CloseBridge, NoticeLost, SetDisconnected,
           MarkHalted, WriteMarker, ReleaseFlag, ReadConnection, RestoreState, CapState,
           LowerState, ValidateManualOrder, RecordOrder
      <4>2. u = t
        BY <1>1, <3>1, <4>1, GoMoves
      <4>3. ValidateManualOrder(t)
        BY <3>2, <4>2 DEF Request, Continue, Connect, Disconnect, Halt, Resume,
           SubmitOrder, BridgeUp, BridgeTimesOut, ConnectFails, AttachBridge,
           SetConnected, CheckAccount, DetachBridge, CloseBridge, NoticeLost,
           SetDisconnected, MarkHalted, WriteMarker, ReleaseFlag, ReadConnection,
           RestoreState, CapState, LowerState, RecordOrder
      <4>4. PICK l : Go(t, l, NoJob) /\ (l = "record" => ~(file \/ flag))
        BY <4>3 DEF ValidateManualOrder
      <4> QED BY <1>1, <3>1, <4>4, GoMoves
    <3>3. ASSUME NEW b \in Bridges, ConnectionClosed(b) PROVE FALSE
      <4>1. b \in Threads /\ b # t
        BY DisjointAssumption DEF Threads
      <4> QED BY <1>1, <3>1, <3>3, <4>1, GoMoves DEF ConnectionClosed
    <3>4. ~Restart
      BY <3>1 DEF Restart
    <3>5. \A b \in Bridges : ~SocketDrops(b) /\ ~UpdateAccountValue(b)
      BY DEF SocketDrops, UpdateAccountValue, threads
    <3>6. Requests \subseteq Threads
      BY DEF Threads
    <3> QED BY <3>2, <3>3, <3>4, <3>5, <3>6 DEF Next
  <2> QED BY <1>1, <2>1 DEF HaltInv
<1>2. TypeOK /\ HaltInv /\ [Next]_vars => [Sees]_vars
  BY <1>1
<1> QED BY <1>2, HaltAlways, PTL DEF Spec, GateSeesHalt
-----------------------------------------------------------------------------
(* What the trading state says of the stop and of the connection.           *)

ShownInv ==
    /\ \A t \in Threads : pc[t] = "write" /\ AllowsOrders(tstate) => "race" \in seen
    /\ \A t \in Threads :
          pc[t] \in {"read", "restore", "cap", "lower"} /\ flag => "race" \in seen
    /\ StateShowsStop

ConnectedInv ==
    /\ StateIsConnected
    /\ armer # "none" => tstate = "LIVE_TRADING_ARMED"

LEMMA StateForAllows ==
    ASSUME NEW e \in Envs \cup {None}
    PROVE  /\ AllowsOrders(StateFor(e)) <=> e # None
           /\ StateFor(None) = "DISCONNECTED"
  BY DisjointAssumption DEF Envs, StateFor, AllowsOrders

LEMMA NotAllowed ==
    \A s \in {"EMERGENCY_STOP", "DISCONNECTED", "CONNECTION_FAILED", "CONNECTED_READ_ONLY"} :
        ~AllowsOrders(s) /\ s # "LIVE_TRADING_ARMED"
  BY DEF AllowsOrders

\* Who is at work on a stop is so after a step that has no part in it.
LEMMA QuietAt ==
    ASSUME Quiet, NEW P \in SUBSET Stopping
    PROVE  At(P)' = At(P)
  BY DEF Quiet, At

LEMMA ShownStep == ASSUME TypeOK, HaltInv, ShownInv, [Next]_vars PROVE ShownInv'
<1>q. Halting \subseteq Stopping /\ Resuming \subseteq Stopping
  BY DEF Stopping
<1>w. /\ "write" \in Halting /\ "mark" \in Halting
      /\ {"read", "restore", "cap", "lower"} \subseteq Resuming
  BY DEF Halting, Resuming
<1>1. ASSUME Quiet, UNCHANGED tstate \/ ~AllowsOrders(tstate') PROVE ShownInv'
  <2>1. At(Halting)' = At(Halting)
    BY <1>1, <1>q, QuietAt
  <2>2. flag' = flag /\ seen \subseteq seen'
        /\ \A u \in Threads : pc'[u] \in Stopping => pc[u] = pc'[u]
    BY <1>1 DEF Quiet, emergency
  <2>3. AllowsOrders(tstate') => AllowsOrders(tstate)
    BY <1>1
  <2> QED BY <1>q, <1>w, <2>1, <2>2, <2>3 DEF ShownInv, StateShowsStop
<1>2. ASSUME NEW t \in Threads, ConnectFails(t) \/ SetDisconnected(t) PROVE ShownInv'
  <2>1. UNCHANGED tstate \/ ~AllowsOrders(tstate')
    BY <1>2, NotAllowed DEF ConnectFails, SetDisconnected, SetState, state
  <2> QED BY <1>1, <1>2, <2>1, QuietSteps
<1>3. ASSUME NEW t \in Threads, SetConnected(t) PROVE ShownInv'
  <2>1. Quiet
    BY <1>3, QuietSteps
  <2>2. CASE flag
    <3>1. ~AllowsOrders(tstate')
      BY <1>3, <2>2, NotAllowed DEF SetConnected, SetState
    <3> QED BY <1>1, <2>1, <3>1
  <2>3. CASE ~flag
    <3>1. ~flag' /\ seen \subseteq seen'
          /\ \A u \in Threads : pc'[u] \in Stopping => pc[u] = pc'[u]
      BY <2>1, <2>3 DEF Quiet, emergency
    <3>2. \A u \in Threads : pc'[u] = "write" => "race" \in seen'
      BY <3>1, <2>3, <1>q, <1>w DEF HaltInv
    <3> QED BY <3>1, <3>2 DEF ShownInv, StateShowsStop
  <2> QED BY <2>2, <2>3
<1>4. ASSUME NEW t \in Threads, Halt(t) PROVE ShownInv'
  <2>1. seen \subseteq seen' /\ (At(Resuming) # {} => "race" \in seen') /\ UNCHANGED tstate
    BY <1>4, SufferKeeps DEF Halt, state
  <2>2. pc'[t] = "mark" /\ \A u \in Threads : u # t => pc'[u] = pc[u]
    BY <1>4, GoMoves DEF Halt
  <2>3. At(Halting)' # {}
    BY <1>w, <2>2 DEF At
  <2> QED BY <1>w, <2>1, <2>2, <2>3 DEF ShownInv, StateShowsStop, At
<1>5. ASSUME NEW t \in Threads, MarkHalted(t) PROVE ShownInv'
  <2>1. ~AllowsOrders(tstate') /\ UNCHANGED <<flag, seen>>
    BY <1>5, NotAllowed DEF MarkHalted, SetState, emergency
  <2>2. pc'[t] = "write" /\ \A u \in Threads : u # t => pc'[u] = pc[u]
    BY <1>5, GoMoves DEF MarkHalted
  <2> QED BY <2>1, <2>2 DEF ShownInv, StateShowsStop
<1>6. ASSUME NEW t \in Threads, WriteMarker(t) PROVE ShownInv'
  <2>1. UNCHANGED <<tstate, flag>> /\ seen \subseteq seen' /\ pc[t] = "write"
    BY <1>6, SufferKeeps DEF WriteMarker, state
  <2>2. pc'[t] = "idle" /\ \A u \in Threads : u # t => pc'[u] = pc[u]
    BY <1>6, GoMoves DEF WriteMarker
  <2>3. AllowsOrders(tstate') => "race" \in seen'
    BY <2>1 DEF ShownInv
  <2> QED BY <2>1, <2>2, <2>3 DEF ShownInv, StateShowsStop
<1>7. ASSUME NEW t \in Threads, Resume(t) PROVE ShownInv'
  <2>1. UNCHANGED <<tstate, flag>> /\ ("race" \in seen => "race" \in seen')
        /\ (At(Halting) # {} => "race" \in seen')
    BY <1>7, SufferKeeps DEF Resume, state
  <2>2. pc'[t] = "release" /\ \A u \in Threads : u # t => pc'[u] = pc[u]
    BY <1>7, GoMoves DEF Resume
  <2> QED BY <2>1, <2>2 DEF ShownInv, StateShowsStop
<1>8. ASSUME NEW t \in Threads, ReleaseFlag(t) PROVE ShownInv'
  <2>1. ~flag' /\ UNCHANGED <<tstate, seen>> /\ pc'[t] = "read"
        /\ \A u \in Threads : u # t => pc'[u] = pc[u]
    BY <1>8, GoMoves DEF ReleaseFlag, state
  <2> QED BY <2>1 DEF ShownInv, StateShowsStop
<1>9. ASSUME NEW t \in Threads, ReadConnection(t) \/ CapState(t) \/ LowerState(t)
      PROVE  ShownInv'
  <2>1. /\ flag' = flag /\ seen' = seen
        /\ UNCHANGED tstate \/ ~AllowsOrders(tstate')
        /\ pc[t] \in Resuming
    BY <1>9, NotAllowed, <1>w DEF ReadConnection, CapState, LowerState, SetState, state,
       emergency, Resuming
  <2>2. pc'[t] \in {"restore", "lower", "idle"}
        /\ (pc'[t] # "idle" => pc[t] \in {"read", "restore", "cap", "lower"})
        /\ \A u \in Threads : u # t => pc'[u] = pc[u]
    BY <1>9, GoMoves DEF ReadConnection, CapState, LowerState
  <2>3. "race" \in seen \/ At(Halting) \subseteq At(Halting)'
    BY <2>1, <2>2 DEF At, HaltInv
  <2> QED BY <2>1, <2>2, <2>3 DEF ShownInv, StateShowsStop
<1>10. ASSUME NEW t \in Threads, RestoreState(t) PROVE ShownInv'
  <2>1. flag' = flag /\ seen \subseteq seen' /\ pc[t] = "restore"
    BY <1>10, SufferKeeps DEF RestoreState, emergency
  <2>2. pc'[t] = "cap" /\ \A u \in Threads : u # t => pc'[u] = pc[u]
    BY <1>10, GoMoves DEF RestoreState
  <2>3. flag => "race" \in seen
    BY <2>1 DEF ShownInv
  <2>4. \A u \in Threads : pc[u] = "write" => "race" \in seen
    BY <1>w, <2>1 DEF HaltInv
  <2> QED BY <2>1, <2>2, <2>3, <2>4 DEF ShownInv, StateShowsStop
<1>11. ASSUME Restart PROVE ShownInv'
  BY <1>11 DEF Restart, ShownInv, StateShowsStop
<1> QED BY <1>1, <1>2, <1>3, <1>4, <1>5, <1>6, <1>7, <1>8, <1>9, <1>10, <1>11, StopCases
        DEF Still, state

LEMMA ShownInit == Init => ShownInv
  BY DEF Init, ShownInv, StateShowsStop

(* While the flag of the stop is set the trading state allows no order,     *)
(* unless a halt has not got to it yet or a halt met a resume: no           *)
(* connection, loss or failure clears a stop (services.py:203-204).         *)
THEOREM StopShows == Spec => []StateShowsStop
<1>1. ShownInv => StateShowsStop
  BY DEF ShownInv
<1> QED BY <1>1, HaltAlways, ShownInit, ShownStep, PTL DEF Spec

LEMMA ConnectedStep ==
    ASSUME TypeOK, HaltInv, ShownInv, ConnectedInv, [Next]_vars
    PROVE  ConnectedInv'
<1>q. Halting \subseteq Stopping /\ {"cap", "lower"} \subseteq Stopping
  BY DEF Stopping, Resuming
<1>t. conn \in Envs \cup {None} /\ \A t \in Threads : job[t].env \in Envs \cup {None}
  BY DEF TypeOK, Job
<1>1. ASSUME Still PROVE ConnectedInv'
  <2>1. At(Halting)' = At(Halting) /\ At({"cap", "lower"})' = At({"cap", "lower"})
    BY <1>1, <1>q, QuietAt DEF Still
  <2>2. UNCHANGED <<conn, tstate, armer>> /\ seen \subseteq seen'
    BY <1>1 DEF Still, Quiet, state
  <2> QED BY <2>1, <2>2 DEF ConnectedInv, StateIsConnected
<1>2. ASSUME NEW t \in Threads, ConnectFails(t) PROVE ConnectedInv'
  BY <1>2, NotAllowed DEF ConnectFails, SetState, ConnectedInv, StateIsConnected
<1>3. ASSUME NEW t \in Threads, SetConnected(t) PROVE ConnectedInv'
  <2>1. conn' = job[t].env
        /\ SetState(IF flag THEN "EMERGENCY_STOP" ELSE StateFor(job[t].env), "connect")
    BY <1>3 DEF SetConnected
  <2> QED BY <1>t, <2>1, NotAllowed, StateForAllows
          DEF SetState, ConnectedInv, StateIsConnected
<1>4. ASSUME NEW t \in Threads, SetDisconnected(t) PROVE ConnectedInv'
  <2>1. Quiet /\ At(Halting)' = At(Halting) /\ At({"cap", "lower"})' = At({"cap", "lower"})
    BY <1>4, <1>q, QuietSteps, QuietAt
  <2>2. seen \subseteq seen'
    BY <2>1 DEF Quiet
  <2>3. CASE flag
    BY <1>4, <2>1, <2>2, <2>3 DEF SetDisconnected, state, ShownInv, StateShowsStop,
       ConnectedInv, StateIsConnected
  <2>4. CASE ~flag
    BY <1>4, <2>4, NotAllowed DEF SetDisconnected, SetState, ConnectedInv, StateIsConnected
  <2> QED BY <2>3, <2>4
<1>5. ASSUME NEW t \in Threads, Halt(t) PROVE ConnectedInv'
  <2>1. UNCHANGED <<conn, tstate, armer>> /\ seen \subseteq seen' /\ pc[t] = "idle"
    BY <1>5, SufferKeeps DEF Halt, service, state
  <2>2. pc'[t] = "mark" /\ \A u \in Threads : u # t => pc'[u] = pc[u]
    BY <1>5, GoMoves DEF Halt
  <2>3. At(Halting)' # {} /\ At({"cap", "lower"}) \subseteq At({"cap", "lower"})'
    BY <2>1, <2>2 DEF At, Halting
  <2> QED BY <2>1, <2>3 DEF ConnectedInv, StateIsConnected
<1>6. ASSUME NEW t \in Threads, MarkHalted(t) PROVE ConnectedInv'
  BY <1>6, NotAllowed DEF MarkHalted, SetState, ConnectedInv, StateIsConnected
<1>7. ASSUME NEW t \in Threads, WriteMarker(t) PROVE ConnectedInv'
  <2>1. UNCHANGED <<conn, tstate, armer>> /\ seen \subseteq seen' /\ pc[t] = "write"
    BY <1>7, SufferKeeps DEF WriteMarker, service, state
  <2>2. \A u \in Threads : u # t => pc'[u] = pc[u]
    BY <1>7, GoMoves DEF WriteMarker
  <2>3. At({"cap", "lower"}) \subseteq At({"cap", "lower"})'
    BY <2>1, <2>2 DEF At
  <2>4. AllowsOrders(tstate') => "race" \in seen'
    BY <2>1 DEF ShownInv
  <2> QED BY <2>1, <2>3, <2>4 DEF ConnectedInv, StateIsConnected
<1>8. ASSUME NEW t \in Threads, Resume(t) \/ ReleaseFlag(t) \/ ReadConnection(t)
      PROVE  ConnectedInv'
  <2>1. /\ UNCHANGED <<conn, tstate, armer>>
        /\ seen \cap {"race", "moved"} \subseteq seen'
        /\ pc[t] \in {"idle", "release", "read"}
    BY <1>8, SufferKeeps DEF Resume, ReleaseFlag, ReadConnection, service, state
  <2>2. \A u \in Threads : u # t => pc'[u] = pc[u]
    BY <1>8, GoMoves DEF Resume, ReleaseFlag, ReadConnection
  <2>3. At({"cap", "lower"}) \subseteq At({"cap", "lower"})'
        /\ At(Halting) \subseteq At(Halting)'
    BY <2>1, <2>2 DEF At, Halting
  <2> QED BY <2>1, <2>3 DEF ConnectedInv, StateIsConnected
<1>9. ASSUME NEW t \in Threads, RestoreState(t) PROVE ConnectedInv'
  <2>1. /\ SetState(StateFor(job[t].env), "resume") /\ UNCHANGED conn
        /\ job[t].env # conn => "moved" \in seen'
    BY <1>9, SufferKeeps DEF RestoreState, service
  <2>2. At({"cap", "lower"})' # {}
    BY <1>9, GoMoves DEF RestoreState, At
  <2> QED BY <1>t, <2>1, <2>2, StateForAllows
          DEF SetState, ConnectedInv, StateIsConnected
<1>10. ASSUME NEW t \in Threads, CapState(t) PROVE ConnectedInv'
  <2>1. UNCHANGED <<conn, tstate, armer, seen>> /\ pc[t] = "cap"
    BY <1>10 DEF CapState, service, state
  <2>2. pc'[t] = (IF tstate = "LIVE_TRADING_ARMED" THEN "lower" ELSE "idle")
        /\ \A u \in Threads : u # t => pc'[u] = pc[u]
    BY <1>10, GoMoves DEF CapState
  <2>3. At(Halting) \subseteq At(Halting)'
    BY <2>1, <2>2 DEF At, Halting
  <2>4. armer = "none" \/ At({"cap", "lower"})' # {}
    BY <2>2 DEF At, ConnectedInv
  <2> QED BY <2>1, <2>3, <2>4 DEF ConnectedInv, StateIsConnected
<1>11. ASSUME NEW t \in Threads, LowerState(t) PROVE ConnectedInv'
  BY <1>11, NotAllowed DEF LowerState, SetState, ConnectedInv, StateIsConnected
<1>12. ASSUME Restart PROVE ConnectedInv'
  BY <1>12, NotAllowed DEF Restart, ConnectedInv, StateIsConnected
<1> QED BY <1>1, <1>2, <1>3, <1>4, <1>5, <1>6, <1>7, <1>8, <1>9, <1>10, <1>11, <1>12,
           StopCases

LEMMA ConnectedInit == Init => ConnectedInv
  BY NotAllowed DEF Init, ConnectedInv, StateIsConnected

(* The state allows orders only for the environment that is connected, but  *)
(* for a halt or resume in progress or raced, and never arms live trading   *)
(* by a resume (set_connected, set_disconnected, resume).                   *)
THEOREM StateConnected == Spec => []StateIsConnected
<1>1. ConnectedInv => StateIsConnected
  BY DEF ConnectedInv
<1> QED BY <1>1, HaltAlways, ShownInit, ShownStep, ConnectedInit, ConnectedStep, PTL
        DEF Spec
-----------------------------------------------------------------------------
(* Which socket is behind a connection.                                     *)

Busy == Connecting \cup Closing

\* The hazards that are an excuse here.
Excuses == {"early", "stray", "overlap", "late"}

\* What the threads that connect or close have in hand.
ThreadInv ==
    /\ \A t, u \in Requests : pc[t] \in Busy /\ pc[u] \in Busy /\ t # u => "overlap" \in seen
    /\ \A b \in Bridges : pc[b] \in {"idle", "notice", "undo"} /\ job[b].then = "idle"
    /\ \A t \in Threads :
          /\ pc[t] \in {"dial", "attach", "announce"} =>
                job[t].bridge \in Bridges /\ job[t].env \in Envs
          /\ pc[t] = "dial" => socket[job[t].bridge] = "opening"
          /\ pc[t] = "notice" => job[t].bridge \in Bridges /\ socket[job[t].bridge] = "down"
    /\ \A t, u \in Threads :
          pc[t] = "dial" /\ pc[u] = "dial" /\ job[t].bridge = job[u].bridge => t = u
    /\ \A b \in Bridges : lost[b] > 0 => socket[b] = "down"

\* What connection there is while one is made or unmade.
SocketInv ==
    /\ \A t \in Threads :
          /\ pc[t] \in {"dial", "attach", "announce"} => conn = None \/ "overlap" \in seen
          /\ pc[t] \in {"attach", "announce"} =>
                \/ socket[job[t].bridge] = "up"
                \/ seen \cap {"early", "overlap", "stray"} # {}
          /\ pc[t] = "announce" =>
                bridge = job[t].bridge \/ seen \cap {"early", "overlap", "stray"} # {}
    /\ conn = None /\ bridge # None =>
          \/ \E t \in Threads : pc[t] = "announce"
          \/ seen \cap {"overlap", "stray"} # {}

\* A step that neither makes nor unmakes a connection.
Aside ==
    /\ UNCHANGED <<service, sockets>>
    /\ seen \cap Excuses \subseteq seen'
    /\ \A t \in Threads :
          pc[t] \in Busy \/ pc'[t] \in Busy => pc'[t] = pc[t] /\ job'[t] = job[t]
    /\ \A b \in Bridges : pc[b] = "idle" => pc'[b] = "idle" /\ job'[b] = job[b]

LEMMA AsideSteps ==
    ASSUME TypeOK, ThreadInv, NEW t \in Threads,
           \/ t \in Requests /\ (Halt(t) \/ Resume(t) \/ SubmitOrder(t))
           \/ MarkHalted(t) \/ WriteMarker(t) \/ ReleaseFlag(t) \/ ReadConnection(t)
           \/ RestoreState(t) \/ CapState(t) \/ LowerState(t)
           \/ ValidateManualOrder(t) \/ RecordOrder(t)
    PROVE  Aside
<1>b. {"idle", "mark", "write", "release", "read", "restore", "cap", "lower", "gate",
       "record"} \cap Busy = {}
  BY DEF Busy, Connecting, Closing
<1>1. pc[t] \in {"idle", "mark", "write", "release", "read", "restore", "cap", "lower",
                 "gate", "record"}
  BY DEF Halt, Resume, SubmitOrder, MarkHalted, WriteMarker, ReleaseFlag, ReadConnection,
     RestoreState, CapState, LowerState, ValidateManualOrder, RecordOrder
<1>2. t \in Requests
  BY <1>1 DEF ThreadInv, Threads, MarkHalted, WriteMarker, ReleaseFlag, ReadConnection,
     RestoreState, CapState, LowerState, ValidateManualOrder, RecordOrder
<1>3. \E l \in {"idle", "mark", "write", "release", "read", "restore", "cap", "lower",
                "gate", "record"} : \E j : Go(t, l, j)
  BY DEF Halt, Resume, SubmitOrder, MarkHalted, WriteMarker, ReleaseFlag, ReadConnection,
     RestoreState, CapState, LowerState, ValidateManualOrder, RecordOrder
<1>4. pc[t] \notin Busy /\ pc'[t] \notin Busy
      /\ \A u \in Threads : u # t => pc'[u] = pc[u] /\ job'[u] = job[u]
  BY <1>b, <1>1, <1>3, GoMoves
<1>5. \A b \in Bridges : b \in Threads /\ b # t
  BY <1>2, DisjointAssumption DEF Threads
<1>6. UNCHANGED <<service, sockets>>
  BY DEF Halt, Resume, SubmitOrder, MarkHalted, WriteMarker, ReleaseFlag, ReadConnection,
     RestoreState, CapState, LowerState, ValidateManualOrder, RecordOrder
<1>7. seen \cap Excuses \subseteq seen'
  BY SufferKeeps DEF Halt, Resume, SubmitOrder, MarkHalted, WriteMarker, ReleaseFlag,
     ReadConnection, RestoreState, CapState, LowerState, ValidateManualOrder, RecordOrder,
     Excuses
<1> QED BY <1>4, <1>5, <1>6, <1>7 DEF Aside

\* What a step can be, for a connection.
LEMMA SocketCases ==
    ASSUME TypeOK, ThreadInv, [Next]_vars
    PROVE  \/ Aside
           \/ \E t \in Requests : \/ \E e \in Envs, b \in Bridges : Connect(t, e, b)
                                  \/ Disconnect(t)
                                  \/ BridgeUp(t) \/ BridgeTimesOut(t) \/ ConnectFails(t)
                                  \/ AttachBridge(t) \/ SetConnected(t) \/ CheckAccount(t)
                                  \/ DetachBridge(t) \/ CloseBridge(t)
           \/ \E t \in Threads : NoticeLost(t) \/ SetDisconnected(t)
           \/ \E b \in Bridges : SocketDrops(b) \/ ConnectionClosed(b) \/ UpdateAccountValue(b)
           \/ Restart
<1>1. ASSUME UNCHANGED vars PROVE Aside
  BY <1>1 DEF vars, threads, Aside
<1>2. ASSUME NEW t \in Threads,
             \/ BridgeUp(t) \/ BridgeTimesOut(t) \/ ConnectFails(t)
             \/ AttachBridge(t) \/ SetConnected(t) \/ CheckAccount(t)
             \/ DetachBridge(t) \/ CloseBridge(t)
      PROVE  t \in Requests
  BY <1>2 DEF ThreadInv, Threads, BridgeUp, BridgeTimesOut, ConnectFails, AttachBridge,
     SetConnected, CheckAccount, DetachBridge, CloseBridge
<1>3. Requests \subseteq Threads
  BY DEF Threads
<1> QED BY <1>1, <1>2, <1>3, AsideSteps DEF Next, Request, Continue

\* A request that moves on with a connection is still the only one.
LEMMA AloneKept ==
    ASSUME TypeOK, ThreadInv, NEW t \in Requests, pc[t] \in Busy, seen \subseteq seen',
           \A u \in Threads : u # t => pc'[u] = pc[u] /\ job'[u] = job[u]
    PROVE  /\ \A u, w \in Requests :
                 pc'[u] \in Busy /\ pc'[w] \in Busy /\ u # w => "overlap" \in seen'
           /\ \A b \in Bridges :
                 pc'[b] \in {"idle", "notice", "undo"} /\ job'[b].then = "idle"
<1>1. t \in Threads /\ \A u \in Requests : u \in Threads
  BY DEF Threads
<1>2. \A b \in Bridges : b \in Threads /\ b # t
  BY DisjointAssumption DEF Threads
<1>3. \A u \in Requests : pc'[u] \in Busy => pc[u] \in Busy
  BY <1>1
<1> QED BY <1>1, <1>2, <1>3 DEF ThreadInv

LEMMA ThreadStep == ASSUME TypeOK, ThreadInv, [Next]_vars PROVE ThreadInv'
<1>b. /\ {"dial", "attach", "announce", "notice", "check", "detach", "close", "fail",
          "undo"} \subseteq Busy
      /\ "idle" \notin Busy
  BY DEF Busy, Connecting, Closing
<1>t. /\ \A u \in Requests \cup Bridges : u \in Threads
      /\ \A u \in Requests, b \in Bridges : u # b
  BY DisjointAssumption DEF Threads
<1>d. /\ socket \in [Bridges -> Sockets] /\ lost \in [Bridges -> 0..2]
      /\ \A u \in Threads : job[u].then \in {"idle", "undo", "fail"}
                            /\ job[u].bridge \in Bridges \cup {None}
  BY DEF TypeOK, Job
<1>n. None \notin Bridges
  BY DisjointAssumption
<1>1. ASSUME Aside PROVE ThreadInv'
  <2>1. UNCHANGED <<socket, lost>>
    BY <1>1 DEF Aside, sockets
  <2>2. "overlap" \in seen => "overlap" \in seen'
    BY <1>1 DEF Aside, Excuses
  <2>3. \A u \in Threads : pc'[u] \in Busy => pc'[u] = pc[u] /\ job'[u] = job[u]
    BY <1>1 DEF Aside
  <2>4. \A c \in Bridges : pc'[c] = pc[c] /\ job'[c] = job[c]
    BY <1>1, <1>b, <1>t DEF Aside, ThreadInv
  <2>5. \A u \in Requests : pc'[u] \in Busy => pc[u] \in Busy
    BY <1>t, <2>3
  <2>6. \A u \in Threads :
           pc'[u] \in {"dial", "attach", "announce", "notice"} =>
              pc'[u] = pc[u] /\ job'[u] = job[u]
    BY <1>b, <2>3
  <2> QED BY <2>1, <2>2, <2>4, <2>5, <2>6 DEF ThreadInv
<1>2. ASSUME NEW t \in Requests, NEW e \in Envs, NEW b \in Bridges, Connect(t, e, b)
      PROVE  ThreadInv'
  <2>1. /\ pc[t] = "idle" /\ socket[b] = "none"
        /\ socket' = [socket EXCEPT ![b] = "opening"] /\ lost' = lost
    BY <1>2 DEF Connect
  <2>2. /\ pc'[t] = "dial" /\ job'[t].bridge = b /\ job'[t].env = e
        /\ \A u \in Threads : u # t => pc'[u] = pc[u] /\ job'[u] = job[u]
    <3>1. /\ [NoJob EXCEPT !.env = e, !.bridge = b].bridge = b
          /\ [NoJob EXCEPT !.env = e, !.bridge = b].env = e
      BY DEF NoJob
    <3>2. Go(t, "dial", [NoJob EXCEPT !.env = e, !.bridge = b])
      BY <1>2 DEF Connect
    <3>3. PICK j : Go(t, "dial", j) /\ j.bridge = b /\ j.env = e
      BY <3>1, <3>2, Zenon
    <3> QED BY <1>t, <3>3, GoMoves
  <2>3. seen \subseteq seen' /\ (At(Connecting \cup Closing) \cap Requests # {} => "overlap" \in seen')
    BY <1>2, SufferKeeps DEF Connect
  <2>4. \A u \in Requests : u # t /\ pc[u] \in Busy => "overlap" \in seen'
    BY <1>t, <2>3 DEF At, Busy
  <2>5. \A u, w \in Requests :
           pc'[u] \in Busy /\ pc'[w] \in Busy /\ u # w => "overlap" \in seen'
    BY <1>t, <2>2, <2>4
  <2>6. \A u \in Threads : u # t /\ job[u].bridge = b => pc[u] \notin {"dial", "notice"}
    BY <2>1 DEF ThreadInv
  <2>7. \A c \in Bridges : lost'[c] > 0 => socket'[c] = "down"
    BY <1>d, <2>1 DEF ThreadInv
  <2>8. \A u \in Threads :
          /\ pc'[u] \in {"dial", "attach", "announce"} =>
                job'[u].bridge \in Bridges /\ job'[u].env \in Envs
          /\ pc'[u] = "dial" => socket'[job'[u].bridge] = "opening"
          /\ pc'[u] = "notice" => job'[u].bridge \in Bridges /\ socket'[job'[u].bridge] = "down"
    BY <1>d, <2>1, <2>2, <2>6 DEF ThreadInv
  <2>9. \A u, w \in Threads :
          pc'[u] = "dial" /\ pc'[w] = "dial" /\ job'[u].bridge = job'[w].bridge => u = w
    BY <2>2, <2>6 DEF ThreadInv
  <2>10. \A c \in Bridges : pc'[c] \in {"idle", "notice", "undo"} /\ job'[c].then = "idle"
    BY <1>t, <2>2 DEF ThreadInv
  <2> QED BY <2>5, <2>7, <2>8, <2>9, <2>10 DEF ThreadInv
<1>3. ASSUME NEW t \in Requests, Disconnect(t) PROVE ThreadInv'
  <2>1. pc[t] = "idle" /\ UNCHANGED <<socket, lost>>
    BY <1>3 DEF Disconnect, sockets
  <2>2. pc'[t] = "detach" /\ \A u \in Threads : u # t => pc'[u] = pc[u] /\ job'[u] = job[u]
    BY <1>3, <1>t, GoMoves DEF Disconnect
  <2>3. seen \subseteq seen' /\ (At(Connecting \cup Closing) \cap Requests # {} => "overlap" \in seen')
    BY <1>3, SufferKeeps DEF Disconnect
  <2>4. \A u \in Requests : u # t /\ pc[u] \in Busy => "overlap" \in seen'
    BY <1>t, <2>3 DEF At, Busy
  <2>5. \A u, w \in Requests :
           pc'[u] \in Busy /\ pc'[w] \in Busy /\ u # w => "overlap" \in seen'
    BY <1>t, <2>2, <2>4
  <2>6. \A c \in Bridges : pc'[c] \in {"idle", "notice", "undo"} /\ job'[c].then = "idle"
    BY <1>t, <2>2 DEF ThreadInv
  <2> QED BY <2>1, <2>2, <2>5, <2>6 DEF ThreadInv
\* The steps of a connecting or closing request that leave the sockets alone.
<1>4. ASSUME NEW t \in Requests,
             \/ ConnectFails(t) \/ SetConnected(t) \/ CheckAccount(t) \/ DetachBridge(t)
             \/ AttachBridge(t)
      PROVE  ThreadInv'
  <2>1. pc[t] \in Busy /\ UNCHANGED <<socket, lost, seen>>
    BY <1>4, <1>b DEF ConnectFails, SetConnected, CheckAccount, DetachBridge, AttachBridge,
       sockets
  <2>2. /\ pc'[t] \in {"idle", "check", "detach", "close", "announce"}
        /\ pc'[t] = "announce" => pc[t] = "attach" /\ job'[t] = job[t]
        /\ \A u \in Threads : u # t => pc'[u] = pc[u] /\ job'[u] = job[u]
    BY <1>4, <1>t, GoMoves DEF ConnectFails, SetConnected, CheckAccount, DetachBridge,
       AttachBridge
  <2> QED BY <2>1, <2>2, AloneKept DEF ThreadInv
<1>5. ASSUME NEW t \in Requests, BridgeUp(t) \/ BridgeTimesOut(t) PROVE ThreadInv'
  <2>1. /\ pc[t] = "dial" /\ UNCHANGED <<lost, seen>>
        /\ \E s \in {"up", "down"} :
              /\ socket' = [socket EXCEPT ![job[t].bridge] = s]
              /\ pc'[t] = "notice" => s = "down"
    BY <1>5, <1>t, GoMoves DEF BridgeUp, BridgeTimesOut
  <2>2. /\ pc'[t] \in {"attach", "fail", "notice"}
        /\ job'[t].bridge = job[t].bridge /\ job'[t].env = job[t].env
        /\ \A u \in Threads : u # t => pc'[u] = pc[u] /\ job'[u] = job[u]
    BY <1>5, <1>t, GoMoves DEF BridgeUp, BridgeTimesOut, TypeOK, Job
  <2>3. job[t].bridge \in Bridges /\ job[t].env \in Envs /\ socket[job[t].bridge] = "opening"
    BY <1>t, <2>1 DEF ThreadInv
  <2>4. \A u \in Threads : u # t /\ job[u].bridge = job[t].bridge => pc[u] \notin {"dial", "notice"}
    BY <1>t, <2>1, <2>3 DEF ThreadInv
  <2>5. \A u \in Threads :
          /\ pc'[u] \in {"dial", "attach", "announce"} =>
                job'[u].bridge \in Bridges /\ job'[u].env \in Envs
          /\ pc'[u] = "dial" => socket'[job'[u].bridge] = "opening"
          /\ pc'[u] = "notice" => job'[u].bridge \in Bridges /\ socket'[job'[u].bridge] = "down"
    BY <1>d, <2>1, <2>2, <2>3, <2>4 DEF ThreadInv
  <2>6. \A u, w \in Threads :
          pc'[u] = "dial" /\ pc'[w] = "dial" /\ job'[u].bridge = job'[w].bridge => u = w
    BY <2>2 DEF ThreadInv
  <2>7. \A c \in Bridges : lost'[c] > 0 => socket'[c] = "down"
    BY <1>d, <2>1, <2>3 DEF ThreadInv
  <2>8. pc[t] \in Busy
    BY <1>b, <2>1
  <2>9. /\ \A u, w \in Requests :
             pc'[u] \in Busy /\ pc'[w] \in Busy /\ u # w => "overlap" \in seen'
        /\ \A c \in Bridges : pc'[c] \in {"idle", "notice", "undo"} /\ job'[c].then = "idle"
    BY <2>1, <2>2, <2>8, AloneKept
  <2> QED BY <2>5, <2>6, <2>7, <2>9 DEF ThreadInv
<1>6. ASSUME NEW t \in Requests, CloseBridge(t) PROVE ThreadInv'
  <2>1. /\ pc[t] = "close" /\ UNCHANGED <<lost, seen>>
        /\ \/ /\ job[t].bridge \in Bridges /\ socket[job[t].bridge] = "up"
              /\ socket' = [socket EXCEPT ![job[t].bridge] = "down"]
              /\ pc'[t] = "notice" /\ job'[t].bridge = job[t].bridge
           \/ socket' = socket /\ pc'[t] = "undo"
    BY <1>6, <1>t, <1>d, <1>n, GoMoves DEF CloseBridge, TypeOK, Job
  <2>2. \A u \in Threads : u # t => pc'[u] = pc[u] /\ job'[u] = job[u]
    BY <1>6, <1>t, GoMoves DEF CloseBridge
  <2>3. pc[t] \in Busy
    BY <1>b, <2>1
  <2>4. /\ \A u, w \in Requests :
             pc'[u] \in Busy /\ pc'[w] \in Busy /\ u # w => "overlap" \in seen'
        /\ \A c \in Bridges : pc'[c] \in {"idle", "notice", "undo"} /\ job'[c].then = "idle"
    BY <2>1, <2>2, <2>3, AloneKept
  <2>5. \A c \in Bridges : lost'[c] > 0 => socket'[c] = "down"
    BY <1>d, <2>1 DEF ThreadInv
  <2>6. \A u \in Threads :
          /\ pc'[u] \in {"dial", "attach", "announce"} =>
                job'[u].bridge \in Bridges /\ job'[u].env \in Envs
          /\ pc'[u] = "dial" => socket'[job'[u].bridge] = "opening"
          /\ pc'[u] = "notice" => job'[u].bridge \in Bridges /\ socket'[job'[u].bridge] = "down"
    BY <1>d, <2>1, <2>2 DEF ThreadInv
  <2> QED BY <2>1, <2>2, <2>4, <2>5, <2>6 DEF ThreadInv
<1>7. ASSUME NEW t \in Threads, NoticeLost(t) \/ SetDisconnected(t) PROVE ThreadInv'
  <2>1. pc[t] \in {"notice", "undo"} /\ UNCHANGED <<socket, lost>> /\ seen \subseteq seen'
    BY <1>7, SufferKeeps DEF NoticeLost, SetDisconnected, sockets
  <2>2. /\ pc'[t] \in {"idle", "undo", "fail"} /\ job'[t].then \in {job[t].then, "idle"}
        /\ pc'[t] \in {job[t].then, "undo"}
        /\ \A u \in Threads : u # t => pc'[u] = pc[u] /\ job'[u] = job[u]
    <3>1. \E l \in {job[t].then, "undo"} : \E j \in {NoJob, [job[t] EXCEPT !.bridge = None]} : Go(t, l, j)
      BY <1>7 DEF NoticeLost, SetDisconnected
    <3>2. NoJob.then = "idle" /\ [job[t] EXCEPT !.bridge = None].then = job[t].then
      BY DEF NoJob, TypeOK, Job
    <3> QED BY <1>d, <3>1, <3>2 DEF Go, TypeOK
  <2>3. \A u \in Requests : pc'[u] \in Busy => pc[u] \in Busy
    BY <1>b, <1>t, <2>1, <2>2
  <2>4. \A c \in Bridges : pc'[c] \in {"idle", "notice", "undo"} /\ job'[c].then = "idle"
    BY <1>t, <2>2 DEF ThreadInv
  <2> QED BY <2>1, <2>2, <2>3, <2>4 DEF ThreadInv
<1>8. ASSUME NEW b \in Bridges, SocketDrops(b) PROVE ThreadInv'
  <2>1. /\ socket[b] = "up" /\ socket' = [socket EXCEPT ![b] = "down"]
        /\ lost' = [lost EXCEPT ![b] = 2] /\ seen \subseteq seen' /\ UNCHANGED <<pc, job>>
    BY <1>8, SufferKeeps DEF SocketDrops, threads
  <2>2. \A c \in Bridges : lost'[c] > 0 => socket'[c] = "down"
    BY <1>d, <2>1 DEF ThreadInv
  <2>3. \A u \in Threads :
          /\ pc[u] = "dial" => socket'[job[u].bridge] = "opening"
          /\ pc[u] = "notice" => socket'[job[u].bridge] = "down"
    BY <1>d, <2>1 DEF ThreadInv
  <2> QED BY <2>1, <2>2, <2>3 DEF ThreadInv
<1>9. ASSUME NEW b \in Bridges, ConnectionClosed(b) PROVE ThreadInv'
  <2>1. /\ socket[b] = "down" /\ UNCHANGED <<socket, seen>>
        /\ lost' = [lost EXCEPT ![b] = @ - 1] /\ pc[b] = "idle"
    BY <1>9 DEF ConnectionClosed, ThreadInv
  <2>2. /\ pc'[b] = "notice" /\ job'[b].bridge = b /\ job'[b].then = "idle"
        /\ \A u \in Threads : u # b => pc'[u] = pc[u] /\ job'[u] = job[u]
    BY <1>9, <1>t, GoMoves DEF ConnectionClosed, NoJob
  <2>3. \A c \in Bridges : lost'[c] > 0 => socket'[c] = "down"
    BY <1>d, <2>1 DEF ThreadInv
  <2>4. \A u \in Requests : pc'[u] = pc[u] /\ job'[u] = job[u]
    BY <1>t, <2>2
  <2>5. \A c \in Bridges : pc'[c] \in {"idle", "notice", "undo"} /\ job'[c].then = "idle"
    BY <1>t, <2>2 DEF ThreadInv
  <2> QED BY <2>1, <2>2, <2>3, <2>4, <2>5 DEF ThreadInv
<1>10. ASSUME NEW b \in Bridges, UpdateAccountValue(b) PROVE ThreadInv'
  <2>1. UNCHANGED <<socket, lost, pc, job>> /\ seen \subseteq seen'
    BY <1>10, SufferKeeps DEF UpdateAccountValue, sockets, threads
  <2> QED BY <2>1 DEF ThreadInv
<1>11. ASSUME Restart PROVE ThreadInv'
  BY <1>11, <1>b, <1>t DEF Restart, ThreadInv, NoJob
<1> QED BY <1>1, <1>2, <1>3, <1>4, <1>5, <1>6, <1>7, <1>8, <1>9, <1>10, <1>11, SocketCases

LEMMA ThreadInit == Init => ThreadInv
<1> SUFFICES ASSUME Init PROVE ThreadInv
  OBVIOUS
<1>1. "idle" \notin Busy
  BY DEF Busy, Connecting, Closing
<1>2. \A t \in Requests \cup Bridges : t \in Threads
  BY DEF Threads
<1> QED BY <1>1, <1>2 DEF Init, ThreadInv, NoJob

\* The parts of SocketInv and the two properties, to be proved of a next state.
SocketInvNext == SocketInv' /\ SocketsAgree' /\ ReadyIsCurrent'

LEMMA SocketStep ==
    ASSUME TypeOK, ThreadInv, SocketInv, SocketsAgree, ReadyIsCurrent, [Next]_vars
    PROVE  SocketInvNext
<1>b. /\ {"dial", "attach", "announce", "notice", "check", "detach", "close", "fail",
          "undo"} \subseteq Busy
      /\ "idle" \notin Busy
  BY DEF Busy, Connecting, Closing
<1>t. /\ \A u \in Requests \cup Bridges : u \in Threads
      /\ \A u \in Requests, b \in Bridges : u # b
  BY DisjointAssumption DEF Threads
<1>d. /\ socket \in [Bridges -> Sockets] /\ lost \in [Bridges -> 0..2]
      /\ bridge \in Bridges \cup {None} /\ equity \in Bridges \cup {None}
      /\ \A u \in Threads : job[u].then \in {"idle", "undo", "fail"}
                            /\ job[u].bridge \in Bridges \cup {None}
  BY DEF TypeOK, Job
<1>n. None \notin Bridges /\ None \notin Envs
  BY DisjointAssumption DEF Envs
\* Only requests connect.
<1>r. \A u \in Threads : pc[u] \in {"dial", "attach", "announce", "close"} => u \in Requests
  BY DEF ThreadInv, Threads
<1>a. \A u, w \in Threads : /\ pc[u] \in {"dial", "attach", "announce", "close"}
                            /\ pc[w] \in Busy /\ w \in Requests
                            /\ u # w
                            => "overlap" \in seen
  BY <1>b, <1>r DEF ThreadInv
<1>1. ASSUME Aside PROVE SocketInvNext
  <2>1. UNCHANGED <<conn, bridge, equity, socket, lost>> /\ seen \cap Excuses \subseteq seen'
    BY <1>1 DEF Aside, service, sockets
  <2>2. \A u \in Threads :
           pc[u] \in Busy \/ pc'[u] \in Busy => pc'[u] = pc[u] /\ job'[u] = job[u]
    BY <1>1 DEF Aside
  <2>3. \A u \in Threads :
           pc'[u] \in {"dial", "attach", "announce"} => pc'[u] = pc[u] /\ job'[u] = job[u]
    BY <1>b, <2>2
  <2>4. \A u \in Threads :
           pc[u] \in {"announce", "attach", "close", "notice", "undo"} =>
              pc'[u] = pc[u] /\ job'[u] = job[u]
    BY <1>b, <2>2
  <2>5. SocketInv'
    BY <2>1, <2>3, <2>4 DEF SocketInv, Excuses
  <2>6. Noticing => Noticing'
    BY <2>1, <2>4 DEF Noticing, At
  <2>7. SocketsAgree'
    <3>1. \A b \in Bridges :
             (\E u \in At({"attach", "close"}) : job[u].bridge = b) =>
             (\E u \in At({"attach", "close"})' : job'[u].bridge = b)
      BY <2>4 DEF At
    <3> QED BY <2>1, <2>6, <3>1 DEF SocketsAgree, Excuses
  <2>8. ReadyIsCurrent'
    BY <2>1, <2>6 DEF ReadyIsCurrent, Excuses
  <2> QED BY <2>5, <2>7, <2>8 DEF SocketInvNext
<1>2. ASSUME NEW t \in Requests, NEW e \in Envs, NEW b \in Bridges, Connect(t, e, b)
      PROVE  SocketInvNext
  <2>1. /\ pc[t] = "idle" /\ conn = None /\ socket[b] = "none"
        /\ socket' = [socket EXCEPT ![b] = "opening"]
        /\ UNCHANGED <<conn, bridge, equity, lost>>
    BY <1>2 DEF Connect, service
  <2>2. pc'[t] = "dial" /\ \A u \in Threads : u # t => pc'[u] = pc[u] /\ job'[u] = job[u]
    BY <1>2, <1>t, GoMoves DEF Connect
  <2>3. seen \subseteq seen'
    BY <1>2, SufferKeeps DEF Connect
  <2>4. \A c \in Bridges : socket[c] = "up" <=> socket'[c] = "up"
    BY <1>d, <2>1
  <2>5. \A u \in Threads : pc[u] \in {"attach", "announce"} => job[u].bridge \in Bridges
    BY DEF ThreadInv
  <2>6. SocketInv'
    BY <2>1, <2>2, <2>3, <2>4, <2>5 DEF SocketInv
  <2>7. SocketsAgree'
    <3>1. \A c \in Bridges :
             (\E u \in At({"attach", "close"}) : job[u].bridge = c) =>
             (\E u \in At({"attach", "close"})' : job'[u].bridge = c)
      BY <2>1, <2>2 DEF At
    <3> QED BY <2>1, <2>3, <2>4, <3>1 DEF SocketsAgree
  <2>8. ReadyIsCurrent'
    BY <2>1 DEF ReadyIsCurrent
  <2> QED BY <2>6, <2>7, <2>8 DEF SocketInvNext
\* A request begins or gives up a connection, or looks at it, as it is.
<1>3. ASSUME NEW t \in Requests, Disconnect(t) \/ ConnectFails(t) \/ CheckAccount(t)
      PROVE  SocketInvNext
  <2>1. /\ pc[t] \in {"idle", "fail", "check"}
        /\ UNCHANGED <<conn, bridge, equity, socket, lost>>
        /\ seen \subseteq seen'
    BY <1>3, SufferKeeps DEF Disconnect, ConnectFails, CheckAccount, service, sockets
  <2>2. /\ pc'[t] \in {"detach", "idle"}
        /\ \A u \in Threads : u # t => pc'[u] = pc[u] /\ job'[u] = job[u]
    BY <1>3, <1>t, GoMoves DEF Disconnect, ConnectFails, CheckAccount
  <2>3. SocketInv'
    BY <2>1, <2>2 DEF SocketInv
  <2>4. Noticing => Noticing'
    BY <2>1, <2>2 DEF Noticing, At
  <2>5. \A c \in Bridges :
           (\E u \in At({"attach", "close"}) : job[u].bridge = c) =>
           (\E u \in At({"attach", "close"})' : job'[u].bridge = c)
    BY <2>1, <2>2 DEF At
  <2> QED BY <2>1, <2>3, <2>4, <2>5 DEF SocketInvNext, SocketsAgree, ReadyIsCurrent
<1>4. ASSUME NEW t \in Requests, BridgeUp(t) \/ BridgeTimesOut(t) PROVE SocketInvNext
  <2> DEFINE b == job[t].bridge
  <2>1. /\ pc[t] = "dial" /\ UNCHANGED <<conn, bridge, equity, lost, seen>>
        /\ \/ socket' = [socket EXCEPT ![b] = "up"] /\ pc'[t] = "attach"
           \/ socket' = [socket EXCEPT ![b] = "down"] /\ pc'[t] \in {"fail", "notice"}
        /\ job'[t].bridge = b
        /\ \A u \in Threads : u # t => pc'[u] = pc[u] /\ job'[u] = job[u]
    <3>1. [job[t] EXCEPT !.then = "fail"].bridge = b
      BY <1>t DEF TypeOK, Job
    <3>2. CASE BridgeUp(t)
      BY <3>2, <1>t, GoMoves DEF BridgeUp, service
    <3>3. CASE BridgeTimesOut(t)
      BY <3>1, <3>3, <1>t, GoMoves DEF BridgeTimesOut, service
    <3> QED BY <1>4, <3>2, <3>3
  <2>2. b \in Bridges /\ socket[b] = "opening"
    BY <1>t, <2>1 DEF ThreadInv
  <2>3. \A c \in Bridges : socket[c] = "up" => socket'[c] = "up"
    BY <1>d, <2>1, <2>2
  <2>4. \A u \in Threads : pc[u] \in {"attach", "announce"} => job[u].bridge \in Bridges
    BY DEF ThreadInv
  <2>5. pc'[t] = "attach" => socket'[b] = "up"
    BY <1>d, <2>1, <2>2
  <2>6. SocketInv'
    BY <1>t, <2>1, <2>3, <2>4, <2>5 DEF SocketInv
  <2>7. Noticing => Noticing'
    BY <2>1 DEF Noticing, At
  <2>8. \A c \in Bridges :
           (\E u \in At({"attach", "close"}) : job[u].bridge = c) =>
           (\E u \in At({"attach", "close"})' : job'[u].bridge = c)
    BY <2>1 DEF At
  <2>9. \A c \in Bridges :
           socket'[c] = "up" => socket[c] = "up" \/ (c = b /\ pc'[t] = "attach")
    BY <1>d, <2>1, <2>2
  <2>10. SocketsAgree'
    <3>1. conn' # None => \/ bridge' # None /\ socket'[bridge'] = "up"
                          \/ Noticing'
                          \/ seen' \cap {"early", "overlap", "stray"} # {}
      BY <1>d, <2>1, <2>3, <2>7 DEF SocketsAgree
    <3>2. pc'[t] = "attach" => \E u \in At({"attach", "close"})' : job'[u].bridge = b
      BY <1>t, <2>1 DEF At
    <3> QED BY <2>1, <2>8, <2>9, <3>1, <3>2 DEF SocketsAgree
  <2>11. ReadyIsCurrent'
    BY <2>1, <2>7 DEF ReadyIsCurrent
  <2> QED BY <2>6, <2>10, <2>11 DEF SocketInvNext
<1>5. ASSUME NEW t \in Requests, AttachBridge(t) PROVE SocketInvNext
  <2>1. /\ pc[t] = "attach" /\ UNCHANGED <<conn, equity, socket, lost, seen>>
        /\ bridge' = job[t].bridge /\ pc'[t] = "announce" /\ job'[t] = job[t]
        /\ \A u \in Threads : u # t => pc'[u] = pc[u] /\ job'[u] = job[u]
    BY <1>5, <1>t, GoMoves DEF AttachBridge, sockets
  <2>2. conn = None \/ "overlap" \in seen
    BY <1>t, <2>1 DEF SocketInv
  <2>3. bridge = None \/ seen \cap {"overlap", "stray"} # {}
    BY <1>t, <1>a, <1>b, <2>1, <2>2 DEF SocketInv
  <2>4. \A u \in Threads : u # t /\ pc[u] \in {"dial", "attach", "announce"} => "overlap" \in seen
    BY <1>t, <1>a, <1>b, <2>1
  <2>5. SocketInv'
    BY <1>t, <2>1, <2>2, <2>4 DEF SocketInv
  <2>6. SocketsAgree'
    <3>1. \A c \in Bridges :
             (\E u \in At({"attach", "close"}) : job[u].bridge = c) =>
             c = bridge' \/ (\E u \in At({"attach", "close"})' : job'[u].bridge = c)
      BY <2>1 DEF At
    <3>2. \A c \in Bridges : c = bridge => seen \cap {"overlap", "stray"} # {}
      BY <1>n, <2>3
    <3> QED BY <2>1, <2>2, <3>1, <3>2 DEF SocketsAgree
  <2>7. ReadyIsCurrent'
    BY <2>1, <2>2 DEF ReadyIsCurrent
  <2> QED BY <2>5, <2>6, <2>7 DEF SocketInvNext
<1>6. ASSUME NEW t \in Requests, SetConnected(t) PROVE SocketInvNext
  <2>1. /\ pc[t] = "announce" /\ UNCHANGED <<bridge, socket, lost, seen>>
        /\ conn' = job[t].env /\ equity' = None /\ pc'[t] = "check"
        /\ \A u \in Threads : u # t => pc'[u] = pc[u] /\ job'[u] = job[u]
    BY <1>6, <1>t, GoMoves DEF SetConnected, sockets
  <2>2. job[t].bridge \in Bridges /\ conn' # None
    BY <1>t, <1>n, <2>1 DEF ThreadInv
  <2>3. \A u \in Threads : u # t /\ pc[u] \in {"dial", "attach", "announce"} => "overlap" \in seen
    BY <1>t, <1>a, <1>b, <2>1
  <2>4. SocketInv'
    BY <2>1, <2>2, <2>3 DEF SocketInv
  <2>5. (bridge # None /\ socket[bridge] = "up") \/ seen \cap {"early", "overlap", "stray"} # {}
    BY <1>t, <1>n, <2>1, <2>2 DEF SocketInv
  <2>6. \A c \in Bridges :
           (\E u \in At({"attach", "close"}) : job[u].bridge = c) =>
           (\E u \in At({"attach", "close"})' : job'[u].bridge = c)
    BY <2>1 DEF At
  <2> QED BY <2>1, <2>4, <2>5, <2>6 DEF SocketInvNext, SocketsAgree, ReadyIsCurrent
<1>7. ASSUME NEW t \in Requests, DetachBridge(t) PROVE SocketInvNext
  <2>1. /\ pc[t] = "detach" /\ UNCHANGED <<conn, equity, socket, lost, seen>>
        /\ bridge' = None /\ pc'[t] = "close" /\ job'[t].bridge = bridge
        /\ \A u \in Threads : u # t => pc'[u] = pc[u] /\ job'[u] = job[u]
    BY <1>7, <1>t, GoMoves DEF DetachBridge, sockets, NoJob
  <2>2. \A u \in Threads : pc[u] \in {"dial", "attach", "announce"} => "overlap" \in seen
    BY <1>t, <1>a, <1>b, <2>1
  <2>3. SocketInv'
    BY <2>1, <2>2 DEF SocketInv
  <2>4. Noticing'
    BY <1>t, <2>1 DEF Noticing, At
  <2>5. \A c \in Bridges :
           c = bridge \/ (\E u \in At({"attach", "close"}) : job[u].bridge = c) =>
           (\E u \in At({"attach", "close"})' : job'[u].bridge = c)
    BY <1>t, <2>1 DEF At
  <2> QED BY <2>1, <2>3, <2>4, <2>5 DEF SocketInvNext, SocketsAgree, ReadyIsCurrent
<1>8. ASSUME NEW t \in Requests, CloseBridge(t) PROVE SocketInvNext
  <2> DEFINE b == job[t].bridge
  <2>1. /\ pc[t] = "close" /\ UNCHANGED <<conn, bridge, equity, lost, seen>>
        /\ pc'[t] \in {"notice", "undo"}
        /\ \A u \in Threads : u # t => pc'[u] = pc[u] /\ job'[u] = job[u]
    BY <1>8, <1>t, GoMoves DEF CloseBridge, service
  <2>2. \A c \in Bridges : socket'[c] = "up" <=> socket[c] = "up" /\ c # b
    BY <1>8, <1>d, <1>n, <1>t DEF CloseBridge
  <2>3. Noticing'
    BY <1>t, <2>1 DEF Noticing, At
  <2>4. \A u \in Threads : pc[u] \in {"dial", "attach", "announce"} => "overlap" \in seen
    BY <1>t, <1>a, <1>b, <2>1
  <2>5. SocketInv'
    BY <2>1, <2>4 DEF SocketInv
  <2>6. \A c \in Bridges :
           c # b /\ (\E u \in At({"attach", "close"}) : job[u].bridge = c) =>
           (\E u \in At({"attach", "close"})' : job'[u].bridge = c)
    BY <2>1 DEF At
  <2> QED BY <2>1, <2>2, <2>3, <2>5, <2>6 DEF SocketInvNext, SocketsAgree, ReadyIsCurrent
<1>9. ASSUME NEW t \in Threads, NoticeLost(t) PROVE SocketInvNext
  <2>1. /\ pc[t] = "notice" /\ UNCHANGED <<conn, equity, socket, lost>>
        /\ seen \subseteq seen'
        /\ \A u \in Threads : u # t => pc'[u] = pc[u] /\ job'[u] = job[u]
    BY <1>9, SufferKeeps, GoMoves DEF NoticeLost, sockets
  <2>2. \/ /\ conn = None /\ bridge = None /\ bridge' = None /\ pc'[t] \in {"idle", "undo", "fail"}
        \/ /\ bridge' = None /\ pc'[t] = "undo"
           /\ bridge \notin {job[t].bridge, None} => "stray" \in seen'
    BY <1>9, <1>d, SufferKeeps, GoMoves DEF NoticeLost
  <2>3. job[t].bridge \in Bridges /\ socket[job[t].bridge] = "down"
    BY <2>1 DEF ThreadInv
  <2>4. bridge = None \/ socket[bridge] = "down" \/ "stray" \in seen'
    BY <2>2, <2>3
  <2>5. \A u \in Threads :
           pc'[u] \in {"dial", "attach", "announce"} => pc'[u] = pc[u] /\ job'[u] = job[u] /\ u # t
    BY <2>1, <2>2
  <2>6. \A u \in Threads : pc[u] = "announce" => job[u].bridge \in Bridges
    BY DEF ThreadInv
  <2>7. SocketInv'
    BY <1>n, <2>1, <2>2, <2>4, <2>5, <2>6 DEF SocketInv
  <2>8. conn = None \/ Noticing'
    BY <2>1, <2>2 DEF Noticing, At
  <2>9. \A c \in Bridges :
           (\E u \in At({"attach", "close"}) : job[u].bridge = c) =>
           (\E u \in At({"attach", "close"})' : job'[u].bridge = c)
    BY <2>1 DEF At
  <2>10. \A c \in Bridges : c = bridge /\ socket[c] = "up" => "stray" \in seen'
    BY <1>n, <2>4
  <2> QED BY <2>1, <2>7, <2>8, <2>9, <2>10 DEF SocketInvNext, SocketsAgree, ReadyIsCurrent
<1>10. ASSUME NEW t \in Threads, SetDisconnected(t) PROVE SocketInvNext
  <2>1. /\ pc[t] = "undo" /\ UNCHANGED <<bridge, socket, lost>> /\ conn' = None
        /\ seen \subseteq seen' /\ (bridge # None => "stray" \in seen')
        /\ \A u \in Threads : u # t => pc'[u] = pc[u] /\ job'[u] = job[u]
    BY <1>10, SufferKeeps, GoMoves DEF SetDisconnected, sockets
  <2>2. pc'[t] \in {"idle", "undo", "fail"}
    BY <1>10, <1>d, GoMoves DEF SetDisconnected
  <2>3. SocketInv'
    BY <2>1, <2>2 DEF SocketInv
  <2>4. \A c \in Bridges :
           (\E u \in At({"attach", "close"}) : job[u].bridge = c) =>
           (\E u \in At({"attach", "close"})' : job'[u].bridge = c)
    BY <2>1 DEF At
  <2> QED BY <2>1, <2>3, <2>4 DEF SocketInvNext, SocketsAgree, ReadyIsCurrent
<1>11. ASSUME NEW b \in Bridges, SocketDrops(b) PROVE SocketInvNext
  <2>1. /\ socket[b] = "up" /\ socket' = [socket EXCEPT ![b] = "down"]
        /\ lost' = [lost EXCEPT ![b] = 2] /\ seen \subseteq seen'
        /\ UNCHANGED <<conn, bridge, equity, pc, job>>
        /\ ((\E t \in At({"attach", "announce"}) : job[t].bridge = b) => "early" \in seen')
    BY <1>11, SufferKeeps DEF SocketDrops, threads, service
  <2>2. \A u \in Threads : pc[u] \in {"attach", "announce"} /\ job[u].bridge = b => "early" \in seen'
    BY <2>1 DEF At
  <2>3. SocketInv'
    BY <1>d, <2>1, <2>2 DEF SocketInv, ThreadInv
  <2>4. Noticing'
    BY <1>d, <2>1 DEF Noticing
  <2>5. \A c \in Bridges : socket'[c] = "up" => socket[c] = "up"
    BY <1>d, <2>1
  <2>6. At({"attach", "close"})' = At({"attach", "close"})
    BY <2>1 DEF At
  <2> QED BY <2>1, <2>3, <2>4, <2>5, <2>6 DEF SocketInvNext, SocketsAgree, ReadyIsCurrent
<1>12. ASSUME NEW b \in Bridges, ConnectionClosed(b) PROVE SocketInvNext
  <2>1. /\ UNCHANGED <<conn, bridge, equity, socket, seen>> /\ pc[b] = "idle" /\ pc'[b] = "notice"
        /\ \A u \in Threads : u # b => pc'[u] = pc[u] /\ job'[u] = job[u]
    BY <1>12, <1>t, GoMoves DEF ConnectionClosed, service
  <2>2. SocketInv'
    BY <1>t, <2>1 DEF SocketInv
  <2>3. Noticing'
    BY <1>t, <2>1 DEF Noticing, At
  <2>4. \A c \in Bridges :
           (\E u \in At({"attach", "close"}) : job[u].bridge = c) =>
           (\E u \in At({"attach", "close"})' : job'[u].bridge = c)
    BY <2>1 DEF At
  <2> QED BY <2>1, <2>2, <2>3, <2>4 DEF SocketInvNext, SocketsAgree, ReadyIsCurrent
<1>13. ASSUME NEW b \in Bridges, UpdateAccountValue(b) PROVE SocketInvNext
  <2>1. /\ UNCHANGED <<conn, bridge, socket, lost, pc, job>> /\ seen \subseteq seen'
        /\ equity' = b /\ (socket[b] = "up" \/ "late" \in seen')
    BY <1>13, SufferKeeps DEF UpdateAccountValue, sockets, threads
  <2>2. SocketInv'
    BY <2>1 DEF SocketInv
  <2>3. Noticing' = Noticing /\ At({"attach", "close"})' = At({"attach", "close"})
    BY <2>1 DEF Noticing, At
  <2>4. SocketsAgree'
    BY <2>1, <2>3 DEF SocketsAgree
  <2>5. ReadyIsCurrent'
    <3>1. CASE socket[b] = "up" /\ \E u \in At({"attach", "close"}) : job[u].bridge = b
      <4> PICK u \in At({"attach", "close"}) : job[u].bridge = b
        BY <3>1
      <4>1. CASE pc[u] = "close"
        BY <2>3, <4>1 DEF At, Noticing, ReadyIsCurrent
      <4>2. CASE pc[u] = "attach"
        BY <2>1, <4>2 DEF At, SocketInv, ReadyIsCurrent
      <4> QED BY <4>1, <4>2 DEF At
    <3>2. CASE socket[b] = "up" /\ ~\E u \in At({"attach", "close"}) : job[u].bridge = b
      BY <2>1, <3>2 DEF SocketsAgree, ReadyIsCurrent
    <3>3. CASE socket[b] # "up"
      BY <2>1, <3>3 DEF ReadyIsCurrent
    <3> QED BY <3>1, <3>2, <3>3
  <2> QED BY <2>2, <2>4, <2>5 DEF SocketInvNext
<1>14. ASSUME Restart PROVE SocketInvNext
  BY <1>14 DEF Restart, SocketInvNext, SocketInv, SocketsAgree, ReadyIsCurrent
<1> QED BY <1>1, <1>2, <1>3, <1>4, <1>5, <1>6, <1>7, <1>8, <1>9, <1>10, <1>11, <1>12, <1>13,
           <1>14, SocketCases

LEMMA SocketInit == Init => SocketInv /\ SocketsAgree /\ ReadyIsCurrent
  BY DEF Init, SocketInv, SocketsAgree, ReadyIsCurrent

LEMMA SocketsAlways ==
    Spec => [](TypeOK /\ ThreadInv /\ SocketInv /\ SocketsAgree /\ ReadyIsCurrent)
<1>1. SocketInvNext => SocketInv' /\ SocketsAgree' /\ ReadyIsCurrent'
  BY DEF SocketInvNext
<1>2. TypeOK /\ ThreadInv /\ SocketInv /\ SocketsAgree /\ ReadyIsCurrent /\ [Next]_vars =>
         TypeOK' /\ ThreadInv' /\ SocketInv' /\ SocketsAgree' /\ ReadyIsCurrent'
  BY <1>1, TypeStep, ThreadStep, SocketStep
<1> QED BY <1>2, TypeInit, ThreadInit, SocketInit, PTL DEF Spec

(* A connection has an open socket, but for the moment its loss takes to be *)
(* noticed, and every open socket is the manager's or in the hands of a     *)
(* request; unless the socket drops before the connection is announced, or  *)
(* two connections overlap (set_connected, disconnect_tws,                  *)
(* _on_bridge_connection_lost).                                             *)
THEOREM SocketsHold == Spec => []SocketsAgree
  BY SocketsAlways, PTL

(* Account data is ready only with data of the connection there is, with    *)
(* the same exceptions and that of a callback that comes late.              *)
THEOREM Ready == Spec => []ReadyIsCurrent
  BY SocketsAlways, PTL

=============================================================================
