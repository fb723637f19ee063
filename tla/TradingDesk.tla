----------------------------- MODULE TradingDesk -----------------------------
(***************************************************************************)
(* The connection, the trading state and the emergency stop of the web     *)
(* application: ServiceManager, the TWS bridges it attaches, the routes    *)
(* that connect, disconnect, halt and resume, and the manual order that    *)
(* has to respect all of it.                                               *)
(*                                                                         *)
(* A thread is an HTTP request or the reader of a bridge.  A step is what  *)
(* runs under the manager's lock, or one access to shared state outside    *)
(* it; handlers of the event bus run in the thread that publishes.         *)
(***************************************************************************)
EXTENDS Naturals, FiniteSets

CONSTANTS
    Requests,  \* threads that serve HTTP requests
    Bridges,   \* bound: connection attempts; a bridge is also its reader thread
    Env,       \* what else may happen, a set of Hazards
    MaxSeen,   \* bound: how many of them one behaviour meets
    None

(* "overlap"  a request connects while another connects or disconnects     *)
(* "early"    a socket drops before the connection is announced            *)
(* "stray"    the loss of one bridge is taken for the loss of another      *)
(* "late"     a reader delivers a value after its socket was closed        *)
(* "race"     a halt meets a resume                                        *)
(* "moved"    the connection changes while a resume restores its state     *)
(* "disk"     the marker file cannot be written                            *)
(* "restart"  the process restarts                                         *)
(* The history of the last two ends with a resume, of the others with a    *)
(* restart.                                                                *)
Hazards == {"overlap", "early", "stray", "late", "race", "moved", "disk", "restart"}

ASSUME EnvAssumption == Env \subseteq Hazards
ASSUME BoundAssumption == MaxSeen \in Nat
ASSUME DisjointAssumption == Requests \cap Bridges = {} /\ None \notin Bridges \cup {"paper", "live"}

VARIABLES
    conn,      \* _connected and _connection_env
    bridge,    \* _tws_bridge
    tstate,    \* _trading_state
    armer,     \* history: what put the state last to LIVE_TRADING_ARMED
    equity,    \* the bridge whose account value initialised the equity
    flag,      \* emergency_stop_active of the risk manager
    file,      \* the EMERGENCY_STOP file exists
    halted,    \* history: a halt has returned, no resume has begun since
    socket,    \* of a bridge
    lost,      \* CONNECTION_LOST events a bridge has still to publish
    pc, job,   \* where a thread is, and with what
    seen       \* history: the hazards that have happened

service   == <<conn, bridge, equity>>
state     == <<tstate, armer>>
emergency == <<flag, file, halted>>
sockets   == <<socket, lost>>
threads   == <<pc, job>>
vars      == <<service, state, emergency, sockets, threads, seen>>

Envs    == {"paper", "live"}
Threads == Requests \cup Bridges

TradingStates == {"DISCONNECTED", "CONNECTION_FAILED", "CONNECTED_READ_ONLY",
                  "PAPER_TRADING_ENABLED", "LIVE_TRADING_ARMED", "EMERGENCY_STOP"}

AllowsOrders(s) == s \in {"PAPER_TRADING_ENABLED", "LIVE_TRADING_ARMED"}

StateFor(e) ==
    CASE e = "paper" -> "PAPER_TRADING_ENABLED"
      [] e = "live"  -> "LIVE_TRADING_ARMED"
      [] OTHER       -> "DISCONNECTED"

Sockets == {"none", "opening", "up", "down"}

(* env      the environment that is connected, or was read                 *)
(* bridge   the bridge that is connected or closed                         *)
(* then     where the thread goes when it has set the state disconnected   *)
Job   == [env : Envs \cup {None}, bridge : Bridges \cup {None},
          then : {"idle", "undo", "fail"}]
NoJob == [env |-> None, bridge |-> None, then |-> "idle"]

Connecting == {"dial", "fail", "attach", "announce", "check"}
Closing    == {"detach", "close", "notice", "undo"}
Halting    == {"mark", "write"}
Resuming   == {"release", "read", "restore", "cap", "lower"}
Ordering   == {"gate", "record"}
Pc == {"idle"} \cup Connecting \cup Closing \cup Halting \cup Resuming \cup Ordering

Go(t, l, j) ==
    /\ pc' = [pc EXCEPT ![t] = l]
    /\ job' = [job EXCEPT ![t] = IF l = "idle" THEN NoJob ELSE j]

SetState(s, a) == tstate' = s /\ armer' = IF s = "LIVE_TRADING_ARMED" THEN a ELSE "none"

\* Hazards happen, if they may.
Suffer(H) == H \subseteq Env /\ seen' = seen \cup H /\ Cardinality(seen \cup H) <= MaxSeen

At(P) == {t \in Threads : pc[t] \in P}

Init ==
    /\ conn = None /\ bridge = None /\ equity = None
    /\ tstate = "DISCONNECTED" /\ armer = "none"
    /\ flag = FALSE /\ file = FALSE /\ halted = FALSE
    /\ socket = [b \in Bridges |-> "none"]
    /\ lost = [b \in Bridges |-> 0]
    /\ pc = [t \in Threads |-> "idle"]
    /\ job = [t \in Threads |-> NoJob]
    /\ seen = {}
-----------------------------------------------------------------------------
(* POST /connect.                                                           *)

Connect(t, e, b) ==
    /\ pc[t] = "idle" /\ conn = None
    /\ socket[b] = "none"
    /\ socket' = [socket EXCEPT ![b] = "opening"]
    /\ Suffer(IF At(Connecting \cup Closing) \cap Requests # {} THEN {"overlap"} ELSE {})
    /\ Go(t, "dial", [NoJob EXCEPT !.env = e, !.bridge = b])
    /\ UNCHANGED <<service, state, emergency, lost>>

\* The handshake is over, and account updates are subscribed to.
BridgeUp(t) ==
    /\ pc[t] = "dial"
    /\ socket' = [socket EXCEPT ![job[t].bridge] = "up"]
    /\ Go(t, "attach", job[t])
    /\ UNCHANGED <<service, state, emergency, lost, seen>>

\* Nobody answers; or a socket that never became ready is closed again, which
\* publishes its loss.
BridgeTimesOut(t) ==
    /\ pc[t] = "dial"
    /\ socket' = [socket EXCEPT ![job[t].bridge] = "down"]
    /\ \E l \in {"fail", "notice"} : Go(t, l, [job[t] EXCEPT !.then = "fail"])
    /\ UNCHANGED <<service, state, emergency, lost, seen>>

ConnectFails(t) ==
    /\ pc[t] = "fail"
    /\ SetState("CONNECTION_FAILED", "none")
    /\ Go(t, "idle", NoJob)
    /\ UNCHANGED <<service, emergency, sockets, seen>>

AttachBridge(t) ==
    /\ pc[t] = "attach"
    /\ bridge' = job[t].bridge
    /\ Go(t, "announce", job[t])
    /\ UNCHANGED <<conn, equity, state, emergency, sockets, seen>>

\* Mutant: a reconnection clears the stop from the trading state.
SetConnectedClearing(t) ==
    /\ pc[t] = "announce"
    /\ conn' = job[t].env /\ equity' = None
    /\ SetState(StateFor(job[t].env), "connect")
    /\ Go(t, "check", NoJob)
    /\ UNCHANGED <<bridge, emergency, sockets, seen>>

SetConnected(t) ==
    /\ pc[t] = "announce"
    /\ conn' = job[t].env /\ equity' = None
    /\ SetState(IF flag THEN "EMERGENCY_STOP" ELSE StateFor(job[t].env), "connect")
    /\ Go(t, "check", NoJob)
    /\ UNCHANGED <<bridge, emergency, sockets, seen>>

\* The account belongs to the environment, as far as it is known, or the
\* connection is given up.
CheckAccount(t) ==
    /\ pc[t] = "check"
    /\ \E l \in {"idle", "detach"} : Go(t, l, NoJob)
    /\ UNCHANGED <<service, state, emergency, sockets, seen>>
-----------------------------------------------------------------------------
(* Disconnection: by request, or because a socket was lost.                 *)

Disconnect(t) ==
    /\ pc[t] = "idle" /\ conn # None
    /\ Suffer(IF At(Connecting \cup Closing) \cap Requests # {} THEN {"overlap"} ELSE {})
    /\ Go(t, "detach", NoJob)
    /\ UNCHANGED <<service, state, emergency, sockets>>

\* disconnect_tws takes the bridge, under the lock, and
DetachBridge(t) ==
    /\ pc[t] = "detach"
    /\ bridge' = None
    /\ Go(t, "close", [NoJob EXCEPT !.bridge = bridge])
    /\ UNCHANGED <<conn, equity, state, emergency, sockets, seen>>

\* Mutant: the socket of the bridge is left open.
LeaveOpen(t) ==
    /\ pc[t] = "close"
    /\ Go(t, "undo", NoJob)
    /\ UNCHANGED <<service, state, emergency, sockets, seen>>

\* closes its socket, which publishes CONNECTION_LOST in this thread.
CloseBridge(t) ==
    /\ pc[t] = "close"
    /\ IF job[t].bridge # None /\ socket[job[t].bridge] = "up"
       THEN /\ socket' = [socket EXCEPT ![job[t].bridge] = "down"]
            /\ Go(t, "notice", [job[t] EXCEPT !.then = "undo"])
       ELSE /\ UNCHANGED socket
            /\ Go(t, "undo", NoJob)
    /\ UNCHANGED <<service, state, emergency, lost, seen>>

\* The socket of bridge b drops.  Both its threads will say so.
SocketDrops(b) ==
    /\ socket[b] = "up"
    /\ socket' = [socket EXCEPT ![b] = "down"]
    /\ lost' = [lost EXCEPT ![b] = 2]
    /\ Suffer(IF \E t \in At({"attach", "announce"}) : job[t].bridge = b THEN {"early"} ELSE {})
    /\ UNCHANGED <<service, state, emergency, threads>>

ConnectionClosed(b) ==
    /\ pc[b] = "idle" /\ lost[b] > 0
    /\ lost' = [lost EXCEPT ![b] = @ - 1]
    /\ Go(b, "notice", [NoJob EXCEPT !.bridge = b])
    /\ UNCHANGED <<service, state, emergency, socket, seen>>

\* Mutant: the early return is taken for a manager that is connected.
NoticeLostInverted(t) ==
    /\ pc[t] = "notice"
    /\ IF conn # None
       THEN /\ Go(t, job[t].then, NoJob)
            /\ UNCHANGED bridge
       ELSE /\ bridge' = None
            /\ Go(t, "undo", [job[t] EXCEPT !.bridge = None])
    /\ UNCHANGED <<conn, equity, state, emergency, sockets, seen>>

\* Mutant: the handler takes the manager's own event for a bridge's.
NoticeOwn(t) ==
    /\ pc[t] = "notice"
    /\ bridge' = None
    /\ Go(t, "undo", [job[t] EXCEPT !.then = "notice"])
    /\ UNCHANGED <<conn, equity, state, emergency, sockets, seen>>

\* _on_bridge_connection_lost: the event does not say whose loss it is.
NoticeLost(t) ==
    /\ pc[t] = "notice"
    /\ IF conn = None /\ bridge = None
       THEN /\ Go(t, job[t].then, NoJob)
            /\ UNCHANGED <<bridge, seen>>
       ELSE /\ bridge' = None
            /\ Go(t, "undo", [job[t] EXCEPT !.bridge = None])
            /\ IF bridge \notin {job[t].bridge, None} THEN Suffer({"stray"}) ELSE UNCHANGED seen
    /\ UNCHANGED <<conn, equity, state, emergency, sockets>>

SetDisconnected(t) ==
    /\ pc[t] = "undo"
    /\ conn' = None /\ equity' = None
    /\ IF flag THEN UNCHANGED state ELSE SetState("DISCONNECTED", "none")
    /\ Go(t, job[t].then, NoJob)
    /\ IF bridge # None THEN Suffer({"stray"}) ELSE UNCHANGED seen
    /\ UNCHANGED <<bridge, emergency, sockets>>

\* The first equity of a connection initialises the risk manager's.
UpdateAccountValue(b) ==
    /\ equity = None
    /\ \/ socket[b] = "up" /\ UNCHANGED seen
       \/ socket[b] = "down" /\ Suffer({"late"})
    /\ equity' = b
    /\ UNCHANGED <<conn, bridge, state, emergency, sockets, threads>>
-----------------------------------------------------------------------------
(* Halt (and close-all, which also empties the position cache) and resume.  *)

Halt(t) ==
    /\ pc[t] = "idle"
    /\ flag' = TRUE
    /\ Suffer(IF At(Resuming) # {} THEN {"race"} ELSE {})
    /\ Go(t, "mark", NoJob)
    /\ UNCHANGED <<service, state, file, halted, sockets>>

MarkHalted(t) ==
    /\ pc[t] = "mark"
    /\ SetState("EMERGENCY_STOP", "none")
    /\ Go(t, "write", NoJob)
    /\ UNCHANGED <<service, emergency, sockets, seen>>

\* Mutant: the marker is left to the risk manager's flag.
WriteNothing(t) ==
    /\ pc[t] = "write"
    /\ halted' = TRUE
    /\ Go(t, "idle", NoJob)
    /\ UNCHANGED <<service, state, flag, file, sockets, seen>>

WriteMarker(t) ==
    /\ pc[t] = "write"
    /\ \/ file' = TRUE /\ UNCHANGED seen
       \/ Suffer({"disk"}) /\ UNCHANGED file
    /\ halted' = TRUE
    /\ Go(t, "idle", NoJob)
    /\ UNCHANGED <<service, state, flag, sockets>>

\* The marker is removed first; if it cannot be, nothing else happens.
Resume(t) ==
    /\ pc[t] = "idle"
    /\ file' = FALSE /\ halted' = FALSE
    /\ IF At(Halting) # {} THEN Suffer({"race"}) ELSE seen' = seen \ {"disk", "restart"}
    /\ Go(t, "release", NoJob)
    /\ UNCHANGED <<service, state, flag, sockets>>

ReleaseFlag(t) ==
    /\ pc[t] = "release"
    /\ flag' = FALSE
    /\ Go(t, "read", NoJob)
    /\ UNCHANGED <<service, state, file, halted, sockets, seen>>

ReadConnection(t) ==
    /\ pc[t] = "read"
    /\ Go(t, "restore", [NoJob EXCEPT !.env = conn])
    /\ UNCHANGED <<service, state, emergency, sockets, seen>>

\* Mutant: the state of the connection is restored as it was.
RestoreUncapped(t) ==
    /\ pc[t] = "restore"
    /\ SetState(StateFor(job[t].env), "resume")
    /\ Go(t, "idle", NoJob)
    /\ UNCHANGED <<service, emergency, sockets, seen>>

RestoreState(t) ==
    /\ pc[t] = "restore"
    /\ SetState(StateFor(job[t].env), "resume")
    /\ Go(t, "cap", NoJob)
    /\ IF job[t].env # conn THEN Suffer({"moved"}) ELSE UNCHANGED seen
    /\ UNCHANGED <<service, emergency, sockets>>

CapState(t) ==
    /\ pc[t] = "cap"
    /\ Go(t, IF tstate = "LIVE_TRADING_ARMED" THEN "lower" ELSE "idle", NoJob)
    /\ UNCHANGED <<service, state, emergency, sockets, seen>>

LowerState(t) ==
    /\ pc[t] = "lower"
    /\ SetState("CONNECTED_READ_ONLY", "none")
    /\ Go(t, "idle", NoJob)
    /\ UNCHANGED <<service, emergency, sockets, seen>>
-----------------------------------------------------------------------------
(* POST /orders: the gates of a manual order, which is recorded locally.    *)

\* The trading state allows it, and the account data is ready: both may have
\* changed when the order comes to the gate.
SubmitOrder(t) ==
    /\ pc[t] = "idle"
    /\ AllowsOrders(tstate)
    /\ conn # None /\ equity # None
    /\ Go(t, "gate", NoJob)
    /\ UNCHANGED <<service, state, emergency, sockets, seen>>

\* Mutant: the flag of the risk manager decides alone.
GateFlagOnly(t) ==
    /\ pc[t] = "gate"
    /\ Go(t, IF flag THEN "idle" ELSE "record", NoJob)
    /\ UNCHANGED <<service, state, emergency, sockets, seen>>

ValidateManualOrder(t) ==
    /\ pc[t] = "gate"
    /\ \E l \in {"idle", "record"} :
         /\ l = "record" => ~(file \/ flag)
         /\ Go(t, l, NoJob)
    /\ UNCHANGED <<service, state, emergency, sockets, seen>>

RecordOrder(t) ==
    /\ pc[t] = "record"
    /\ Go(t, "idle", NoJob)
    /\ UNCHANGED <<service, state, emergency, sockets, seen>>

\* Only the marker file survives the process.
Restart ==
    /\ "restart" \in Env /\ MaxSeen > 1
    /\ seen' = {"restart"} \cup (seen \cap {"disk"})
    /\ conn' = None /\ bridge' = None /\ equity' = None
    /\ tstate' = "DISCONNECTED" /\ armer' = "none"
    /\ flag' = FALSE
    /\ socket' = [b \in Bridges |-> IF socket[b] = "none" THEN "none" ELSE "down"]
    /\ lost' = [b \in Bridges |-> 0]
    /\ pc' = [t \in Threads |-> "idle"]
    /\ job' = [t \in Threads |-> NoJob]
    /\ UNCHANGED <<file, halted>>

Continue(t) ==
    \/ BridgeUp(t) \/ BridgeTimesOut(t) \/ ConnectFails(t)
    \/ AttachBridge(t) \/ SetConnected(t) \/ CheckAccount(t)
    \/ DetachBridge(t) \/ CloseBridge(t) \/ NoticeLost(t) \/ SetDisconnected(t)
    \/ MarkHalted(t) \/ WriteMarker(t)
    \/ ReleaseFlag(t) \/ ReadConnection(t) \/ RestoreState(t) \/ CapState(t) \/ LowerState(t)
    \/ ValidateManualOrder(t) \/ RecordOrder(t)

Request(t) ==
    \/ \E e \in Envs, b \in Bridges : Connect(t, e, b)
    \/ Disconnect(t) \/ Halt(t) \/ Resume(t) \/ SubmitOrder(t)

Next ==
    \/ \E t \in Requests : Request(t)
    \/ \E t \in Threads : Continue(t)
    \/ \E b \in Bridges : SocketDrops(b) \/ ConnectionClosed(b) \/ UpdateAccountValue(b)
    \/ Restart

Spec == Init /\ [][Next]_vars
-----------------------------------------------------------------------------
TypeOK ==
    /\ conn \in Envs \cup {None}
    /\ bridge \in Bridges \cup {None}
    /\ equity \in Bridges \cup {None}
    /\ tstate \in TradingStates
    /\ armer \in {"none", "connect", "resume"}
    /\ flag \in BOOLEAN /\ file \in BOOLEAN /\ halted \in BOOLEAN
    /\ socket \in [Bridges -> Sockets]
    /\ lost \in [Bridges -> 0..2]
    /\ pc \in [Threads -> Pc]
    /\ job \in [Threads -> Job]
    /\ seen \subseteq Hazards

(* A halt that has returned is in force until somebody resumes: in memory,  *)
(* or on disk across restarts and whatever connects, disconnects or is      *)
(* resumed at the same time.  It takes a marker that could not be written   *)
(* and a restart, or a resume under way, to forget it (halt, resume).       *)
HaltHolds ==
    halted => \/ flag \/ file
              \/ "disk" \in seen /\ seen \cap {"restart", "race"} # {}

(* The same at the place that matters: no manual order that is validated    *)
(* after a halt returned goes through (validate_manual_order, "Emergency    *)
(* stop is active - all trading halted").                                   *)
GateSeesHalt ==
    [][\A t \in Requests :
         pc[t] = "gate" /\ pc'[t] = "record" =>
            \/ ~halted
            \/ "disk" \in seen /\ seen \cap {"restart", "race"} # {}]_vars

(* While the emergency stop is active the trading state does not allow      *)
(* orders, whatever connects, is lost or fails: "preserve an active         *)
(* emergency stop so it is not silently cleared by a reconnection"          *)
(* (services.py:203-204).  A halt that meets a resume may be overwritten.   *)
StateShowsStop ==
    flag /\ AllowsOrders(tstate) => At(Halting) # {} \/ "race" \in seen

(* The state allows orders only for the environment that is connected, but  *)
(* for a halt that has not got to it yet, a halt that met a resume, and a   *)
(* resume that restored what it had read of another connection.  And it is  *)
(* connecting that arms live trading: a resume, though it restores the      *)
(* state, "requires explicit re-arming" (api_emergency.py:154-155).         *)
StateIsConnected ==
    /\ AllowsOrders(tstate) =>
          \/ conn # None /\ tstate = StateFor(conn)
          \/ At(Halting) # {}
          \/ seen \cap {"race", "moved"} # {}
    /\ armer = "resume" => At({"cap", "lower"}) # {}

(* "cached connection state never outlives the underlying socket"           *)
(* (services.py:92-93), but for the moment its reader takes to notice, and  *)
(* unless it drops before the connection is announced, or while two         *)
(* connections overlap.  And every socket that is open is the manager's, or *)
(* somebody is at work on it: nothing goes on delivering callbacks for a    *)
(* connection that is over.                                                 *)
Noticing == \/ At({"notice", "undo", "close"}) # {}
            \/ \E b \in Bridges : lost[b] > 0
SocketsAgree ==
    /\ conn # None =>
          \/ bridge # None /\ socket[bridge] = "up"
          \/ Noticing
          \/ seen \cap {"early", "overlap", "stray"} # {}
    /\ \A b \in Bridges :
          socket[b] = "up" =>
              \/ b = bridge
              \/ \E t \in At({"attach", "close"}) : job[t].bridge = b
              \/ seen \cap {"overlap", "stray"} # {}

(* Account data is ready only with data of the connection there is: equity  *)
(* of an account of before is never taken for the new one's                 *)
(* (account_data_ready, updateAccountValue).                                *)
ReadyIsCurrent ==
    conn # None /\ equity # None =>
        \/ equity = bridge
        \/ Noticing
        \/ seen \cap {"overlap", "stray", "late"} # {}

=============================================================================
