----------------------------- MODULE LiveSession -----------------------------
(***************************************************************************)
(* Who may run a live trading cycle, and when: the mode switch of the live *)
(* robot, the background lifecycle worker, the continuous supervisor, the  *)
(* status polls that also drive it, and the requests of an operator that   *)
(* activate, halt, stop and reset it.                                      *)
(*                                                                         *)
(* A thread is a worker (AutonomousLifecycleWorker._loop), a poller (GET   *)
(* /live/status, again and again) or an operator's request thread.  Every  *)
(* read of shared state that a later step relies on is a step of its own.  *)
(* What a cycle does with orders is the subject of LiveEntry; here it      *)
(* enters one trade (a basket counts as one) or none.                      *)
(***************************************************************************)
EXTENDS Naturals, FiniteSets

CONSTANTS
    Workers,    \* lifecycle worker objects
    Pollers,    \* threads that serve /live/status
    Operators,  \* request threads of the operator
    Trades,     \* bound: trades of the store that are told apart
    DryRuns,    \* the values of dry_run that activations ask for
    Env,        \* what else may happen, a set of Hazards
    None        \* no thread

(* "faults"   a gate fails (broker, protection, recovery), a tick raises,  *)
(*            the marker cannot be written                                 *)
(* "hurried"  requests that start a cycle are made while threads are busy  *)
Hazards == {"faults", "hurried"}

Threads == Workers \cup Pollers \cup Operators

ASSUME ThreadsAssumption ==
    /\ Workers \cap Pollers = {}
    /\ Workers \cap Operators = {}
    /\ Pollers \cap Operators = {}
ASSUME NoneAssumption == None \notin Threads
ASSUME DryRunsAssumption == DryRuns \subseteq BOOLEAN
ASSUME EnvAssumption == Env \subseteq Hazards

VARIABLES
    session,    \* trading_cycle of the live mode, "off" when it is not on
    dry,        \* its dry_run
    counted,    \* its cycles_started > 0
    mine,       \* the trades entered since its activated_at
    confirmed,  \* a LiveTradingConfirmation is in app.config
    trade,      \* the trades of the live store; one not entered yet is "over" too
    marker,     \* the EMERGENCY_STOP file exists
    pausedBy,   \* the supervisor's pause_reason, "none" when it is not paused
    faulted,    \* history: a fault paused it since it was last resumed
    eligible,   \* now >= next_eligible_at
    holder,     \* the thread in the supervisor's non-overlap lock
    handle,     \* the worker in app.config
    stop,       \* workers whose stop event is set
    pc,         \* where a thread is
    job         \* what it is doing there

mode       == <<session, dry, counted, mine>>
supervisor == <<pausedBy, faulted, eligible, holder>>
workers    == <<handle, stop>>
vars       == <<mode, confirmed, trade, marker, supervisor, workers, pc, job>>

Cycles == {"single", "continuous"}

(* live    its runner's config has live_dry_run = False                    *)
(* failed  a trade of since_activation had failed                          *)
(* dry     history: the session was a dry run when the cycle was decided   *)
Job == [kind : {"tick", "exits", "once", "activate", "actual"},
        live : BOOLEAN, failed : BOOLEAN, dry : BOOLEAN]
NoJob == [kind |-> "tick", live |-> FALSE, failed |-> FALSE, dry |-> FALSE]

RestPc == {"idle", "dead", "wait"}
RunPc  == {"cycle", "run"}
TickPc == {"route", "admit", "acquire", "inspect", "tick", "advance", "finish", "halt"}
Pc     == RestPc \cup RunPc \cup TickPc \cup
          {"turnon", "complete", "start", "spawn", "stopping",
           "stopoff", "stopworker", "pausing", "clearing", "reading", "resuming"}

On         == session # "off"
OpenTrades == {a \in Trades : trade[a] = "open"}
Failed(A)  == \E a \in A : trade[a] = "failed"
Alive(w)   == pc[w] # "dead"
AtRest(t)  == pc[t] \in RestPc

\* A thread moves on with a job, or comes to rest and has none.
Go(t, l, j) ==
    /\ pc' = [pc EXCEPT ![t] = l]
    /\ job' = [job EXCEPT ![t] = IF l \in RestPc THEN NoJob ELSE j]
Goto(t, l)  == Go(t, l, job[t])
Rest(t)     == IF t \in Workers THEN "wait" ELSE "idle"

\* Requests that start a cycle wait for the threads that are busy, unless the
\* operator is in a hurry.
Unhurried(o) == "hurried" \in Env \/ \A t \in Threads \ {o} : AtRest(t)

\* AutonomousModeState.turn_off
TurnOff == /\ session' = "off"
           /\ dry' = FALSE
           /\ counted' = FALSE
           /\ mine' = {}

\* ContinuousSupervisor.pause, and the state that _pause_with_fault writes.
Pause(reason) == /\ pausedBy' = reason
                 /\ faulted' = (faulted \/ reason = "fault")

Init ==
    /\ session = "off" /\ dry = FALSE /\ counted = FALSE /\ mine = {}
    /\ confirmed = FALSE
    /\ trade = [a \in Trades |-> "over"]
    /\ marker = FALSE
    /\ pausedBy = "none" /\ faulted = FALSE /\ eligible = TRUE /\ holder = None
    /\ handle = None /\ stop = {}
    /\ pc = [t \in Threads |-> IF t \in Workers THEN "dead" ELSE "idle"]
    /\ job = [t \in Threads |-> NoJob]
-----------------------------------------------------------------------------
(* _supervised_live_lifecycle_tick, in a worker or in a status poll.        *)

\* Only a continuous session goes through the supervisor.
Route(t) ==
    /\ pc[t] = "route"
    /\ Goto(t, IF session = "continuous" THEN "admit" ELSE "tick")
    /\ UNCHANGED <<mode, confirmed, trade, marker, supervisor, workers>>

\* run_cycle: paused and not yet eligible cycles are skipped ...
Admit(t) ==
    /\ pc[t] = "admit"
    /\ Goto(t, IF pausedBy = "none" /\ eligible THEN "acquire" ELSE Rest(t))
    /\ UNCHANGED <<mode, confirmed, trade, marker, supervisor, workers>>

\* Mutant: the result of the attempt to take the lock is ignored.
AcquireAnyway(t) ==
    /\ pc[t] = "acquire"
    /\ holder' = (IF holder = None THEN t ELSE holder)
    /\ Goto(t, "inspect")
    /\ UNCHANGED <<mode, confirmed, trade, marker, pausedBy, faulted, eligible, workers>>

\* ... and so is one that overlaps another.
Acquire(t) ==
    /\ pc[t] = "acquire"
    /\ \/ holder = None /\ holder' = t /\ Goto(t, "inspect")
       \/ holder # None /\ Goto(t, Rest(t)) /\ UNCHANGED holder
    /\ UNCHANGED <<mode, confirmed, trade, marker, pausedBy, faulted, eligible, workers>>

\* _pause_with_fault, and the release of the lock on the way out.  The caller
\* turns the mode off next.
Fault(t, reason) ==
    /\ holder = t
    /\ Pause(reason)
    /\ eligible' = FALSE
    /\ holder' = None
    /\ Goto(t, "halt")
    /\ UNCHANGED <<mode, confirmed, trade, marker, workers>>

\* The fault provider looks at every trade of the store, then the gates at the
\* broker, the emergency stop, protection and recovery.
FailedSession == session = "continuous" /\ Failed(Trades)

Inspect(t) ==
    /\ pc[t] = "inspect"
    /\ \/ /\ FailedSession \/ "faults" \in Env
          /\ Fault(t, "fault")
       \/ /\ marker /\ ~FailedSession
          /\ Fault(t, "emergency")
       \/ /\ ~marker /\ ~FailedSession
          /\ Goto(t, "tick")
          /\ UNCHANGED <<mode, confirmed, trade, marker, supervisor, workers>>

HaltPaused(t) ==
    /\ pc[t] = "halt"
    /\ TurnOff
    /\ Goto(t, Rest(t))
    /\ UNCHANGED <<confirmed, trade, marker, supervisor, workers>>

\* _live_lifecycle_tick: the mode is read again; gates, reconciliation and exits
\* follow, and may raise.  Without a supervisor the exception is only logged.
Tick(t) ==
    /\ pc[t] = "tick"
    /\ \/ /\ Goto(t, IF On THEN "advance" ELSE "finish")
          /\ UNCHANGED <<mode, confirmed, trade, marker, supervisor, workers>>
       \/ /\ "faults" \in Env /\ On /\ holder # t
          /\ Goto(t, Rest(t))
          /\ UNCHANGED <<mode, confirmed, trade, marker, supervisor, workers>>
       \/ /\ "faults" \in Env /\ On
          /\ Fault(t, "fault")

\* Mutant: the lock is kept.
FinishLocked(t) ==
    /\ pc[t] = "finish"
    /\ \/ /\ holder # t
          /\ Goto(t, Rest(t))
          /\ UNCHANGED <<mode, confirmed, trade, marker, supervisor, workers>>
       \/ /\ holder = t
          /\ eligible' = FALSE
          /\ Goto(t, Rest(t))
          /\ UNCHANGED <<mode, confirmed, trade, marker, pausedBy, faulted, holder, workers>>

\* The end of a tick.  A supervised one completes its cycle, or pauses on the
\* risk breach its result reports.
Finish(t) ==
    /\ pc[t] = "finish"
    /\ \/ /\ holder # t
          /\ Goto(t, Rest(t))
          /\ UNCHANGED <<mode, confirmed, trade, marker, supervisor, workers>>
       \/ /\ holder = t
          /\ holder' = None /\ eligible' = FALSE
          /\ Goto(t, Rest(t))
          /\ UNCHANGED <<mode, confirmed, trade, marker, pausedBy, faulted, workers>>
       \/ /\ "faults" \in Env
          /\ Fault(t, "fault")
-----------------------------------------------------------------------------
(* _maybe_advance_live_lifecycle: once the trades of the session are over, a *)
(* single trade session is complete and a continuous one runs its next cycle. *)

\* Mutant: a session without trades need not have had its first cycle.
NothingUncounted == \/ ~On
                    \/ mine = {} /\ session = "single"
                    \/ OpenTrades \cap mine # {}

NothingToDo == \/ ~On \/ ~counted
               \/ mine = {} /\ session = "single"
               \/ OpenTrades \cap mine # {}

\* Mutant: a single trade session goes on like a continuous one.
AdvanceAgain(t) ==
    /\ pc[t] = "advance"
    /\ \/ /\ NothingToDo
          /\ Goto(t, "finish")
       \/ /\ ~NothingToDo
          /\ Go(t, "cycle", [job[t] EXCEPT !.failed = Failed(mine), !.dry = dry])
    /\ UNCHANGED <<mode, confirmed, trade, marker, supervisor, workers>>

Advance(t) ==
    /\ pc[t] = "advance"
    /\ \/ /\ NothingToDo
          /\ Goto(t, "finish")
       \/ /\ ~NothingToDo /\ session = "single"
          /\ Goto(t, "complete")
       \/ /\ ~NothingToDo /\ session = "continuous"
          /\ Go(t, "cycle", [job[t] EXCEPT !.failed = Failed(mine), !.dry = dry])
    /\ UNCHANGED <<mode, confirmed, trade, marker, supervisor, workers>>

\* The session is turned off, whichever session it is by now.
Complete(t) ==
    /\ pc[t] = "complete"
    /\ TurnOff
    /\ Goto(t, CASE job[t].kind \in {"tick", "exits"} -> "finish"
                 [] job[t].kind = "activate"          -> "start"
                 [] OTHER                             -> "idle")
    /\ UNCHANGED <<confirmed, trade, marker, supervisor, workers>>
-----------------------------------------------------------------------------
(* _run_next_live_cycle and /live/run-once up to the runner, and run_once,   *)
(* in any thread.                                                            *)

\* An exception, or an executor that could not be built: the session ends,
\* but for a run by hand, which only fails.
GiveUp(t, j) == Go(t, IF j.kind = "once" THEN "idle" ELSE "complete", j)

\* The mode is asked for dry_run again.  A cycle that is to be real needs a
\* session without failed trades, and a confirmation to build the executor with.
Cycle(t) ==
    /\ pc[t] = "cycle"
    /\ LET j == [job[t] EXCEPT !.live = ~dry] IN
       \/ /\ j.live => confirmed /\ ~j.failed
          /\ Go(t, "run", j)
       \/ /\ j.live
          /\ j.failed \/ ~confirmed \/ "faults" \in Env
          /\ GiveUp(t, j)
    /\ UNCHANGED <<mode, confirmed, trade, marker, supervisor, workers>>

\* Where a thread goes with the result of run_once.
Continue(t, ends) ==
    Goto(t, CASE ends                                  -> "complete"
              [] job[t].kind \in {"tick", "exits"}     -> "finish"
              [] job[t].kind = "activate"              -> "start"
              [] OTHER                                 -> "idle")

\* run_once, of which LiveEntry has the details: a trade is entered, or previewed
\* and recorded all the same, unless the marker is there or anything else says
\* no; and then cycles_started += 1, whether or not the mode is still on.
\*   An activation whose entry got no bracket ends its session.  Without an entry
\* a real session ends, a dry run and a first cycle only if the market is not
\* suitable or nothing was found for a single trade; a run by hand ends none.
\* The executor that /live/activate runs with has no adapter to send orders to.
Run(t) ==
    /\ pc[t] = "run"
    /\ \/ /\ ~marker
          /\ job[t].kind = "activate" => ~job[t].live
          /\ \E a \in Trades :
                /\ trade[a] = "over"
                /\ trade' = [trade EXCEPT ![a] = "open"]
                /\ mine' = IF On THEN mine \cup {a} ELSE mine
          /\ counted' = TRUE
          /\ \E ends \in {FALSE, job[t].kind = "actual"} : Continue(t, ends)
       \/ /\ counted' = TRUE
          /\ \/ job[t].kind # "once" /\ Continue(t, TRUE)
             \/ /\ job[t].live => job[t].kind \in {"once", "activate"}
                /\ Continue(t, FALSE)
          /\ UNCHANGED <<trade, mine>>
       \/ /\ "faults" \in Env
          /\ GiveUp(t, job[t])
          /\ UNCHANGED <<trade, mine, counted>>
    /\ UNCHANGED <<session, dry, confirmed, marker, supervisor, workers>>
-----------------------------------------------------------------------------
(* AutonomousLifecycleWorker                                                 *)

\* Mutant: whether there is a worker already is not asked.
StartAnyway(o) ==
    /\ pc[o] = "start"
    /\ Goto(o, IF On /\ \E w \in Workers : ~Alive(w) THEN "spawn" ELSE "idle")
    /\ UNCHANGED <<mode, confirmed, trade, marker, supervisor, workers>>

\* _start_lifecycle_worker: not while the last one is running.
Start(o) ==
    /\ pc[o] = "start"
    /\ Goto(o, IF On /\ handle = None THEN "spawn" ELSE "idle")
    /\ UNCHANGED <<mode, confirmed, trade, marker, supervisor, workers>>

Spawn(o) ==
    /\ pc[o] = "spawn"
    /\ \E w \in Workers :
          /\ pc[w] = "dead"
          /\ handle' = w
          /\ pc' = [pc EXCEPT ![o] = "idle", ![w] = "wait"]
          /\ job' = [job EXCEPT ![o] = NoJob]
    /\ UNCHANGED <<mode, confirmed, trade, marker, supervisor, stop>>

\* Mutant: only the stop event ends the loop.
WakeOff(w) ==
    /\ pc[w] = "wait"
    /\ \/ /\ w \notin stop
          /\ Goto(w, "route")
          /\ UNCHANGED workers
       \/ /\ w \in stop
          /\ Goto(w, "dead")
          /\ stop' = stop \ {w}
          /\ handle' = IF handle = w THEN None ELSE handle
    /\ UNCHANGED <<mode, confirmed, trade, marker, supervisor>>

\* _loop: the wait is over, because of the stop event or of the time.  The event
\* and the mode decide whether there is another tick.
Wake(w) ==
    /\ pc[w] = "wait"
    /\ \/ /\ w \notin stop /\ On
          /\ Goto(w, "route")
          /\ UNCHANGED workers
       \/ /\ w \in stop \/ ~On
          /\ Goto(w, "dead")
          /\ stop' = stop \ {w}
          /\ handle' = IF handle = w THEN None ELSE handle
    /\ UNCHANGED <<mode, confirmed, trade, marker, supervisor>>

\* GET /live/status
Poll(p) ==
    /\ pc[p] = "idle"
    /\ Goto(p, "route")
    /\ UNCHANGED <<mode, confirmed, trade, marker, supervisor, workers>>
-----------------------------------------------------------------------------
(* The operator's requests.                                                  *)

\* /live/activate and /live/actual-live/activate: the gates are open.
Activate(o, kind) ==
    /\ pc[o] = "idle" /\ kind \in {"activate", "actual"}
    /\ ~marker
    /\ Go(o, "turnon", [NoJob EXCEPT !.kind = kind])
    /\ UNCHANGED <<mode, confirmed, trade, marker, supervisor, workers>>

\* turn_on, and the session values kept in app.config; then run_once follows.
\* /live/activate needs an account id and a live connection to keep a
\* confirmation.  Nothing removes one again.
TurnOn(o) ==
    /\ pc[o] = "turnon" /\ Unhurried(o)
    /\ \E c \in Cycles, d \in DryRuns :
          /\ job[o].kind = "actual" => ~d
          /\ session' = c /\ dry' = d
          /\ counted' = FALSE /\ mine' = {}
          /\ confirmed' \in IF job[o].kind = "actual" THEN {TRUE}
                              ELSE {confirmed, confirmed \/ ~d}
          /\ Go(o, "run", [job[o] EXCEPT !.live = ~d, !.dry = d])
    /\ UNCHANGED <<trade, marker, supervisor, workers>>

\* /live/halt
Halt(o) ==
    /\ pc[o] = "idle"
    /\ TurnOff
    /\ Goto(o, "stopping")
    /\ UNCHANGED <<confirmed, trade, marker, supervisor, workers>>

\* Mutant: it is not asked whether there is a worker.
StopWorkerUnasked(o) ==
    /\ pc[o] \in {"stopping", "stopworker"}
    /\ stop' = stop \cup {handle}
    /\ Goto(o, IF pc[o] = "stopworker" THEN "pausing" ELSE "idle")
    /\ UNCHANGED <<mode, confirmed, trade, marker, supervisor, handle>>

\* _stop_live_lifecycle_worker
StopWorker(o) ==
    /\ pc[o] \in {"stopping", "stopworker"}
    /\ stop' = stop \cup ({handle} \ {None})
    /\ Goto(o, IF pc[o] = "stopworker" THEN "pausing" ELSE "idle")
    /\ UNCHANGED <<mode, confirmed, trade, marker, supervisor, handle>>

\* /emergency-stop: the marker, the mode, the worker, the supervisor; the rest
\* also when the marker could not be written.
EmergencyStop(o) ==
    /\ pc[o] = "idle"
    /\ marker' = TRUE \/ ("faults" \in Env /\ UNCHANGED marker)
    /\ Goto(o, "stopoff")
    /\ UNCHANGED <<mode, confirmed, trade, supervisor, workers>>

StopOff(o) ==
    /\ pc[o] = "stopoff"
    /\ TurnOff
    /\ Goto(o, "stopworker")
    /\ UNCHANGED <<confirmed, trade, marker, supervisor, workers>>

PauseSupervisor(o) ==
    /\ pc[o] = "pausing"
    /\ Pause("emergency")
    /\ Goto(o, "idle")
    /\ UNCHANGED <<mode, confirmed, trade, marker, eligible, holder, workers>>

\* /emergency-reset, with confirm: the marker, the mode, and the supervisor if
\* what paused it was the emergency stop.
EmergencyReset(o) ==
    /\ pc[o] = "idle"
    /\ marker' = FALSE
    /\ Goto(o, "clearing")
    /\ UNCHANGED <<mode, confirmed, trade, supervisor, workers>>

ResetOff(o) ==
    /\ pc[o] = "clearing"
    /\ TurnOff
    /\ Goto(o, "reading")
    /\ UNCHANGED <<confirmed, trade, marker, supervisor, workers>>

ReadReason(o) ==
    /\ pc[o] = "reading"
    /\ Goto(o, IF pausedBy = "emergency" THEN "resuming" ELSE "idle")
    /\ UNCHANGED <<mode, confirmed, trade, marker, supervisor, workers>>

Resume(o) ==
    /\ pc[o] = "resuming"
    /\ pausedBy' = "none" /\ faulted' = FALSE
    /\ Goto(o, "idle")
    /\ UNCHANGED <<mode, confirmed, trade, marker, eligible, holder, workers>>

\* /live/run-once
RunOnce(o) ==
    /\ pc[o] = "idle" /\ Unhurried(o)
    /\ On
    /\ Go(o, "cycle", [NoJob EXCEPT !.kind = "once", !.dry = dry])
    /\ UNCHANGED <<mode, confirmed, trade, marker, supervisor, workers>>

\* /live/evaluate-exits: reconciliation and exits, and then on to the next cycle.
EvaluateExits(o) ==
    /\ pc[o] = "idle" /\ Unhurried(o)
    /\ Go(o, "advance", [NoJob EXCEPT !.kind = "exits"])
    /\ UNCHANGED <<mode, confirmed, trade, marker, supervisor, workers>>
-----------------------------------------------------------------------------
(* Time, and the broker, which closes a trade or lets it fail.               *)

Elapse ==
    /\ ~eligible
    /\ eligible' = TRUE
    /\ UNCHANGED <<mode, confirmed, trade, marker, pausedBy, faulted, holder, workers, pc, job>>

Settle(a) ==
    /\ trade[a] = "open"
    /\ \E s \in {"over", "failed"} : trade' = [trade EXCEPT ![a] = s]
    /\ UNCHANGED <<mode, confirmed, marker, supervisor, workers, pc, job>>

\* The steps of a thread that has begun something.
Tock(t) ==
    \/ Route(t) \/ Admit(t) \/ Acquire(t) \/ Inspect(t) \/ HaltPaused(t)
    \/ Tick(t) \/ Finish(t) \/ Advance(t) \/ Complete(t)
    \/ Cycle(t) \/ Run(t)

Loop(w) == Tock(w) \/ Wake(w)

Serve(o) ==
    \/ Tock(o) \/ TurnOn(o) \/ Start(o) \/ Spawn(o) \/ StopWorker(o)
    \/ StopOff(o) \/ PauseSupervisor(o) \/ ResetOff(o) \/ ReadReason(o) \/ Resume(o)

Request(o) ==
    \/ \E kind \in {"activate", "actual"} : Activate(o, kind)
    \/ Halt(o) \/ EmergencyStop(o) \/ EmergencyReset(o) \/ RunOnce(o) \/ EvaluateExits(o)

Next ==
    \/ \E w \in Workers : Loop(w)
    \/ \E p \in Pollers : Poll(p) \/ Tock(p)
    \/ \E o \in Operators : Serve(o) \/ Request(o)
    \/ Elapse
    \/ \E a \in Trades : Settle(a)

Spec == Init /\ [][Next]_vars

\* Threads keep running, the dashboard keeps polling, and time passes.  Nobody
\* has to make a request, and no trade has to end.
FairSpec ==
    /\ Spec
    /\ \A w \in Workers : WF_vars(Loop(w))
    /\ \A p \in Pollers : WF_vars(Poll(p) \/ Tock(p))
    /\ \A o \in Operators : WF_vars(Serve(o))
    /\ WF_vars(Elapse)
-----------------------------------------------------------------------------
(* Properties. *)

\* Every variable has its type.
TypeOK ==
    /\ session \in Cycles \cup {"off"} /\ dry \in BOOLEAN /\ counted \in BOOLEAN
    /\ mine \subseteq Trades /\ confirmed \in BOOLEAN
    /\ trade \in [Trades -> {"over", "open", "failed"}]
    /\ marker \in BOOLEAN
    /\ pausedBy \in {"none", "fault", "emergency"}
    /\ faulted \in BOOLEAN
    /\ eligible \in BOOLEAN /\ holder \in Threads \cup {None}
    /\ handle \in Workers \cup {None} /\ stop \subseteq Workers
    /\ pc \in [Threads -> Pc] /\ job \in [Threads -> Job]

\* A cycle that the session runs: the first one of an activation, or one of the
\* ticks of the worker and of the status polls.
Automatic(t) == pc[t] \in RunPc /\ job[t].kind \in {"tick", "activate", "actual"}

\* The worker, the status polls and an activation never run cycles at the same
\* time: the supervisor's lock keeps ticks apart, cycles_started keeps them away
\* from the first cycle.
OneCycleAtATime ==
    \A t, u \in Threads : Automatic(t) /\ Automatic(u) => t = u

\* A single trade session that has entered a trade never enters another one, no
\* matter how its ticks, which no lock protects, interleave with halts and with
\* the next activation.
SingleTradeOnce ==
    \A t \in Threads :
       Automatic(t) /\ session = "single" => mine = {}

\* What a thread is doing where it is.
JobFits(t) ==
    /\ AtRest(t) => job[t] = NoJob
    /\ pc[t] \in {"route", "admit", "acquire", "inspect", "tick"} => job[t].kind = "tick"
    /\ pc[t] = "advance" => job[t].kind \in {"tick", "exits"}
    /\ pc[t] = "cycle"   => job[t].kind \in {"tick", "exits", "once"}
    /\ pc[t] = "turnon"  => job[t].kind \in {"activate", "actual"}

\* A tick that can reach a cycle of a continuous session has the lock.
TickIsLocked(t) ==
    /\ pc[t] = "inspect" => holder = t
    /\ pc[t] \in {"tick", "advance"} /\ job[t].kind = "tick" /\ session = "continuous"
          => holder = t
    /\ pc[t] \in RunPc /\ job[t].kind = "tick" => holder = t /\ session # "single"

\* While the first cycle of a session runs, nothing else does and nothing can:
\* the session counts no cycle and no trade.
FirstCycleIsAlone(t) ==
    pc[t] = "run" /\ job[t].kind \in {"activate", "actual"} =>
       /\ ~counted /\ mine = {}
       /\ \A u \in Threads \ {t} : pc[u] \notin RunPc

\* The inductive invariant behind OneCycleAtATime and SingleTradeOnce: admission
\* to a cycle is by the lock, by cycles_started, or by being the first.
AdmissionInv ==
    \A t \in Threads : JobFits(t) /\ TickIsLocked(t) /\ FirstCycleIsAlone(t)

\* Activations and halts never leave two lifecycle workers running.
OneWorker == \A v, w \in Workers : Alive(v) /\ Alive(w) => v = w

\* Only a resume makes a paused supervisor run again, and it never clears a
\* fault ("intentionally left untouched so their underlying faults are not
\* silently cleared", emergency_reset).  The emergency stop overwrites the
\* fault's reason first, so this does not hold and is not checked.
FaultsStay ==
    [][pausedBy # "none" /\ pausedBy' = "none" => ~faulted]_vars

\* A cycle that a dry run session decided on sends no real order.  A halt in
\* between makes it a real one, so this does not hold and is not checked.
DryRunSendsNothing ==
    \A t \in Threads : pc[t] = "run" /\ job[t].live => ~job[t].dry

\* A worker does not outlive its session: once the mode stays off they end,
\* whoever turned it off.
WorkersEnd == <>[]~On => <>[](\A w \in Workers : ~Alive(w))

\* A continuous session whose trades are over gets its next cycle, unless it is
\* turned off or its supervisor is paused.
ContinuousAdvances ==
    (session = "continuous" /\ counted /\ OpenTrades \cap mine = {})
      ~> (~On \/ pausedBy # "none" \/ OpenTrades \cap mine # {}
          \/ \E t \in Threads : pc[t] \in RunPc)
=============================================================================
