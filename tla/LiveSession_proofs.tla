------------------------- MODULE LiveSession_proofs -------------------------
(* Proofs about LiveSession: its types, and who is admitted to a cycle. *)
EXTENDS LiveSession, TLAPS

\* Requests that start a cycle wait until the threads are at rest.
Patient == "hurried" \notin Env

\* A step of a thread, which every step but two is.
ThreadStep(t) ==
    \/ Tock(t)
    \/ t \in Workers /\ Wake(t)
    \/ t \in Pollers /\ Poll(t)
    \/ t \in Operators /\ (Serve(t) \/ Request(t))

LEMMA ThreadSteps ==
    ASSUME Next
    PROVE  (\E t \in Threads : ThreadStep(t)) \/ Elapse \/ (\E a \in Trades : Settle(a))
<1>1. ASSUME NEW w \in Workers, Loop(w) PROVE w \in Threads /\ (Tock(w) \/ Wake(w))
  BY <1>1 DEF Loop, Threads
<1>2. ASSUME NEW p \in Pollers PROVE p \in Threads
  BY DEF Threads
<1>3. ASSUME NEW o \in Operators PROVE o \in Threads
  BY DEF Threads
<1> QED BY <1>1, <1>2, <1>3, Zenon DEF Next, ThreadStep

\* Every thread's step keeps the types.
LEMMA TypeStep ==
    ASSUME TypeOK, NEW t \in Threads, ThreadStep(t)
    PROVE  TypeOK'
<1> USE DEF TypeOK, mode, supervisor, workers
<1>0. /\ NoJob \in Job /\ job[t] \in Job
      /\ \A d \in BOOLEAN : [job[t] EXCEPT !.live = d] \in Job
      /\ \A d, e \in BOOLEAN :
            /\ [job[t] EXCEPT !.live = d, !.dry = e] \in Job
            /\ [job[t] EXCEPT !.failed = d, !.dry = e] \in Job
  BY DEF Job, NoJob
<1>1. CASE Route(t)
  BY <1>1 DEF Route, Go, Goto, Job, NoJob, Pc, RestPc, RunPc, TickPc, Cycles
<1>2. CASE Admit(t)
  BY <1>2 DEF Admit, Rest, Go, Goto, Job, NoJob, Pc, RestPc, RunPc, TickPc,
     Cycles
<1>3. CASE Acquire(t)
  <2>1. pc' \in [Threads -> Pc]
    BY <1>3 DEF Acquire, Rest, Go, Goto, Pc, RestPc, RunPc, TickPc, Threads
  <2>2. job' \in [Threads -> Job]
    BY <1>3, <1>0 DEF Acquire, Rest, Go, Goto
  <2> QED BY <1>3, <2>1, <2>2 DEF Acquire, Rest
<1>4. CASE Inspect(t)
  <2>1. pc' \in [Threads -> Pc]
    BY <1>4 DEF Inspect, Fault, Pause, Go, Goto, Pc, RestPc, RunPc, TickPc,
       Threads
  <2>2. job' \in [Threads -> Job]
    BY <1>4, <1>0 DEF Inspect, Fault, Pause, Go, Goto
  <2> QED BY <1>4, <2>1, <2>2 DEF Inspect, Fault, Pause
<1>5. CASE HaltPaused(t)
  BY <1>5 DEF HaltPaused, TurnOff, Rest, Go, Goto, Job, NoJob, Pc, RestPc,
     RunPc, TickPc, Cycles
<1>6. CASE Tick(t)
  <2>1. pc' \in [Threads -> Pc]
    BY <1>6 DEF Tick, Fault, Pause, Rest, Go, Goto, Pc, RestPc, RunPc, TickPc,
       Threads
  <2>2. job' \in [Threads -> Job]
    BY <1>6, <1>0 DEF Tick, Fault, Pause, Rest, Go, Goto
  <2> QED BY <1>6, <2>1, <2>2 DEF Tick, Fault, Pause, Rest
<1>7. CASE Finish(t)
  <2>1. pc' \in [Threads -> Pc]
    BY <1>7 DEF Finish, Fault, Pause, Rest, Go, Goto, Pc, RestPc, RunPc,
       TickPc, Threads
  <2>2. job' \in [Threads -> Job]
    BY <1>7, <1>0 DEF Finish, Fault, Pause, Rest, Go, Goto
  <2> QED BY <1>7, <2>1, <2>2 DEF Finish, Fault, Pause, Rest
<1>8. CASE Advance(t)
  <2>1. pc' \in [Threads -> Pc]
    BY <1>8 DEF Advance, Go, Goto, Pc, RestPc, RunPc, TickPc, Threads
  <2>2. job' \in [Threads -> Job]
    <3>1. [job[t] EXCEPT !.failed = Failed(mine), !.dry = dry] \in Job
      BY <1>0 DEF Failed
    <3>2. \A l, j : Go(t, l, j) /\ j \in Job => job' \in [Threads -> Job]
      BY <1>0 DEF Go
    <3> QED BY <1>8, <1>0, <3>1, <3>2 DEF Advance, Goto
  <2> QED BY <1>8, <2>1, <2>2 DEF Advance
<1>9. CASE Complete(t)
  BY <1>9 DEF Complete, TurnOff, Go, Goto, Job, NoJob, Pc, RestPc, RunPc,
     TickPc, Cycles
<1>10. CASE Cycle(t)
  <2>1. pc' \in [Threads -> Pc]
    BY <1>10 DEF Cycle, GiveUp, Go, Goto, Pc, RestPc, RunPc, TickPc, Threads
  <2>2. job' \in [Threads -> Job]
    BY <1>10, <1>0 DEF Cycle, GiveUp, Go, Goto
  <2> QED BY <1>10, <2>1, <2>2 DEF Cycle, GiveUp
<1>11. CASE Run(t)
  <2>1. pc' \in [Threads -> Pc]
    BY <1>11 DEF Run, Continue, GiveUp, Go, Goto, Pc, RestPc, RunPc, TickPc,
       Threads
  <2>2. job' \in [Threads -> Job]
    BY <1>11, <1>0 DEF Run, Continue, GiveUp, Go, Goto
  <2>3. mine' \subseteq Trades /\ trade' \in [Trades -> {"over", "open", "failed"}]
    BY <1>11 DEF Run
  <2>4. counted' \in BOOLEAN
    <3>1. counted' = TRUE \/ counted' = counted
      BY <1>11, Zenon DEF Run
    <3> QED BY <3>1
  <2>5. UNCHANGED <<session, dry, confirmed, marker, pausedBy, faulted, eligible,
                    holder, handle, stop>>
    BY <1>11 DEF Run
  <2> QED BY <2>1, <2>2, <2>3, <2>4, <2>5
<1>12. ASSUME Wake(t), t \in Workers PROVE TypeOK'
  <2>1. pc' \in [Threads -> Pc]
    BY <1>12 DEF Wake, Go, Goto, Pc, RestPc, RunPc, TickPc, Threads
  <2>2. job' \in [Threads -> Job]
    BY <1>12, <1>0 DEF Wake, Go, Goto
  <2> QED BY <1>12, <2>1, <2>2 DEF Wake
<1>13. CASE Poll(t)
  BY <1>13 DEF Poll, Go, Goto, Job, NoJob, Pc, RestPc, RunPc, TickPc, Cycles
<1>14. CASE TurnOn(t)
  <2>1. pc' \in [Threads -> Pc]
    BY <1>14 DEF TurnOn, Go, Goto, Pc, RestPc, RunPc, TickPc, Threads
  <2>2. job' \in [Threads -> Job]
    <3>1. PICK d \in DryRuns :
             job' = [job EXCEPT ![t] = [job[t] EXCEPT !.live = ~d, !.dry = d]]
      BY <1>14 DEF TurnOn, Go, RestPc
    <3>2. d \in BOOLEAN
      BY DryRunsAssumption
    <3>3. [job[t] EXCEPT !.live = ~d, !.dry = d] \in Job
      BY <1>0, <3>2
    <3> QED BY <3>1, <3>3
  <2> QED BY <1>14, <2>1, <2>2, DryRunsAssumption DEF TurnOn, Cycles
<1>15. CASE Start(t)
  BY <1>15 DEF Start, Go, Goto, Job, NoJob, Pc, RestPc, RunPc, TickPc, Cycles
<1>16. CASE Spawn(t)
  <2>1. pc' \in [Threads -> Pc]
    BY <1>16 DEF Spawn, Go, Goto, Pc, RestPc, RunPc, TickPc, Threads
  <2>2. job' \in [Threads -> Job]
    BY <1>16, <1>0 DEF Spawn, Go, Goto, Threads
  <2> QED BY <1>16, <2>1, <2>2 DEF Spawn
<1>17. CASE StopWorker(t)
  BY <1>17 DEF StopWorker, Go, Goto, Job, NoJob, Pc, RestPc, RunPc, TickPc,
     Cycles
<1>18. CASE StopOff(t)
  BY <1>18 DEF StopOff, TurnOff, Go, Goto, Job, NoJob, Pc, RestPc, RunPc,
     TickPc, Cycles
<1>19. CASE PauseSupervisor(t)
  BY <1>19 DEF PauseSupervisor, Pause, Go, Goto, Job, NoJob, Pc, RestPc,
     RunPc, TickPc, Cycles
<1>20. CASE ResetOff(t)
  BY <1>20 DEF ResetOff, TurnOff, Go, Goto, Job, NoJob, Pc, RestPc, RunPc,
     TickPc, Cycles
<1>21. CASE ReadReason(t)
  BY <1>21 DEF ReadReason, Go, Goto, Job, NoJob, Pc, RestPc, RunPc, TickPc,
     Cycles
<1>22. CASE Resume(t)
  BY <1>22 DEF Resume, Go, Goto, Job, NoJob, Pc, RestPc, RunPc, TickPc, Cycles
<1>23. ASSUME NEW kind \in {"activate", "actual"}, Activate(t, kind) PROVE TypeOK'
  <2>1. pc' \in [Threads -> Pc]
    BY <1>23 DEF Activate, Go, Goto, Pc, RestPc, RunPc, TickPc, Threads
  <2>2. job' \in [Threads -> Job]
    BY <1>23, <1>0 DEF Activate, Go, Goto, Job, NoJob
  <2> QED BY <1>23, <2>1, <2>2 DEF Activate
<1>24. CASE Halt(t)
  BY <1>24 DEF Halt, TurnOff, Go, Goto, Job, NoJob, Pc, RestPc, RunPc, TickPc,
     Cycles
<1>25. CASE EmergencyStop(t)
  <2>1. pc' \in [Threads -> Pc]
    BY <1>25 DEF EmergencyStop, Go, Goto, Pc, RestPc, RunPc, TickPc, Threads
  <2>2. job' \in [Threads -> Job]
    BY <1>25, <1>0 DEF EmergencyStop, Go, Goto
  <2> QED BY <1>25, <2>1, <2>2 DEF EmergencyStop
<1>26. CASE EmergencyReset(t)
  <2>1. pc' \in [Threads -> Pc]
    BY <1>26 DEF EmergencyReset, Go, Goto, Pc, RestPc, RunPc, TickPc, Threads
  <2>2. job' \in [Threads -> Job]
    BY <1>26, <1>0 DEF EmergencyReset, Go, Goto
  <2> QED BY <1>26, <2>1, <2>2 DEF EmergencyReset
<1>27. CASE RunOnce(t)
  <2>1. pc' \in [Threads -> Pc]
    BY <1>27 DEF RunOnce, Go, Goto, Pc, RestPc, RunPc, TickPc, Threads
  <2>2. job' \in [Threads -> Job]
    BY <1>27, <1>0 DEF RunOnce, Go, Goto, Job, NoJob
  <2> QED BY <1>27, <2>1, <2>2 DEF RunOnce
<1>28. CASE EvaluateExits(t)
  <2>1. pc' \in [Threads -> Pc]
    BY <1>28 DEF EvaluateExits, Go, Goto, Pc, RestPc, RunPc, TickPc, Threads
  <2>2. job' \in [Threads -> Job]
    BY <1>28, <1>0 DEF EvaluateExits, Go, Goto, Job, NoJob
  <2> QED BY <1>28, <2>1, <2>2 DEF EvaluateExits
<1> QED BY <1>1, <1>2, <1>3, <1>4, <1>5, <1>6, <1>7, <1>8, <1>9, <1>10, <1>11,
   <1>12, <1>13, <1>14, <1>15, <1>16, <1>17, <1>18, <1>19, <1>20, <1>21, <1>22,
   <1>23, <1>24, <1>25, <1>26, <1>27, <1>28 DEF ThreadStep, Tock, Serve, Request

\* Every variable keeps its type, with every hazard of the environment.
THEOREM TypeCorrect == Spec => []TypeOK
<1>1. Init => TypeOK
  <2> SUFFICES ASSUME Init PROVE TypeOK
    OBVIOUS
  <2>1. pc \in [Threads -> Pc]
    BY DEF Init, Pc, RestPc
  <2>2. job \in [Threads -> Job]
    BY DEF Init, Job, NoJob
  <2> QED BY <2>1, <2>2 DEF Init, TypeOK, Cycles
<1>2. TypeOK /\ [Next]_vars => TypeOK'
  <2> SUFFICES ASSUME TypeOK, [Next]_vars PROVE TypeOK'
    OBVIOUS
  <2>1. CASE Elapse
    BY <2>1 DEF Elapse, TypeOK, mode, workers
  <2>2. ASSUME NEW a \in Trades, Settle(a) PROVE TypeOK'
    BY <2>2 DEF Settle, TypeOK, mode, supervisor, workers
  <2>3. CASE UNCHANGED vars
    BY <2>3 DEF vars, TypeOK, mode, supervisor, workers
  <2> QED BY <2>1, <2>2, <2>3, ThreadSteps, TypeStep
<1> QED BY <1>1, <1>2, PTL DEF Spec

\* Every thread's step keeps the admission invariant.
LEMMA AdmissionStep ==
    ASSUME TypeOK, TypeOK', AdmissionInv, Patient, NEW t \in Threads, ThreadStep(t)
    PROVE  AdmissionInv'
<1> USE DEF mode, supervisor, workers, AdmissionInv, JobFits, TickIsLocked, FirstCycleIsAlone
<1>1. CASE Route(t)
  BY <1>1 DEF Route, Go, Goto, NoJob, RestPc, RunPc, AtRest, TypeOK
<1>2. CASE Admit(t)
  <2> SUFFICES ASSUME NEW u \in Threads
               PROVE  JobFits(u)' /\ TickIsLocked(u)' /\ FirstCycleIsAlone(u)'
    OBVIOUS
  <2>1. JobFits(u)'
    BY <1>2 DEF Admit, Rest, Go, Goto, NoJob, RestPc, RunPc, AtRest, TypeOK
  <2>2. TickIsLocked(u)'
    BY <1>2 DEF Admit, Rest, Go, Goto, NoJob, RestPc, RunPc, AtRest, TypeOK
  <2>3. FirstCycleIsAlone(u)'
    BY <1>2 DEF Admit, Rest, Go, Goto, NoJob, RestPc, RunPc, AtRest, TypeOK
  <2> QED BY <2>1, <2>2, <2>3
<1>3. CASE Acquire(t)
  BY <1>3, NoneAssumption DEF Acquire, Rest, Go, Goto, NoJob, RestPc, RunPc,
     AtRest, TypeOK
<1>4. CASE Inspect(t)
  BY <1>4, NoneAssumption DEF Inspect, Fault, Pause, Go, Goto, NoJob, RestPc,
     RunPc, AtRest, TypeOK
<1>5. CASE HaltPaused(t)
  BY <1>5 DEF HaltPaused, TurnOff, Rest, Go, Goto, NoJob, RestPc, RunPc,
     AtRest, TypeOK
<1>6. CASE Tick(t)
  BY <1>6, NoneAssumption DEF Tick, Fault, Pause, Rest, Go, Goto, NoJob,
     RestPc, RunPc, AtRest, TypeOK
<1>7. CASE Finish(t)
  BY <1>7, NoneAssumption DEF Finish, Fault, Pause, Rest, Go, Goto, NoJob,
     RestPc, RunPc, AtRest, TypeOK
<1>8. CASE Advance(t)
  <2> SUFFICES ASSUME NEW u \in Threads
               PROVE  JobFits(u)' /\ TickIsLocked(u)' /\ FirstCycleIsAlone(u)'
    OBVIOUS
  <2>1. /\ pc'[t] \in {"finish", "complete", "cycle"} /\ job'[t].kind = job[t].kind
        /\ pc'[t] = "cycle" => session = "continuous"
    <3>1. [job[t] EXCEPT !.failed = Failed(mine), !.dry = dry].kind = job[t].kind
      BY DEF TypeOK, Job
    <3>2. job'[t] \in {job[t], [job[t] EXCEPT !.failed = Failed(mine), !.dry = dry]}
      BY <1>8 DEF Advance, Go, Goto, RestPc, TypeOK
    <3>3. /\ pc'[t] \in {"finish", "complete", "cycle"}
          /\ pc'[t] = "cycle" => session = "continuous"
      BY <1>8 DEF Advance, Go, Goto, TypeOK
    <3> QED BY <3>1, <3>2, <3>3
  <2>2. \A v \in Threads \ {t} : pc'[v] = pc[v] /\ job'[v] = job[v]
    BY <1>8 DEF Advance, Go, Goto, TypeOK
  <2>3. UNCHANGED <<session, counted, mine, holder>>
    BY <1>8 DEF Advance
  <2>4. pc[t] = "advance"
    BY <1>8 DEF Advance
  <2>5. JobFits(u)'
    BY <2>1, <2>2, <2>4 DEF AtRest, RestPc
  <2>6. TickIsLocked(u)'
    BY <2>1, <2>2, <2>3, <2>4 DEF RunPc
  <2>7. pc'[t] = "cycle" => counted
    BY <1>8 DEF Advance, Go, Goto, NothingToDo, TypeOK
  <2>8. FirstCycleIsAlone(u)'
    BY <2>1, <2>2, <2>3, <2>4, <2>7 DEF RunPc
  <2> QED BY <2>5, <2>6, <2>8
<1>9. CASE Complete(t)
  <2> SUFFICES ASSUME NEW u \in Threads
               PROVE  JobFits(u)' /\ TickIsLocked(u)' /\ FirstCycleIsAlone(u)'
    OBVIOUS
  <2>1. JobFits(u)'
    BY <1>9 DEF Complete, TurnOff, Go, Goto, NoJob, RestPc, RunPc, AtRest,
       TypeOK
  <2>2. TickIsLocked(u)'
    BY <1>9 DEF Complete, TurnOff, Go, Goto, NoJob, RestPc, RunPc, AtRest,
       TypeOK
  <2>3. FirstCycleIsAlone(u)'
    BY <1>9 DEF Complete, TurnOff, Go, Goto, NoJob, RestPc, RunPc, AtRest,
       TypeOK
  <2> QED BY <2>1, <2>2, <2>3
<1>10. CASE Cycle(t)
  <2> SUFFICES ASSUME NEW u \in Threads
               PROVE  JobFits(u)' /\ TickIsLocked(u)' /\ FirstCycleIsAlone(u)'
    OBVIOUS
  <2>1. JobFits(u)'
    BY <1>10 DEF Cycle, GiveUp, Go, Goto, NoJob, RestPc, RunPc, AtRest,
       TypeOK, Job
  <2>2. TickIsLocked(u)'
    BY <1>10 DEF Cycle, GiveUp, Go, Goto, NoJob, RestPc, RunPc, AtRest,
       TypeOK, Job
  <2>3. FirstCycleIsAlone(u)'
    BY <1>10 DEF Cycle, GiveUp, Go, Goto, NoJob, RestPc, RunPc, AtRest,
       TypeOK, Job
  <2> QED BY <2>1, <2>2, <2>3
<1>11. CASE Run(t)
  BY <1>11 DEF Run, Continue, GiveUp, Go, Goto, NoJob, RestPc, RunPc, AtRest,
     TypeOK
<1>12. ASSUME Wake(t), t \in Workers PROVE AdmissionInv'
  BY <1>12 DEF Wake, Go, Goto, NoJob, RestPc, RunPc, AtRest, TypeOK
<1>13. CASE Poll(t)
  BY <1>13 DEF Poll, Go, Goto, NoJob, RestPc, RunPc, AtRest, TypeOK
<1>14. CASE TurnOn(t)
  BY <1>14 DEF TurnOn, Unhurried, Patient, Go, Goto, NoJob, RestPc, RunPc,
     AtRest, TypeOK
<1>15. CASE Start(t)
  <2> SUFFICES ASSUME NEW u \in Threads
               PROVE  JobFits(u)' /\ TickIsLocked(u)' /\ FirstCycleIsAlone(u)'
    OBVIOUS
  <2>1. JobFits(u)'
    BY <1>15 DEF Start, Go, Goto, NoJob, RestPc, RunPc, AtRest, TypeOK
  <2>2. TickIsLocked(u)'
    BY <1>15 DEF Start, Go, Goto, NoJob, RestPc, RunPc, AtRest, TypeOK
  <2>3. FirstCycleIsAlone(u)'
    BY <1>15 DEF Start, Go, Goto, NoJob, RestPc, RunPc, AtRest, TypeOK
  <2> QED BY <2>1, <2>2, <2>3
<1>16. CASE Spawn(t)
  BY <1>16 DEF Spawn, Go, Goto, NoJob, RestPc, RunPc, AtRest, TypeOK, Threads
<1>17. CASE StopWorker(t)
  <2> SUFFICES ASSUME NEW u \in Threads
               PROVE  JobFits(u)' /\ TickIsLocked(u)' /\ FirstCycleIsAlone(u)'
    OBVIOUS
  <2>1. JobFits(u)'
    BY <1>17 DEF StopWorker, Go, Goto, NoJob, RestPc, RunPc, AtRest, TypeOK
  <2>2. TickIsLocked(u)'
    BY <1>17 DEF StopWorker, Go, Goto, NoJob, RestPc, RunPc, AtRest, TypeOK
  <2>3. FirstCycleIsAlone(u)'
    BY <1>17 DEF StopWorker, Go, Goto, NoJob, RestPc, RunPc, AtRest, TypeOK
  <2> QED BY <2>1, <2>2, <2>3
<1>18. CASE StopOff(t)
  BY <1>18 DEF StopOff, TurnOff, Go, Goto, NoJob, RestPc, RunPc, AtRest,
     TypeOK
<1>19. CASE PauseSupervisor(t)
  BY <1>19 DEF PauseSupervisor, Pause, Go, Goto, NoJob, RestPc, RunPc, AtRest,
     TypeOK
<1>20. CASE ResetOff(t)
  BY <1>20 DEF ResetOff, TurnOff, Go, Goto, NoJob, RestPc, RunPc, AtRest,
     TypeOK
<1>21. CASE ReadReason(t)
  <2> SUFFICES ASSUME NEW u \in Threads
               PROVE  JobFits(u)' /\ TickIsLocked(u)' /\ FirstCycleIsAlone(u)'
    OBVIOUS
  <2>1. JobFits(u)'
    BY <1>21 DEF ReadReason, Go, Goto, NoJob, RestPc, RunPc, AtRest, TypeOK
  <2>2. TickIsLocked(u)'
    BY <1>21 DEF ReadReason, Go, Goto, NoJob, RestPc, RunPc, AtRest, TypeOK
  <2>3. FirstCycleIsAlone(u)'
    BY <1>21 DEF ReadReason, Go, Goto, NoJob, RestPc, RunPc, AtRest, TypeOK
  <2> QED BY <2>1, <2>2, <2>3
<1>22. CASE Resume(t)
  BY <1>22 DEF Resume, Go, Goto, NoJob, RestPc, RunPc, AtRest, TypeOK
<1>23. ASSUME NEW kind \in {"activate", "actual"}, Activate(t, kind) PROVE AdmissionInv'
  BY <1>23 DEF Activate, Go, Goto, NoJob, RestPc, RunPc, AtRest, TypeOK
<1>24. CASE Halt(t)
  BY <1>24 DEF Halt, TurnOff, Go, Goto, NoJob, RestPc, RunPc, AtRest, TypeOK
<1>25. CASE EmergencyStop(t)
  BY <1>25 DEF EmergencyStop, Go, Goto, NoJob, RestPc, RunPc, AtRest, TypeOK
<1>26. CASE EmergencyReset(t)
  BY <1>26 DEF EmergencyReset, Go, Goto, NoJob, RestPc, RunPc, AtRest, TypeOK
<1>27. CASE RunOnce(t)
  BY <1>27 DEF RunOnce, Unhurried, Patient, Go, Goto, NoJob, RestPc, RunPc,
     AtRest, TypeOK
<1>28. CASE EvaluateExits(t)
  BY <1>28 DEF EvaluateExits, Go, Goto, NoJob, RestPc, RunPc, AtRest, TypeOK
<1> QED BY <1>1, <1>2, <1>3, <1>4, <1>5, <1>6, <1>7, <1>8, <1>9, <1>10, <1>11,
   <1>12, <1>13, <1>14, <1>15, <1>16, <1>17, <1>18, <1>19, <1>20, <1>21, <1>22,
   <1>23, <1>24, <1>25, <1>26, <1>27, <1>28 DEF ThreadStep, Tock, Serve, Request

\* While requests are patient, admission to a cycle is by the lock, by the count of
\* cycles, or by being the first, however many threads there are.
THEOREM AdmissionHolds == ASSUME Patient PROVE Spec => []AdmissionInv
<1>1. Init => AdmissionInv
  BY DEF Init, AdmissionInv, JobFits, TickIsLocked, FirstCycleIsAlone, AtRest, RestPc, RunPc
<1>2. TypeOK /\ TypeOK' /\ AdmissionInv /\ [Next]_vars => AdmissionInv'
  <2> SUFFICES ASSUME TypeOK, TypeOK', AdmissionInv, [Next]_vars PROVE AdmissionInv'
    OBVIOUS
  <2> USE DEF AdmissionInv, JobFits, TickIsLocked, FirstCycleIsAlone, AtRest
  <2>1. CASE Elapse
    BY <2>1 DEF Elapse, mode
  <2>2. ASSUME NEW a \in Trades, Settle(a) PROVE AdmissionInv'
    BY <2>2 DEF Settle, mode, supervisor
  <2>3. CASE UNCHANGED vars
    BY <2>3 DEF vars, mode, supervisor
  <2> QED BY <2>1, <2>2, <2>3, ThreadSteps, AdmissionStep
<1> QED BY <1>1, <1>2, TypeCorrect, PTL DEF Spec

\* Never two cycles of the session at a time (the supervisor's lock, and the check
\* of cycles_started), for any number of workers, pollers and operators.
THEOREM OneCycle == ASSUME Patient PROVE Spec => []OneCycleAtATime
<1>1. AdmissionInv => OneCycleAtATime
  BY DEF AdmissionInv, JobFits, TickIsLocked, FirstCycleIsAlone, OneCycleAtATime,
         Automatic, RunPc
<1> QED BY <1>1, AdmissionHolds, PTL

\* A single trade session enters one trade at most, in the same setting.
THEOREM SingleTrade == ASSUME Patient PROVE Spec => []SingleTradeOnce
<1>1. AdmissionInv => SingleTradeOnce
  BY DEF AdmissionInv, JobFits, TickIsLocked, FirstCycleIsAlone, SingleTradeOnce,
         Automatic, RunPc
<1> QED BY <1>1, AdmissionHolds, PTL

\* A thread that is on its way from an activation to the start of a worker.
Launching(t) ==
    \/ pc[t] \in {"start", "spawn"}
    \/ pc[t] \in {"run", "complete"} /\ job[t].kind = "activate"

\* The inductive invariant behind OneWorker: a worker that lives is the one in
\* app.config, and one activation at a time is about to fill an empty place.
WorkerInv ==
    /\ \A w \in Workers : Alive(w) => handle = w
    /\ \A t \in Threads : pc[t] = "spawn" => handle = None
    /\ \A t, u \in Threads : Launching(t) /\ Launching(u) => t = u

\* A step of t that neither starts nor ends a worker, and launches one only when
\* nobody else does.
Calm(t) ==
    /\ handle' = handle
    /\ pc[t] # "dead"
    /\ \A u \in Threads \ {t} : pc'[u] = pc[u] /\ job'[u] = job[u]
    /\ pc'[t] = "spawn" => handle = None
    /\ Launching(t)' => Launching(t) \/ \A u \in Threads \ {t} : ~Launching(u)

LEMMA CalmKeeps ==
    ASSUME WorkerInv, NEW t \in Threads, Calm(t)
    PROVE  WorkerInv'
<1>1. \A u \in Threads \ {t} : Launching(u)' <=> Launching(u)
  BY DEF Calm, Launching
<1>2. \A w \in Workers : Alive(w)' => Alive(w)
  BY DEF Calm, Alive, Threads
<1> QED BY <1>1, <1>2 DEF Calm, WorkerInv

\* Every step of a thread that is not the start or the end of a worker is calm.
LEMMA CalmStep ==
    ASSUME TypeOK, TypeOK', AdmissionInv, Patient, NEW t \in Threads,
           ThreadStep(t), ~(t \in Workers /\ Wake(t)), ~Spawn(t)
    PROVE  Calm(t)
<1> USE DEF Calm, Launching, workers, Go, Goto, TypeOK
<1>0. JobFits(t)
  BY DEF AdmissionInv
<1>1. CASE Route(t)
  BY <1>1 DEF Route
<1>2. CASE Admit(t)
  BY <1>2 DEF Admit, Rest
<1>3. CASE Acquire(t)
  BY <1>3 DEF Acquire, Rest
<1>4. CASE Inspect(t)
  BY <1>4 DEF Inspect, Fault
<1>5. CASE HaltPaused(t)
  BY <1>5 DEF HaltPaused, Rest
<1>6. CASE Tick(t)
  BY <1>6 DEF Tick, Fault, Rest
<1>7. CASE Finish(t)
  BY <1>7 DEF Finish, Fault, Rest
<1>8. CASE Advance(t)
  <2>1. pc[t] = "advance" /\ job[t].kind \in {"tick", "exits"}
    BY <1>8, <1>0 DEF Advance, JobFits
  <2>2. /\ handle' = handle
        /\ \A u \in Threads \ {t} : pc'[u] = pc[u] /\ job'[u] = job[u]
        /\ pc'[t] \in {"finish", "complete", "cycle"}
    BY <1>8 DEF Advance
  <2>3. pc'[t] = "complete" => job'[t] = job[t]
    BY <1>8 DEF Advance, RestPc
  <2> QED BY <2>1, <2>2, <2>3
<1>9. CASE Complete(t)
  BY <1>9 DEF Complete
<1>10. CASE Cycle(t)
  <2>1. pc[t] = "cycle" /\ job[t].kind \in {"tick", "exits", "once"}
    BY <1>10, <1>0 DEF Cycle, JobFits
  <2>2. /\ handle' = handle
        /\ \A u \in Threads \ {t} : pc'[u] = pc[u] /\ job'[u] = job[u]
        /\ pc'[t] \in {"run", "complete", "idle"}
    BY <1>10 DEF Cycle, GiveUp
  <2>3. pc'[t] # "idle" => job'[t].kind = job[t].kind
    BY <1>10 DEF Cycle, GiveUp, RestPc, Job
  <2> QED BY <2>1, <2>2, <2>3
<1>11. CASE Run(t)
  <2>1. pc[t] = "run" /\ handle' = handle
    BY <1>11 DEF Run
  <2>2. \E l \in {"complete", "finish", "start", "idle"} :
           /\ Goto(t, l)
           /\ l = "start" => job[t].kind = "activate"
    BY <1>11 DEF Run, Continue, GiveUp
  <2> QED BY <2>1, <2>2 DEF RestPc
<1>12. CASE Poll(t)
  BY <1>12 DEF Poll
<1>13. CASE TurnOn(t)
  <2>1. \A u \in Threads \ {t} : ~Launching(u)
    BY <1>13 DEF TurnOn, Unhurried, Patient, AtRest, RestPc
  <2> QED BY <1>13, <2>1 DEF TurnOn
<1>14. CASE Start(t)
  BY <1>14 DEF Start
<1>15. CASE StopWorker(t)
  BY <1>15 DEF StopWorker
<1>16. CASE StopOff(t)
  BY <1>16 DEF StopOff
<1>17. CASE PauseSupervisor(t)
  BY <1>17 DEF PauseSupervisor
<1>18. CASE ResetOff(t)
  BY <1>18 DEF ResetOff
<1>19. CASE ReadReason(t)
  BY <1>19 DEF ReadReason
<1>20. CASE Resume(t)
  BY <1>20 DEF Resume
<1>21. CASE Request(t)
  <2>1. pc[t] = "idle" /\ handle' = handle
    BY <1>21 DEF Request, Activate, Halt, EmergencyStop, EmergencyReset, RunOnce, EvaluateExits
  <2>2. \E l \in {"turnon", "stopping", "stopoff", "clearing", "cycle", "advance"} : \E j : Go(t, l, j)
    BY <1>21, Zenon DEF Request, Activate, Halt, EmergencyStop, EmergencyReset, RunOnce, EvaluateExits
  <2> QED BY <2>1, <2>2
<1> QED BY <1>1, <1>2, <1>3, <1>4, <1>5, <1>6, <1>7, <1>8, <1>9, <1>10, <1>11,
   <1>12, <1>13, <1>14, <1>15, <1>16, <1>17, <1>18, <1>19, <1>20, <1>21
   DEF ThreadStep, Tock, Serve

\* Activations and halts never leave two workers running (_start_lifecycle_worker,
\* "not while the last one is running"), in the same setting.
THEOREM OneWorkerHolds == ASSUME Patient PROVE Spec => []OneWorker
<1>1. Init => WorkerInv
  BY DEF Init, WorkerInv, Launching, Alive, Threads
<1>2. TypeOK /\ TypeOK' /\ AdmissionInv /\ WorkerInv /\ [Next]_vars => WorkerInv'
  <2> SUFFICES ASSUME TypeOK, TypeOK', AdmissionInv, WorkerInv, [Next]_vars PROVE WorkerInv'
    OBVIOUS
  <2>1. CASE Elapse
    BY <2>1 DEF Elapse, workers, WorkerInv, Launching, Alive
  <2>2. ASSUME NEW a \in Trades, Settle(a) PROVE WorkerInv'
    BY <2>2 DEF Settle, workers, WorkerInv, Launching, Alive
  <2>3. CASE UNCHANGED vars
    BY <2>3 DEF vars, workers, WorkerInv, Launching, Alive
  <2>4. ASSUME NEW t \in Threads, t \in Workers, Wake(t) PROVE WorkerInv'
    <3>1. /\ \A u \in Threads \ {t} : pc'[u] = pc[u] /\ job'[u] = job[u]
          /\ pc'[t] \in {"route", "dead"} /\ pc[t] = "wait"
          /\ pc'[t] = "route" => handle' = handle
          /\ handle' = (IF handle = t THEN None ELSE handle) \/ handle' = handle
          /\ pc'[t] = "dead" => handle' = IF handle = t THEN None ELSE handle
      BY <2>4 DEF Wake, Go, Goto, TypeOK, workers
    <3>2. handle = t
      BY <2>4, <3>1 DEF WorkerInv, Alive
    <3>3. \A u \in Threads : Launching(u)' => Launching(u) /\ u # t
      BY <3>1 DEF Launching
    <3>4. \A w \in Workers : Alive(w)' => w = t /\ pc'[t] = "route"
      BY <3>1, <3>2 DEF WorkerInv, Alive, Threads
    <3>5. \A u \in Threads : pc'[u] = "spawn" => pc[u] = "spawn"
      BY <3>1
    <3> QED BY <3>1, <3>2, <3>3, <3>4, <3>5 DEF WorkerInv
  <2>5. ASSUME NEW t \in Threads, Spawn(t) PROVE WorkerInv'
    <3>1. PICK w \in Workers : /\ pc[w] = "dead"
                               /\ handle' = w
                               /\ pc' = [pc EXCEPT ![t] = "idle", ![w] = "wait"]
                               /\ job' = [job EXCEPT ![t] = NoJob]
      BY <2>5 DEF Spawn
    <3>2. pc[t] = "spawn" /\ handle = None /\ t # w
      BY <2>5, <3>1 DEF Spawn, WorkerInv
    <3>3. \A v \in Workers : ~Alive(v)
      BY <3>2, NoneAssumption DEF WorkerInv, Threads
    <3>4. \A u \in Threads : ~Launching(u)'
      BY <3>1, <3>2 DEF Launching, WorkerInv, TypeOK, Threads
    <3>5. \A v \in Workers : Alive(v)' => v = w
      BY <3>1, <3>2, <3>3 DEF Alive, TypeOK, Threads
    <3> QED BY <3>1, <3>4, <3>5 DEF WorkerInv, Launching
  <2>6. ASSUME NEW t \in Threads, ThreadStep(t) PROVE WorkerInv'
    <3>1. CASE t \in Workers /\ Wake(t)
      BY <3>1, <2>4
    <3>2. CASE Spawn(t)
      BY <3>2, <2>5
    <3>3. CASE ~(t \in Workers /\ Wake(t)) /\ ~Spawn(t)
      BY <3>3, <2>6, CalmStep, CalmKeeps
    <3> QED BY <3>1, <3>2, <3>3
  <2> QED BY <2>1, <2>2, <2>3, <2>6, ThreadSteps
<1>3. WorkerInv => OneWorker
  BY DEF WorkerInv, OneWorker
<1> QED BY <1>1, <1>2, <1>3, AdmissionHolds, TypeCorrect, PTL DEF Spec
=============================================================================
