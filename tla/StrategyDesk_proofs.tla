------------------------- MODULE StrategyDesk_proofs -------------------------
(* Proofs about StrategyDesk: its types, that a halt outlives restarts and  *)
(* connections, that nothing runs twice and that the table follows.         *)
EXTENDS StrategyDesk, TLAPS

LEMMA SufferKeeps ==
    ASSUME NEW H, Suffer(H)
    PROVE  /\ H \subseteq seen' /\ seen \subseteq seen'
           /\ (seen \subseteq Hazards => seen' \subseteq Hazards)
  BY EnvAssumption DEF Suffer

LEMMA GoTyped ==
    ASSUME TypeOK, NEW t \in Requests, NEW l \in Pc, NEW j \in Job, Go(t, l, j)
    PROVE  pc' \in [Requests -> Pc] /\ job' \in [Requests -> Job]
<1>1. NoJob \in Job
  BY DEF NoJob, Job, Keys
<1> QED BY <1>1 DEF Go, TypeOK

\* Where the requests are after one of them has moved.
LEMMA GoMoves ==
    ASSUME TypeOK, NEW t \in Requests, NEW l, NEW j, Go(t, l, j)
    PROVE  /\ pc'[t] = l
           /\ l # "idle" => job'[t] = j
           /\ \A u \in Requests : u # t => pc'[u] = pc[u] /\ job'[u] = job[u]
  BY DEF Go, TypeOK

LEMMA NothingIsNone == "none" \notin Keys /\ None \notin Registries
  BY NoneAssumption, ScopeAssumption DEF Keys
-----------------------------------------------------------------------------
(* What holds whatever happens: where the objects are, and at most one of   *)
(* them under a name of a registry.                                         *)

Working == {"act", "save", "read", "write", "next"}
Live(i) == inst[i].state # "none"

\* A registry that is used has been built.
Placed ==
    /\ registry # None => scope[registry] \in Keys
    /\ \A t \in Requests : pc[t] \in Working =>
          job[t].reg \in Registries /\ scope[job[t].reg] \in Keys
    /\ \A i \in Instances : Live(i) =>
          /\ inst[i].reg \in Registries /\ scope[inst[i].reg] \in Keys
          /\ inst[i].name \in Names

OneEach ==
    \A i, j \in Instances :
        Live(i) /\ Live(j) /\ inst[i].reg = inst[j].reg /\ inst[i].name = inst[j].name => i = j

\* The instance a request has at hand is one of its registry.
Targets ==
    \A t \in Requests :
        /\ pc[t] \in {"save", "read", "write"} =>
              job[t].on \in Instances /\ Live(job[t].on) /\ inst[job[t].on].reg = job[t].reg
        /\ pc[t] # "idle" /\ job[t].act = "create" => job[t].name \in Names
        /\ pc[t] = "save" => job[t].act = "create" /\ inst[job[t].on].name = job[t].name
        /\ pc[t] \in {"read", "write"} => job[t].act # "create"
        /\ pc[t] = "next" => job[t].act = "halt"
        /\ pc[t] \in {"read", "write", "next"} /\ job[t].act = "halt" =>
              \A i \in job[t].todo \cap Instances : Live(i) /\ inst[i].reg = job[t].reg

PlaceInv == Placed /\ OneEach /\ Targets

\* What a load makes of the rows: one new instance of each name that the
\* registry does not have yet, and nothing else.
LEMMA LoadShape ==
    ASSUME TypeOK, PlaceInv, NEW t \in Requests, Load(t)
    PROVE  /\ inst' \in [Instances -> Instance]
           /\ \A i \in Instances : inst'[i] # inst[i] =>
                 /\ inst[i].state = "none"
                 /\ \E n \in Names :
                       /\ rows[scope[registry]][n] # "none" /\ Named(registry, n) = {}
                       /\ inst'[i] = Restored(registry, n, i)
           /\ \A n \in Names : rows[scope[registry]][n] # "none" /\ Named(registry, n) = {} =>
                 \E i \in Instances : inst'[i] = Restored(registry, n, i)
           /\ \A i, j \in Instances :
                 /\ inst'[i] # inst[i] /\ inst'[j] # inst[j]
                 /\ inst'[i].name = inst'[j].name
                 => i = j
<1> DEFINE names == {n \in Names : rows[scope[registry]][n] # "none" /\ Named(registry, n) = {}}
<1> PICK f \in [names -> Unused] :
       /\ \A n, m \in names : f[n] = f[m] => n = m
       /\ inst' = [i \in Instances |->
              IF \E n \in names : f[n] = i
              THEN Restored(registry, CHOOSE n \in names : f[n] = i, i)
              ELSE inst[i]]
  BY DEF Load
<1>k. scope[registry] \in Keys /\ registry \in Registries /\ inst \in [Instances -> Instance]
  BY DEF Load, PlaceInv, Placed, TypeOK
<1>1. ASSUME NEW i \in Instances, NEW n \in names, f[n] = i
      PROVE  inst[i].state = "none" /\ inst'[i] = Restored(registry, n, i)
  <2>1. (CHOOSE m \in names : f[m] = i) = n
    BY <1>1
  <2>2. inst'[i] = Restored(registry, CHOOSE m \in names : f[m] = i, i)
    BY <1>1
  <2>3. f[n] \in Unused
    OBVIOUS
  <2> QED BY <1>1, <2>1, <2>2, <2>3 DEF Unused
<1>2. ASSUME NEW i \in Instances, ~\E n \in names : f[n] = i
      PROVE  inst'[i] = inst[i]
  BY <1>2
<1>3. \A n \in Names, i \in Instances : Restored(registry, n, i) \in Instance
  BY <1>k DEF Restored, Instance, States
<1>4. inst' \in [Instances -> Instance]
  <2>1. \A i \in Instances : inst'[i] \in Instance
    BY <1>1, <1>2, <1>3, <1>k
  <2> QED BY <2>1
<1>5. ASSUME NEW i \in Instances, inst'[i] # inst[i]
      PROVE  \E n \in names : f[n] = i
  BY <1>2, <1>5
<1>6. \A n \in names : f[n] \in Instances
  BY DEF Unused
<1>7. ASSUME NEW i \in Instances, NEW j \in Instances, inst'[i] # inst[i], inst'[j] # inst[j],
             inst'[i].name = inst'[j].name
      PROVE  i = j
  <2>1. PICK n \in names : f[n] = i
    BY <1>5, <1>7
  <2>2. PICK m \in names : f[m] = j
    BY <1>5, <1>7
  <2>3. inst'[i] = Restored(registry, n, i) /\ inst'[j] = Restored(registry, m, j)
    BY <1>1, <2>1, <2>2
  <2> QED BY <1>7, <2>1, <2>2, <2>3 DEF Restored
<1>8. ASSUME NEW i \in Instances, inst'[i] # inst[i]
      PROVE  /\ inst[i].state = "none"
             /\ \E n \in names : inst'[i] = Restored(registry, n, i)
  BY <1>1, <1>5, <1>8
<1>9. \A n \in names : \E i \in Instances : inst'[i] = Restored(registry, n, i)
  BY <1>1, <1>6
<1>10. \A i \in Instances : inst'[i] # inst[i] =>
          /\ inst[i].state = "none"
          /\ \E n \in Names :
                /\ rows[scope[registry]][n] # "none" /\ Named(registry, n) = {}
                /\ inst'[i] = Restored(registry, n, i)
  BY <1>8
<1>11. \A n \in Names : rows[scope[registry]][n] # "none" /\ Named(registry, n) = {} =>
          \E i \in Instances : inst'[i] = Restored(registry, n, i)
  BY <1>9
<1>12. \A i, j \in Instances :
          /\ inst'[i] # inst[i] /\ inst'[j] # inst[j]
          /\ inst'[i].name = inst'[j].name
          => i = j
  BY <1>7
<1> HIDE DEF names
<1> QED BY <1>4, <1>10, <1>11, <1>12

LEMMA TypeInit == Init => TypeOK /\ PlaceInv
<1> SUFFICES ASSUME Init PROVE TypeOK /\ PlaceInv
  OBVIOUS
<1>1. NoJob \in Job /\ NoInstance \in Instance
  BY DEF NoJob, Job, NoInstance, Instance, Keys
<1>2. TypeOK
  BY <1>1 DEF Init, TypeOK, Keys, Pc
<1>3. PlaceInv
  BY DEF Init, PlaceInv, Placed, OneEach, Targets, Working, Live, NoInstance
<1> QED BY <1>2, <1>3

\* What every action does to the data.
DataOK ==
    /\ login \in Keys /\ account \in Keys
    /\ registry \in Registries \cup {None}
    /\ scope \in [Registries -> Keys \cup {"none"}]
    /\ inst \in [Instances -> Instance]
    /\ rows \in [Keys -> [Names -> States \cup {"none"}]]
    /\ halted \subseteq Keys
    /\ seen \subseteq Hazards

LEMMA TypeStep == ASSUME TypeOK, PlaceInv, [Next]_vars PROVE TypeOK'
<1>d. /\ DataOK /\ NoJob \in Job
      /\ pc \in [Requests -> Pc] /\ job \in [Requests -> Job]
      /\ \A t \in Requests : job[t] \in Job
      /\ \A i \in Instances : inst[i] \in Instance
  BY DEF TypeOK, DataOK, NoJob, Job, Keys
<1>a. ASSUME DataOK', pc' \in [Requests -> Pc] /\ job' \in [Requests -> Job] PROVE TypeOK'
  BY <1>a DEF DataOK, TypeOK
<1> USE DEF connection, objects, threads
<1>1. ASSUME NEW t \in Requests, Request(t) PROVE TypeOK'
  <2>1. PICK j \in Job : Arrive(t, j)
    BY <1>1, <1>d DEF Request, Create, Start, Stop, Halt, NoJob, Job, DataOK
  <2>2. Go(t, "access", j) /\ "access" \in Pc
    BY <2>1 DEF Arrive, Pc
  <2>3. DataOK'
    BY <1>d, <2>1, SufferKeeps DEF Arrive, DataOK
  <2> QED BY <1>a, <2>2, <2>3, GoTyped
<1>2. ASSUME NEW t \in Requests, Access(t) \/ LoadFails(t) \/ Refuse(t) \/ Find(t) \/ ReadState(t)
             \/ BeginStopAll(t) PROVE TypeOK'
  <2>1. DataOK'
    BY <1>2, <1>d DEF Access, LoadFails, Refuse, Find, ReadState, BeginStopAll, DataOK
  <2>2. \E l \in Pc, j \in Job : Go(t, l, j)
    <3>1. CASE Access(t) \/ LoadFails(t) \/ Refuse(t) \/ Find(t)
      <4>1. PICK l \in {"act", "build", "idle", "access"},
                 j \in {job[t], NoJob, [job[t] EXCEPT !.reg = registry],
                       [job[t] EXCEPT !.found = TRUE]} : Go(t, l, j)
        BY <3>1 DEF Access, LoadFails, Refuse, Find
      <4>2. l \in Pc /\ j \in Job
        BY <1>d DEF Pc, Job, DataOK
      <4> QED BY <4>1, <4>2
    <3>2. CASE ReadState(t)
      <4>1. inst[job[t].on].state \in States \cup {"none"}
        BY <3>2, <1>d DEF ReadState, PlaceInv, Targets, Instance
      <4> QED BY <1>d, <3>2, <4>1 DEF ReadState, Pc, Job
    <3>3. CASE BeginStopAll(t)
      BY <1>d, <3>3 DEF BeginStopAll, Pc, Job, Members
    <3> QED BY <1>2, <3>1, <3>2, <3>3
  <2> QED BY <1>a, <2>1, <2>2, GoTyped
<1>3. ASSUME NEW t \in Requests, NEW r \in Registries, Build(t, r) PROVE TypeOK'
  <2>1. DataOK'
    BY <1>3, <1>d DEF Build, DataOK
  <2>2. Go(t, "load", [job[t] EXCEPT !.reg = r]) /\ "load" \in Pc /\ [job[t] EXCEPT !.reg = r] \in Job
    BY <1>3, <1>d DEF Build, Job, Pc
  <2> QED BY <1>a, <2>1, <2>2, GoTyped
<1>4. ASSUME NEW t \in Requests, Load(t) PROVE TypeOK'
  <2>1. DataOK'
    BY <1>4, <1>d, LoadShape DEF Load, DataOK
  <2>2. Go(t, "act", [job[t] EXCEPT !.reg = registry])
    BY <1>4 DEF Load
  <2>3. "act" \in Pc /\ [job[t] EXCEPT !.reg = registry] \in Job
    BY <1>d DEF Job, Pc, DataOK
  <2> QED BY <1>a, <2>1, <2>2, <2>3, GoTyped
<1>5. ASSUME NEW t \in Requests, NEW i \in Instances, Instantiate(t, i) PROVE TypeOK'
  <2>1. \A s \in States : [name |-> job[t].name, reg |-> job[t].reg,
                          account |-> job[t].account, state |-> s] \in Instance
    BY <1>d DEF Job, Instance
  <2>2. DataOK'
    BY <1>5, <1>d, <2>1 DEF Instantiate, DataOK, States
  <2>3. Go(t, "save", [job[t] EXCEPT !.on = i]) /\ "save" \in Pc /\ [job[t] EXCEPT !.on = i] \in Job
    BY <1>5, <1>d DEF Instantiate, Job, Pc
  <2> QED BY <1>a, <2>2, <2>3, GoTyped
<1>6. ASSUME NEW t \in Requests, NEW i \in Instances, StartInstance(t, i) \/ StopInstance(t, i)
      PROVE  TypeOK'
  <2>1. PICK s \in States \cup {"none"} : inst' = [inst EXCEPT ![i].state = s]
    BY <1>6, <1>d DEF StartInstance, StopInstance, Instance, States
  <2>2. [inst[i] EXCEPT !.state = s] \in Instance
    BY <1>d DEF Instance
  <2>3. DataOK'
    BY <1>6, <1>d, <2>1, <2>2 DEF StartInstance, StopInstance, DataOK
  <2>4. PICK j \in {[job[t] EXCEPT !.on = i], [job[t] EXCEPT !.on = i, !.todo = @ \ {i}]} :
           Go(t, "read", j)
    BY <1>6 DEF StartInstance, StopInstance
  <2>5. /\ [job[t] EXCEPT !.on = i] \in Job
        /\ [job[t] EXCEPT !.on = i, !.todo = @ \ {i}] \in Job
        /\ "read" \in Pc
    BY <1>d DEF Job, Pc
  <2> QED BY <1>a, <2>3, <2>4, <2>5, GoTyped
<1>7. ASSUME NEW t \in Requests, SaveInstance(t) PROVE TypeOK'
  <2>1. DataOK'
    BY <1>7, <1>d DEF SaveInstance, DataOK, States
  <2>2. Go(t, "idle", NoJob) /\ "idle" \in Pc
    BY <1>7 DEF SaveInstance, Pc
  <2> QED BY <1>a, <1>d, <2>1, <2>2, GoTyped
<1>8. ASSUME NEW t \in Requests, WriteRow(t) PROVE TypeOK'
  <2>1. job[t].value \in States \cup {"none"}
    BY <1>d DEF Job
  <2>2. DataOK'
    BY <1>8, <1>d, <2>1 DEF WriteRow, DataOK
  <2>3. PICK l \in {"next", "idle"} : Go(t, l, [job[t] EXCEPT !.on = None, !.value = "none"])
    BY <1>8 DEF WriteRow
  <2>4. l \in Pc /\ [job[t] EXCEPT !.on = None, !.value = "none"] \in Job
    BY <1>d DEF Job, Pc
  <2> QED BY <1>a, <2>2, <2>3, <2>4, GoTyped
<1>9. ASSUME NEW t \in Requests, EndStopAll(t) PROVE TypeOK'
  <2>1. scope[job[t].reg] \in Keys
    BY <1>9 DEF EndStopAll, PlaceInv, Placed, Working
  <2>2. DataOK'
    BY <1>9, <1>d, <2>1 DEF EndStopAll, DataOK
  <2>3. Go(t, "idle", NoJob) /\ "idle" \in Pc
    BY <1>9 DEF EndStopAll, Pc
  <2> QED BY <1>a, <1>d, <2>2, <2>3, GoTyped
<1>10. ASSUME (\E a \in Accounts : Connect(a)) \/ Disconnect \/ UpdateConnectedAccount
       PROVE TypeOK'
  <2>1. DataOK'
    BY <1>10, <1>d, SufferKeeps DEF Connect, Disconnect, UpdateConnectedAccount, DataOK, Keys
  <2>2. UNCHANGED <<pc, job>>
    BY <1>10 DEF Connect, Disconnect, UpdateConnectedAccount
  <2> QED BY <1>a, <1>d, <2>1, <2>2
<1>11. ASSUME NEW i \in Instances, Fail(i) PROVE TypeOK'
  <2>1. [inst[i] EXCEPT !.state = "ERROR"] \in Instance
    BY <1>d DEF Instance, States
  <2>2. DataOK'
    BY <1>11, <1>d, <2>1 DEF Fail, DataOK
  <2> QED BY <1>11, <1>a, <1>d, <2>2 DEF Fail
<1>12. ASSUME Restart PROVE TypeOK'
  <2>1. NoInstance \in Instance
    BY DEF NoInstance, Instance, Keys
  <2>2. DataOK'
    BY <1>12, <1>d, <2>1 DEF Restart, DataOK, Keys
  <2>3. pc' \in [Requests -> Pc] /\ job' \in [Requests -> Job]
    BY <1>12, <1>d DEF Restart, Pc
  <2> QED BY <1>a, <2>2, <2>3
<1>13. ASSUME UNCHANGED vars PROVE TypeOK'
  BY <1>13 DEF vars, TypeOK
<1> QED BY <1>1, <1>2, <1>3, <1>4, <1>5, <1>6, <1>7, <1>8, <1>9, <1>10, <1>11, <1>12, <1>13
       DEF Next, Continue

LEMMA PlaceStep == ASSUME TypeOK, PlaceInv, [Next]_vars PROVE PlaceInv'
<1>d. /\ inst \in [Instances -> Instance]
      /\ scope \in [Registries -> Keys \cup {"none"}]
      /\ account \in Keys /\ registry \in Registries \cup {None}
      /\ \A t \in Requests : job[t] \in Job
  BY DEF TypeOK
<1>p. Placed /\ OneEach /\ Targets
  BY DEF PlaceInv
<1>n. "none" \notin Keys /\ None \notin Registries
  BY NothingIsNone
<1> USE DEF connection, objects, threads
<1>1. ASSUME NEW t \in Requests, Request(t) PROVE PlaceInv'
  <2>1. ASSUME NEW j, Arrive(t, j), j.act = "create" => j.name \in Names PROVE PlaceInv'
    <3>1. Go(t, "access", j) /\ UNCHANGED <<registry, scope, inst>>
      BY <2>1 DEF Arrive
    <3>2. /\ pc'[t] = "access" /\ job'[t] = j
          /\ \A u \in Requests : u # t => pc'[u] = pc[u] /\ job'[u] = job[u]
      BY <3>1, GoMoves
    <3>3. Placed'
      BY <1>p, <3>1, <3>2 DEF Placed, Working, Live
    <3>4. OneEach' /\ Targets'
      BY <1>p, <2>1, <3>1, <3>2 DEF OneEach, Targets, Live
    <3> QED BY <3>3, <3>4 DEF PlaceInv
  <2>2. ASSUME NEW n \in Names, Create(t, n) PROVE PlaceInv'
    <3> DEFINE j == [NoJob EXCEPT !.act = "create", !.name = n, !.account = account]
    <3>1. Arrive(t, j)
      BY <2>2 DEF Create
    <3>2. j.name = n
      BY DEF NoJob
    <3> HIDE DEF j
    <3> QED BY <2>1, <3>1, <3>2
  <2>3. ASSUME NEW n \in Names, NEW a \in {"start", "stop"},
               Arrive(t, [NoJob EXCEPT !.act = a, !.name = n]) PROVE PlaceInv'
    <3> DEFINE j == [NoJob EXCEPT !.act = a, !.name = n]
    <3>1. j.act # "create"
      BY DEF NoJob
    <3>2. Arrive(t, j)
      BY <2>3
    <3> HIDE DEF j
    <3> QED BY <2>1, <3>1, <3>2
  <2>4. NoJob.act # "create"
    BY DEF NoJob
  <2>5. ASSUME Halt(t) PROVE PlaceInv'
    BY <2>1, <2>4, <2>5 DEF Halt
  <2>6. ASSUME NEW n \in Names, Start(t, n) \/ Stop(t, n) PROVE PlaceInv'
    BY <2>3, <2>6 DEF Start, Stop
  <2> QED BY <1>1, <2>2, <2>5, <2>6 DEF Request
<1>2. ASSUME NEW t \in Requests, LoadFails(t) \/ Refuse(t) \/ Find(t) \/ SaveInstance(t)
                                 \/ EndStopAll(t) PROVE PlaceInv'
  <2>1. /\ pc'[t] \in {"idle", "access"}
        /\ \A u \in Requests : u # t => pc'[u] = pc[u] /\ job'[u] = job[u]
        /\ UNCHANGED <<registry, scope, inst>>
        /\ pc[t] # "idle"
        /\ pc'[t] = "access" => job'[t].act = job[t].act /\ job'[t].name = job[t].name
    BY <1>2, <1>d, GoMoves DEF LoadFails, Refuse, Find, SaveInstance, EndStopAll, Job
  <2> QED BY <1>p, <2>1 DEF PlaceInv, Placed, OneEach, Targets, Working, Live
<1>3. ASSUME NEW t \in Requests, Access(t) \/ ReadState(t) \/ BeginStopAll(t) \/ WriteRow(t)
      PROVE PlaceInv'
  <2>1. \A u \in Requests : u # t => pc'[u] = pc[u] /\ job'[u] = job[u]
    BY <1>3, GoMoves DEF Access, ReadState, BeginStopAll, WriteRow
  <2>2. UNCHANGED <<registry, scope, inst>>
    BY <1>3 DEF Access, ReadState, BeginStopAll, WriteRow
  <2>j. /\ pc[t] # "idle"
        /\ pc'[t] # "idle" => job'[t].act = job[t].act /\ job'[t].name = job[t].name
    <3>1. PICK l, j : /\ Go(t, l, j)
                      /\ j \in {job[t], [job[t] EXCEPT !.reg = registry],
                               [job[t] EXCEPT !.value = inst[job[t].on].state],
                               [job[t] EXCEPT !.todo = Members(job[t].reg)],
                               [job[t] EXCEPT !.on = None, !.value = "none"]}
      BY <1>3 DEF Access, ReadState, BeginStopAll, WriteRow
    <3>2. j.act = job[t].act /\ j.name = job[t].name
      BY <1>d, <3>1 DEF Job
    <3> QED BY <1>3, <3>1, <3>2, GoMoves DEF Access, ReadState, BeginStopAll, WriteRow
  <2>3. \/ pc'[t] \in {"build", "idle"}
        \/ registry # None /\ pc'[t] = "act" /\ job'[t].reg = registry
        \/ pc[t] = "read" /\ pc'[t] = "write" /\ job'[t].on = job[t].on /\ job'[t].act = job[t].act
           /\ job'[t].reg = job[t].reg /\ job'[t].todo = job[t].todo
        \/ /\ pc[t] \in Working /\ pc'[t] = "next" /\ job'[t].act = "halt"
           /\ job'[t].reg = job[t].reg
           /\ \/ job'[t].todo = Members(job[t].reg)
              \/ pc[t] = "write" /\ job[t].act = "halt" /\ job'[t].todo = job[t].todo
    <3>1. CASE Access(t)
      BY <1>d, <3>1, GoMoves DEF Access, Job
    <3>2. CASE ReadState(t)
      BY <1>d, <3>2, GoMoves DEF ReadState, Job
    <3>3. CASE BeginStopAll(t)
      BY <1>d, <3>3, GoMoves DEF BeginStopAll, Job, Working
    <3>4. CASE WriteRow(t)
      <4>1. \/ pc'[t] = "idle"
            \/ pc'[t] = "next" /\ job[t].act = "halt"
               /\ job'[t] = [job[t] EXCEPT !.on = None, !.value = "none"]
        BY <3>4, GoMoves DEF WriteRow
      <4> QED BY <1>d, <3>4, <4>1 DEF WriteRow, Job, Working
    <3> QED BY <1>3, <3>1, <3>2, <3>3, <3>4
  <2>4. Placed'
    BY <1>p, <1>d, <2>1, <2>2, <2>3 DEF Placed, Working, Live
  <2>5. Targets'
    BY <1>p, <2>1, <2>2, <2>j, <2>3 DEF Targets, Live, Members
  <2> QED BY <1>p, <2>2, <2>4, <2>5 DEF PlaceInv, OneEach, Live
<1>4. ASSUME NEW t \in Requests, NEW r \in Registries, Build(t, r) PROVE PlaceInv'
  <2>1. /\ pc'[t] = "load" /\ \A u \in Requests : u # t => pc'[u] = pc[u] /\ job'[u] = job[u]
        /\ registry' = r /\ scope' = [scope EXCEPT ![r] = account] /\ inst' = inst
        /\ pc[t] = "build" /\ job'[t].act = job[t].act /\ job'[t].name = job[t].name
    BY <1>4, <1>d, GoMoves DEF Build, Job
  <2> QED BY <1>d, <1>p, <2>1 DEF PlaceInv, Placed, OneEach, Targets, Working, Live
<1>5. ASSUME NEW t \in Requests, Load(t) PROVE PlaceInv'
  <2>1. /\ pc'[t] = "act" /\ job'[t].reg = registry /\ registry # None /\ pc[t] = "load"
        /\ job'[t].act = job[t].act /\ job'[t].name = job[t].name
        /\ \A u \in Requests : u # t => pc'[u] = pc[u] /\ job'[u] = job[u]
        /\ UNCHANGED <<registry, scope>>
    BY <1>5, <1>d, GoMoves DEF Load, Job
  <2>2. \A i \in Instances : Live(i) => inst'[i] = inst[i]
    BY <1>5, LoadShape DEF Live
  <2>3. \A i \in Instances : inst'[i] # inst[i] =>
           /\ inst'[i].reg = registry /\ inst'[i].name \in Names
           /\ Named(registry, inst'[i].name) = {}
    <3> TAKE i \in Instances
    <3> HAVE inst'[i] # inst[i]
    <3>1. PICK n \in Names : Named(registry, n) = {} /\ inst'[i] = Restored(registry, n, i)
      BY <1>5, LoadShape
    <3>2. inst'[i].reg = registry /\ inst'[i].name = n
      BY <3>1 DEF Restored
    <3> QED BY <3>1, <3>2
  <2>4. \A i, j \in Instances :
           /\ inst'[i] # inst[i] /\ inst'[j] # inst[j] /\ inst'[i].name = inst'[j].name => i = j
    BY <1>5, LoadShape
  <2>5. Placed'
    BY <1>d, <1>p, <2>1, <2>2, <2>3 DEF Placed, Working, Live
  <2>6. OneEach'
    <3> SUFFICES ASSUME NEW i \in Instances, NEW j \in Instances, Live(i)', Live(j)',
                        inst'[i].reg = inst'[j].reg, inst'[i].name = inst'[j].name
                 PROVE  i = j
      BY DEF OneEach
    <3>1. CASE inst'[i] = inst[i] /\ inst'[j] = inst[j]
      BY <1>p, <3>1 DEF OneEach, Live
    <3>2. CASE inst'[i] # inst[i] /\ inst'[j] # inst[j]
      BY <2>4, <3>2
    <3>3. ASSUME NEW a \in Instances, NEW b \in Instances, inst'[a] # inst[a], inst'[b] = inst[b],
                 inst'[a].reg = inst'[b].reg, inst'[a].name = inst'[b].name, Live(b)'
          PROVE  FALSE
      <4>1. b \in Named(registry, inst'[a].name)
        BY <2>3, <3>3 DEF Named, Members, Live
      <4> QED BY <2>3, <3>3, <4>1
    <3> QED BY <3>1, <3>2, <3>3
  <2>7. Targets'
    BY <1>p, <2>1, <2>2 DEF Targets, Live
  <2> QED BY <2>5, <2>6, <2>7 DEF PlaceInv
<1>6. ASSUME NEW t \in Requests, NEW i \in Instances, Instantiate(t, i) PROVE PlaceInv'
  <2>1. /\ pc[t] = "act" /\ pc'[t] = "save" /\ job'[t].reg = job[t].reg /\ job'[t].on = i
        /\ job[t].act = "create" /\ job'[t].act = "create" /\ job'[t].name = job[t].name
        /\ job[t].name \in Names
        /\ \A u \in Requests : u # t => pc'[u] = pc[u] /\ job'[u] = job[u]
        /\ UNCHANGED <<registry, scope>>
    BY <1>6, <1>d, <1>p, GoMoves DEF Instantiate, Job, Targets
  <2>2. /\ ~Live(i) /\ \A k \in Instances : k # i => inst'[k] = inst[k]
        /\ inst'[i].name = job[t].name /\ inst'[i].reg = job[t].reg /\ inst'[i].state = "READY"
        /\ \A k \in Instances : Live(k) /\ inst[k].reg = job[t].reg => inst[k].name # job[t].name
    BY <1>6, <1>d DEF Instantiate, Unused, Live, Named, Members
  <2>3. Placed'
    BY <1>p, <2>1, <2>2 DEF Placed, Working, Live
  <2>4. OneEach'
    BY <1>p, <2>2 DEF OneEach, Live
  <2>5. Targets'
    BY <1>p, <2>1, <2>2 DEF Targets, Live
  <2> QED BY <2>3, <2>4, <2>5 DEF PlaceInv
<1>7. ASSUME NEW t \in Requests, NEW i \in Instances, StartInstance(t, i) \/ StopInstance(t, i)
      PROVE  PlaceInv'
  <2>1. /\ pc[t] \in Working /\ pc'[t] = "read" /\ job'[t].reg = job[t].reg /\ job'[t].on = i
        /\ job'[t].act = job[t].act /\ (job[t].act = "halt" => job'[t].todo = job[t].todo \ {i})
        /\ \A u \in Requests : u # t => pc'[u] = pc[u] /\ job'[u] = job[u]
        /\ UNCHANGED <<registry, scope>>
    <3>1. PICK j \in {[job[t] EXCEPT !.on = i], [job[t] EXCEPT !.on = i, !.todo = @ \ {i}]} :
           /\ Go(t, "read", j)
           /\ job[t].act = "halt" => j = [job[t] EXCEPT !.on = i, !.todo = @ \ {i}]
      BY <1>7 DEF StartInstance, StopInstance
    <3>2. /\ j.reg = job[t].reg /\ j.on = i /\ j.act = job[t].act
          /\ job[t].act = "halt" => j.todo = job[t].todo \ {i}
      BY <1>d, <3>1 DEF Job
    <3> QED BY <1>7, <3>1, <3>2, GoMoves DEF StartInstance, StopInstance, Working
  <2>2. Live(i) /\ inst[i].reg = job[t].reg /\ job[t].act # "create"
    BY <1>7, <1>p DEF StartInstance, StopInstance, Targets, Named, Members, Live
  <2>n. /\ pc[t] = "next" \/ job[t].act # "halt"
        /\ pc[t] # "next" => job'[t].act # "halt"
    BY <1>7, <2>1 DEF StartInstance, StopInstance
  <2>3. \A k \in Instances : /\ inst'[k].name = inst[k].name /\ inst'[k].reg = inst[k].reg
                             /\ Live(k)' <=> Live(k)
    BY <1>7, <1>d, <2>2 DEF StartInstance, StopInstance, Instance, Live
  <2>4. Placed'
    BY <1>p, <2>1, <2>2, <2>3 DEF Placed, Working
  <2>5. OneEach'
    BY <1>p, <2>3 DEF OneEach
  <2>6. Targets'
    BY <1>p, <2>1, <2>2, <2>n, <2>3 DEF Targets
  <2> QED BY <2>4, <2>5, <2>6 DEF PlaceInv
<1>8. ASSUME (\E a \in Accounts : Connect(a)) \/ Disconnect \/ UpdateConnectedAccount
      PROVE  PlaceInv'
  BY <1>8, <1>p DEF Connect, Disconnect, UpdateConnectedAccount, PlaceInv, Placed, OneEach, Targets,
     Live
<1>9. ASSUME NEW i \in Instances, Fail(i) PROVE PlaceInv'
  <2>1. \A k \in Instances : /\ inst'[k].name = inst[k].name /\ inst'[k].reg = inst[k].reg
                             /\ Live(k)' <=> Live(k)
    BY <1>9, <1>d DEF Fail, Running, Instance, Live
  <2> QED BY <1>9, <1>p, <2>1 DEF Fail, PlaceInv, Placed, OneEach, Targets
<1>10. ASSUME Restart PROVE PlaceInv'
  BY <1>10 DEF Restart, PlaceInv, Placed, OneEach, Targets, Working, Live, NoInstance
<1>11. ASSUME UNCHANGED vars PROVE PlaceInv'
  BY <1>11, <1>p DEF vars, PlaceInv, Placed, OneEach, Targets, Live
<1> QED BY <1>1, <1>2, <1>3, <1>4, <1>5, <1>6, <1>7, <1>8, <1>9, <1>10, <1>11 DEF Next, Continue

LEMMA PlaceAlways == Spec => [](TypeOK /\ PlaceInv)
<1>1. TypeOK /\ PlaceInv /\ [Next]_vars => TypeOK' /\ PlaceInv'
  BY TypeStep, PlaceStep
<1> QED BY <1>1, TypeInit, PTL DEF Spec

(* Every variable keeps its type, whatever the connection does and however  *)
(* many requests are at work.                                               *)
THEOREM TypeCorrect == Spec => []TypeOK
  BY PlaceAlways, PTL
-----------------------------------------------------------------------------
(* A halt, as long as no two requests are at work.                          *)

\* The registries that can still write a row.
AtHand(r)  == r = registry \/ \E t \in Requests : pc[t] \in Working /\ job[t].reg = r
Writing(i) == \E t \in Requests : pc[t] \in {"read", "write"} /\ job[t].on = i

Alone == \A t, u \in Requests : pc[t] # "idle" /\ pc[u] # "idle" => t = u

\* A request works on the registry there is, or on one that was dropped last.
Held == \A t \in Requests : pc[t] \in Working => registry \in {None, job[t].reg}

Fresh == \A t \in Requests : pc[t] = "load" =>
            \A i \in Instances : Live(i) => inst[i].reg # registry

\* What a request reads of an instance, and writes, is what it has made of it.
Settled ==
    \A t \in Requests :
        /\ pc[t] \in {"read", "write"} /\ job[t].act = "start" =>
              inst[job[t].on].state \in {"RUNNING", "ERROR"}
        /\ pc[t] \in {"read", "write"} /\ job[t].act # "start" =>
              inst[job[t].on].state = "STOPPED"
        /\ pc[t] = "write" /\ job[t].act # "start" => job[t].value = "STOPPED"

Stopping ==
    \A t \in Requests : pc[t] \in {"read", "write", "next"} /\ job[t].act = "halt" =>
        \A i \in Instances : Live(i) /\ inst[i].reg = job[t].reg =>
            i \in job[t].todo \/ inst[i].state = "STOPPED"

\* Every row of the account has an instance.
Known ==
    \A r \in Registries :
        AtHand(r) /\ (\A t \in Requests : pc[t] # "load") =>
            \A n \in Names : rows[scope[r]][n] # "none" =>
                \E i \in Instances :
                    Live(i) /\ inst[i].reg = r /\ inst[i].name = n /\ KeyOf(i) = scope[r]

Written ==
    \A i \in Instances : inst[i].state = "STOPPED" /\ AtHand(inst[i].reg) =>
        rows[KeyOf(i)][inst[i].name] # "RUNNING" \/ Writing(i)

Unasked == halted # {} => \A t \in Requests : pc[t] # "idle" => job[t].act # "start"

HaltStands ==
    \A k \in halted :
        /\ \A n \in Names : rows[k][n] # "RUNNING"
        /\ \A i \in Instances : inst[i].state = "RUNNING" /\ inst[i].reg = registry =>
              scope[registry] # k

HaltParts == /\ Alone /\ Held /\ Fresh /\ Settled /\ Stopping
             /\ Known /\ Written /\ Unasked /\ HaltStands
HaltInv == "overlap" \notin seen => HaltParts

LEMMA SeenGrows == ASSUME TypeOK, [Next]_vars PROVE seen \subseteq seen'
<1>1. ASSUME NEW t \in Requests, Request(t) PROVE seen \subseteq seen'
  BY <1>1, SufferKeeps DEF Request, Create, Start, Stop, Halt, Arrive
<1>2. ASSUME NEW t \in Requests, Continue(t) PROVE seen \subseteq seen'
  BY <1>2 DEF Continue, Access, Build, Load, LoadFails, Refuse, Find, Instantiate, StartInstance,
     StopInstance, SaveInstance, ReadState, WriteRow, BeginStopAll, EndStopAll
<1>3. ASSUME (\E a \in Accounts : Connect(a)) \/ UpdateConnectedAccount \/ Disconnect
             \/ (\E i \in Instances : Fail(i)) \/ Restart
      PROVE  seen \subseteq seen'
  BY <1>3, SufferKeeps DEF Connect, UpdateConnectedAccount, Disconnect, Fail, Restart
<1> QED BY <1>1, <1>2, <1>3 DEF Next, vars

\* The request that moves is the only one at work.
LEMMA OneMoves ==
    ASSUME TypeOK, HaltParts, NEW t \in Requests, pc[t] # "idle", NEW l, NEW j, Go(t, l, j)
    PROVE  /\ pc'[t] = l
           /\ l # "idle" => job'[t] = j
           /\ \A u \in Requests : u # t => pc[u] = "idle" /\ pc'[u] = "idle"
  BY GoMoves DEF HaltParts, Alone

LEMMA OneAtHand ==
    ASSUME NEW t \in Requests, \A u \in Requests : u # t => pc[u] = "idle"
    PROVE  /\ \A r : AtHand(r) <=> r = registry \/ (pc[t] \in Working /\ job[t].reg = r)
           /\ \A i : Writing(i) <=> pc[t] \in {"read", "write"} /\ job[t].on = i
  BY DEF AtHand, Writing, Working

LEMMA OneAtHandNext ==
    ASSUME NEW t \in Requests, \A u \in Requests : u # t => pc'[u] = "idle"
    PROVE  /\ \A r : AtHand(r)' <=> r = registry' \/ (pc'[t] \in Working /\ job'[t].reg = r)
           /\ \A i : Writing(i)' <=> pc'[t] \in {"read", "write"} /\ job'[t].on = i
  BY DEF AtHand, Writing, Working

\* The parts, said of the one request that is at work.
LEMMA PartsOfOne ==
    ASSUME NEW t \in Requests, \A u \in Requests : u # t => pc'[u] = "idle",
           pc'[t] \in Working => registry' \in {None, job'[t].reg},
           pc'[t] = "load" => \A i \in Instances : Live(i)' => inst'[i].reg # registry',
           pc'[t] \in {"read", "write"} =>
              inst'[job'[t].on].state \in
                 (IF job'[t].act = "start" THEN {"RUNNING", "ERROR"} ELSE {"STOPPED"}),
           pc'[t] = "write" /\ job'[t].act # "start" => job'[t].value = "STOPPED",
           pc'[t] \in {"read", "write", "next"} /\ job'[t].act = "halt" =>
              \A i \in Instances : Live(i)' /\ inst'[i].reg = job'[t].reg =>
                 i \in job'[t].todo \/ inst'[i].state = "STOPPED",
           halted' # {} /\ pc'[t] # "idle" => job'[t].act # "start"
    PROVE  Alone' /\ Held' /\ Fresh' /\ Settled' /\ Stopping' /\ Unasked'
  BY DEF Alone, Held, Fresh, Settled, Stopping, Unasked, Working

LEMMA HaltStep == ASSUME TypeOK, PlaceInv, HaltInv, [Next]_vars PROVE HaltInv'
<1> SUFFICES ASSUME "overlap" \notin seen' PROVE HaltParts'
  BY DEF HaltInv
<1>h. HaltParts
  BY SeenGrows DEF HaltInv
<1>p. Placed /\ OneEach /\ Targets /\ Alone /\ Held /\ Fresh /\ Settled /\ Stopping
      /\ Known /\ Written /\ Unasked /\ HaltStands
  BY <1>h DEF PlaceInv, HaltParts
<1>d. /\ inst \in [Instances -> Instance]
      /\ scope \in [Registries -> Keys \cup {"none"}]
      /\ rows \in [Keys -> [Names -> States \cup {"none"}]]
      /\ account \in Keys /\ registry \in Registries \cup {None} /\ halted \subseteq Keys
      /\ \A t \in Requests : job[t] \in Job
      /\ pc \in [Requests -> Pc]
  BY DEF TypeOK
<1>n. "none" \notin Keys /\ None \notin Registries
  BY NothingIsNone
<1> USE DEF connection, objects, threads
<1>1. ASSUME NEW t \in Requests, Request(t) PROVE HaltParts'
  <2>1. PICK j : Arrive(t, j)
    BY <1>1 DEF Request, Create, Start, Stop, Halt
  <2>2. \A u \in Requests : pc[u] = "idle"
    BY <2>1, SufferKeeps DEF Arrive, Busy
  <2>3. /\ pc'[t] = "access" /\ \A u \in Requests : u # t => pc'[u] = "idle"
        /\ UNCHANGED <<registry, scope, inst, rows>>
        /\ job'[t] = j /\ (halted' # {} => j.act # "start" /\ halted' = halted)
    BY <2>1, <2>2, GoMoves DEF Arrive
  <2>4. \A r : AtHand(r)' <=> r = registry
    BY <2>3, OneAtHandNext DEF Working
  <2>5. \A r, i : (AtHand(r) <=> r = registry) /\ ~Writing(i)
    BY <2>2, OneAtHand DEF Working
  <2>6. Alone' /\ Held' /\ Fresh' /\ Settled' /\ Stopping' /\ Unasked'
    BY <2>3, PartsOfOne DEF Working
  <2>7. Known' /\ Written'
    BY <1>p, <2>2, <2>3, <2>4, <2>5 DEF Known, Written, Live, KeyOf
  <2>8. HaltStands'
    BY <1>p, <2>3 DEF HaltStands
  <2> QED BY <2>6, <2>7, <2>8 DEF HaltParts
<1>2. ASSUME NEW t \in Requests, LoadFails(t) \/ Refuse(t) \/ Find(t) PROVE HaltParts'
  <2>1. /\ pc[t] \in {"load", "act"} /\ (pc[t] = "load" => registry = None)
        /\ pc'[t] \in {"idle", "access"} /\ (pc'[t] = "access" => job'[t].act = job[t].act)
        /\ UNCHANGED <<registry, scope, inst, rows, halted>>
        /\ \A u \in Requests : u # t => pc[u] = "idle" /\ pc'[u] = "idle"
    BY <1>2, <1>d, <1>h, OneMoves DEF LoadFails, Refuse, Find, Job
  <2>2. \A r : AtHand(r)' <=> r = registry
    BY <2>1, OneAtHandNext DEF Working
  <2>3. \A r, i : (r = registry => AtHand(r)) /\ ~Writing(i)
    BY <2>1, OneAtHand
  <2>4. Alone' /\ Held' /\ Fresh' /\ Settled' /\ Stopping' /\ Unasked'
    BY <1>p, <2>1, PartsOfOne DEF Working, Unasked
  <2>5. Known'
    BY <1>p, <1>n, <2>1, <2>2, <2>3 DEF Known, Live, KeyOf
  <2>6. Written' /\ HaltStands'
    BY <1>p, <2>1, <2>2, <2>3 DEF Written, KeyOf, HaltStands
  <2> QED BY <2>4, <2>5, <2>6 DEF HaltParts
<1>3. ASSUME NEW t \in Requests, Access(t) PROVE HaltParts'
  <2>1. /\ pc[t] = "access" /\ job'[t].act = job[t].act
        /\ \/ pc'[t] = "act" /\ job'[t].reg = registry
           \/ pc'[t] = "build"
        /\ UNCHANGED <<registry, scope, inst, rows, halted>>
        /\ \A u \in Requests : u # t => pc[u] = "idle" /\ pc'[u] = "idle"
    BY <1>3, <1>d, <1>h, OneMoves DEF Access, Job
  <2>2. \A r : AtHand(r)' <=> r = registry
    BY <2>1, OneAtHandNext DEF Working
  <2>3. \A r, i : (AtHand(r) <=> r = registry) /\ ~Writing(i)
    BY <2>1, OneAtHand DEF Working
  <2>4. Alone' /\ Held' /\ Fresh' /\ Settled' /\ Stopping' /\ Unasked'
    BY <1>p, <2>1, PartsOfOne DEF Working, Unasked
  <2>5. Known'
    BY <1>p, <2>1, <2>2, <2>3 DEF Known, Live, KeyOf
  <2>6. Written' /\ HaltStands'
    BY <1>p, <2>1, <2>2, <2>3 DEF Written, KeyOf, HaltStands
  <2> QED BY <2>4, <2>5, <2>6 DEF HaltParts
<1>4. ASSUME NEW t \in Requests, NEW r \in Registries, Build(t, r) PROVE HaltParts'
  <2>1. /\ pc[t] = "build" /\ pc'[t] = "load" /\ job'[t].act = job[t].act
        /\ registry' = r /\ scope[r] = "none" /\ UNCHANGED <<inst, rows, halted>>
        /\ \A u \in Requests : u # t => pc[u] = "idle" /\ pc'[u] = "idle"
    BY <1>4, <1>d, <1>h, OneMoves DEF Build, Unbuilt, Job
  <2>2. \A i \in Instances : Live(i) => inst[i].reg # r
    BY <1>p, <1>n, <2>1 DEF Placed
  <2>3. \A s : AtHand(s)' <=> s = r
    BY <2>1, OneAtHandNext DEF Working
  <2>4. Alone' /\ Held' /\ Fresh' /\ Settled' /\ Stopping' /\ Unasked'
    BY <1>p, <2>1, <2>2, PartsOfOne DEF Working, Unasked, Live
  <2>5. Known'
    BY <2>1 DEF Known
  <2>6. Written' /\ HaltStands'
    BY <1>p, <2>1, <2>2, <2>3 DEF Written, HaltStands, Live
  <2> QED BY <2>4, <2>5, <2>6 DEF HaltParts
<1>5. ASSUME NEW t \in Requests, Load(t) PROVE HaltParts'
  <2>1. /\ pc[t] = "load" /\ pc'[t] = "act" /\ job'[t].act = job[t].act /\ job'[t].reg = registry
        /\ registry \in Registries /\ UNCHANGED <<registry, scope, rows, halted>>
        /\ \A u \in Requests : u # t => pc[u] = "idle" /\ pc'[u] = "idle"
    BY <1>5, <1>d, <1>h, OneMoves DEF Load, Job
  <2>2. \A r : AtHand(r)' <=> r = registry
    BY <2>1, OneAtHandNext DEF Working
  <2>3. \A i \in Instances : Live(i) => inst[i].reg # registry
    BY <1>p, <2>1 DEF Fresh
  <2>4. \A n \in Names : Named(registry, n) = {}
    BY <2>3 DEF Named, Members, Live
  <2>5. \A i \in Instances : inst'[i] # inst[i] =>
           \E n \in Names : inst'[i] = Restored(registry, n, i)
    BY <1>5, LoadShape
  <2>6. \A i \in Instances : inst'[i].state \in {"RUNNING", "STOPPED"} /\ inst'[i].reg = registry =>
           /\ inst'[i].state = "RUNNING"
           /\ \E n \in Names : rows[scope[registry]][n] = "RUNNING"
    <3> TAKE i \in Instances
    <3> HAVE inst'[i].state \in {"RUNNING", "STOPPED"} /\ inst'[i].reg = registry
    <3>1. inst'[i] # inst[i]
      BY <2>3 DEF Live
    <3>2. PICK n \in Names : inst'[i] = Restored(registry, n, i)
      BY <2>5, <3>1
    <3>3. inst'[i].state = IF rows[scope[registry]][n] = "RUNNING" THEN "RUNNING" ELSE "READY"
      BY <3>2 DEF Restored
    <3> QED BY <3>3
  <2>7. Alone' /\ Held' /\ Fresh' /\ Settled' /\ Stopping' /\ Unasked'
    BY <1>p, <2>1, PartsOfOne DEF Working, Unasked
  <2>8. Known'
    <3> SUFFICES ASSUME NEW n \in Names, rows[scope[registry]][n] # "none"
                 PROVE  \E i \in Instances :
                           Live(i)' /\ inst'[i].reg = registry /\ inst'[i].name = n
                           /\ KeyOf(i)' = scope[registry]
      BY <2>1, <2>2 DEF Known
    <3>1. PICK i \in Instances : inst'[i] = Restored(registry, n, i)
      BY <1>5, <2>4, LoadShape
    <3>2. /\ inst'[i].reg = registry /\ inst'[i].name = n /\ inst'[i].state # "none"
          /\ inst'[i].account = scope[registry]
      BY <3>1 DEF Restored
    <3> QED BY <2>1, <3>2 DEF Live, KeyOf
  <2>9. Written'
    BY <2>1, <2>2, <2>6 DEF Written
  <2>10. HaltStands'
    BY <1>p, <2>1, <2>6 DEF HaltStands
  <2> QED BY <2>7, <2>8, <2>9, <2>10 DEF HaltParts
<1>6. ASSUME NEW t \in Requests, NEW i \in Instances, Instantiate(t, i) PROVE HaltParts'
  <2>1. /\ pc[t] = "act" /\ pc'[t] = "save" /\ job'[t].act = job[t].act /\ job'[t].reg = job[t].reg
        /\ job[t].act = "create"
        /\ UNCHANGED <<registry, scope, rows, halted>>
        /\ \A u \in Requests : u # t => pc[u] = "idle" /\ pc'[u] = "idle"
    BY <1>6, <1>d, <1>h, OneMoves DEF Instantiate, Job
  <2>2. /\ ~Live(i) /\ \A k \in Instances : k # i => inst'[k] = inst[k]
        /\ inst'[i].state = "READY"
    BY <1>6, <1>d DEF Instantiate, Unused, Live
  <2>3. \A r : (AtHand(r)' <=> AtHand(r))
    BY <2>1, OneAtHandNext, OneAtHand DEF Working
  <2>4. \A k : ~Writing(k)
    BY <2>1, OneAtHand
  <2>5. Alone' /\ Held' /\ Fresh' /\ Settled' /\ Stopping' /\ Unasked'
    BY <1>p, <2>1, PartsOfOne DEF Working, Held
  <2>6. Known'
    BY <1>p, <2>1, <2>2, <2>3 DEF Known, Live, KeyOf
  <2>7. Written' /\ HaltStands'
    BY <1>p, <2>1, <2>2, <2>3, <2>4 DEF Written, KeyOf, HaltStands
  <2> QED BY <2>5, <2>6, <2>7 DEF HaltParts
<1>7. ASSUME NEW t \in Requests, SaveInstance(t) PROVE HaltParts'
  <2>1. /\ pc[t] = "save" /\ pc'[t] = "idle" /\ UNCHANGED <<registry, scope, inst, halted>>
        /\ \A u \in Requests : u # t => pc[u] = "idle" /\ pc'[u] = "idle"
    BY <1>7, <1>d, <1>h, OneMoves DEF SaveInstance, Job
  <2> PICK i \in Instances : i = job[t].on
    BY <1>p, <2>1 DEF Targets
  <2>2. /\ job[t].reg \in Registries /\ registry \in {None, job[t].reg}
        /\ Live(i) /\ inst[i].reg = job[t].reg /\ inst[i].name = job[t].name
    BY <1>p, <2>1 DEF Placed, Targets, Held, Working
  <2>3. \A k \in Keys, n \in Names :
           /\ rows'[k][n] = "RUNNING" => rows[k][n] = "RUNNING"
           /\ rows'[k][n] # "none" /\ rows[k][n] = "none" => k = KeyOf(i) /\ n = job[t].name
    BY <1>7, <1>d DEF SaveInstance
  <2>4. \A r : AtHand(r)' <=> r = registry
    BY <2>1, OneAtHandNext DEF Working
  <2>5. \A r, k : (r = registry => AtHand(r)) /\ ~Writing(k)
    BY <2>1, OneAtHand
  <2>6. Alone' /\ Held' /\ Fresh' /\ Settled' /\ Stopping' /\ Unasked'
    BY <2>1, PartsOfOne DEF Working
  <2>7. KeyOf(i)' = KeyOf(i) /\ \A k \in Instances : KeyOf(k)' = KeyOf(k) /\ (Live(k)' <=> Live(k))
    BY <2>1 DEF KeyOf, Live
  <2>8. Known'
    <3> SUFFICES ASSUME registry \in Registries, NEW n \in Names, rows'[scope[registry]][n] # "none"
                 PROVE  \E k \in Instances : Live(k) /\ inst[k].reg = registry /\ inst[k].name = n
                                             /\ KeyOf(k) = scope[registry]
      BY <2>1, <2>4, <2>7 DEF Known
    <3>1. scope[registry] \in Keys
      BY <1>n, <1>p DEF Placed
    <3>2. CASE rows[scope[registry]][n] # "none"
      BY <1>p, <2>1, <2>5, <3>2 DEF Known
    <3>3. CASE rows[scope[registry]][n] = "none"
      BY <1>n, <2>2, <2>3, <3>1, <3>3
    <3> QED BY <3>2, <3>3
  <2>9. \A k \in Instances : Live(k) => KeyOf(k) \in Keys /\ inst[k].name \in Names
    BY <1>p, <1>d DEF KeyOf, Placed, Instance
  <2>10. Written'
    <3> SUFFICES ASSUME NEW k \in Instances, inst[k].state = "STOPPED", inst[k].reg = registry,
                        rows'[KeyOf(k)][inst[k].name] = "RUNNING"
                 PROVE  FALSE
      BY <2>1, <2>4, <2>7 DEF Written
    <3>1. KeyOf(k) \in Keys /\ inst[k].name \in Names
      BY <2>9 DEF Live
    <3>2. rows[KeyOf(k)][inst[k].name] = "RUNNING"
      BY <2>3, <3>1
    <3> QED BY <1>p, <2>5, <3>2 DEF Written
  <2>11. HaltStands'
    BY <1>p, <1>d, <2>1, <2>3 DEF HaltStands
  <2> QED BY <2>6, <2>8, <2>10, <2>11 DEF HaltParts
<1>8. ASSUME NEW t \in Requests, NEW i \in Instances, StartInstance(t, i) \/ StopInstance(t, i)
      PROVE  HaltParts'
  <2>1. /\ pc[t] \in {"act", "next"} /\ pc'[t] = "read"
        /\ UNCHANGED <<registry, scope, rows, halted>>
        /\ \A u \in Requests : u # t => pc[u] = "idle" /\ pc'[u] = "idle"
    BY <1>8, <1>h, OneMoves DEF StartInstance, StopInstance
  <2>2. /\ job'[t].act = job[t].act /\ job'[t].reg = job[t].reg /\ job'[t].on = i
        /\ job[t].act = "halt" => job'[t].todo = job[t].todo \ {i}
    <3>1. PICK j \in {[job[t] EXCEPT !.on = i], [job[t] EXCEPT !.on = i, !.todo = @ \ {i}]} :
           /\ Go(t, "read", j)
           /\ job[t].act = "halt" => j = [job[t] EXCEPT !.on = i, !.todo = @ \ {i}]
      BY <1>8 DEF StartInstance, StopInstance
    <3>2. /\ j.reg = job[t].reg /\ j.on = i /\ j.act = job[t].act
          /\ job[t].act = "halt" => j.todo = job[t].todo \ {i}
      BY <1>d, <3>1 DEF Job
    <3> QED BY <3>1, <3>2, GoMoves
  <2>3. /\ Live(i) /\ inst[i].reg = job[t].reg
        /\ job[t].act = "halt" => pc[t] = "next"
    BY <1>8, <1>p DEF StartInstance, StopInstance, Targets, Named, Members, Live
  <2>4. \A k \in Instances : /\ k # i => inst'[k] = inst[k]
                             /\ inst'[k].name = inst[k].name /\ inst'[k].reg = inst[k].reg
                             /\ inst'[k].account = inst[k].account
                             /\ Live(k)' <=> Live(k)
    BY <1>8, <1>d, <2>3 DEF StartInstance, StopInstance, Instance, Live
  <2>5. inst'[i].state \in (IF job[t].act = "start" THEN {"RUNNING", "ERROR"} ELSE {"STOPPED"})
    BY <1>8, <1>d, <1>p, <2>3 DEF StartInstance, StopInstance, Instance, States, Live, Targets
  <2>6. \A r : AtHand(r)' <=> AtHand(r)
    BY <2>1, <2>2, OneAtHandNext, OneAtHand DEF Working
  <2>7. Writing(i)' /\ \A k : ~Writing(k)
    BY <2>1, <2>2, OneAtHandNext, OneAtHand
  <2>8. \A k \in Instances : KeyOf(k)' = KeyOf(k)
    BY <2>1, <2>4 DEF KeyOf
  <2>9. pc'[t] \in {"read", "write", "next"} /\ job'[t].act = "halt" =>
           \A k \in Instances : Live(k)' /\ inst'[k].reg = job'[t].reg =>
              k \in job'[t].todo \/ inst'[k].state = "STOPPED"
    <3> SUFFICES ASSUME job[t].act = "halt", NEW k \in Instances, Live(k), inst[k].reg = job[t].reg,
                        k # i
                 PROVE  k \in job[t].todo \/ inst[k].state = "STOPPED"
      BY <2>2, <2>4, <2>5
    <3>1. pc[t] = "next"
      BY <2>3
    <3> QED BY <1>p, <3>1 DEF Stopping
  <2>10. /\ registry \in {None, job[t].reg}
         /\ halted # {} => job[t].act # "start"
    BY <1>p, <2>1 DEF Held, Unasked, Working
  <2>11. Alone' /\ Held' /\ Fresh' /\ Settled' /\ Stopping' /\ Unasked'
    BY <2>1, <2>2, <2>5, <2>9, <2>10, PartsOfOne
  <2>12. Known'
    BY <1>p, <2>1, <2>4, <2>6, <2>8 DEF Known
  <2>13. Written'
    BY <1>p, <2>1, <2>4, <2>6, <2>7, <2>8 DEF Written
  <2>14. HaltStands'
    BY <1>p, <2>1, <2>4, <2>5, <2>10 DEF HaltStands
  <2> QED BY <2>11, <2>12, <2>13, <2>14 DEF HaltParts
<1>9. ASSUME NEW t \in Requests, ReadState(t) PROVE HaltParts'
  <2>1. /\ pc[t] = "read" /\ pc'[t] = "write" /\ UNCHANGED <<registry, scope, inst, rows, halted>>
        /\ \A u \in Requests : u # t => pc[u] = "idle" /\ pc'[u] = "idle"
    BY <1>9, <1>h, OneMoves DEF ReadState
  <2>2. /\ job'[t].act = job[t].act /\ job'[t].reg = job[t].reg /\ job'[t].on = job[t].on
        /\ job'[t].todo = job[t].todo /\ job'[t].value = inst[job[t].on].state
    <3>1. job'[t] = [job[t] EXCEPT !.value = inst[job[t].on].state]
      BY <1>9, GoMoves DEF ReadState
    <3> QED BY <1>d, <3>1 DEF Job
  <2>a. \A r : AtHand(r)' <=> AtHand(r)
    BY <2>1, <2>2, OneAtHandNext, OneAtHand DEF Working
  <2>3. \A r, i : (AtHand(r)' <=> AtHand(r)) /\ (Writing(i)' <=> Writing(i))
    BY <2>1, <2>2, <2>a, OneAtHandNext, OneAtHand
  <2>4. Alone' /\ Held' /\ Fresh' /\ Settled' /\ Stopping' /\ Unasked'
    <3>1. /\ registry \in {None, job[t].reg}
          /\ inst[job[t].on].state \in
                (IF job[t].act = "start" THEN {"RUNNING", "ERROR"} ELSE {"STOPPED"})
          /\ halted # {} => job[t].act # "start"
      BY <1>p, <2>1 DEF Held, Settled, Unasked, Working
    <3>2. job[t].act = "halt" =>
             \A i \in Instances : Live(i) /\ inst[i].reg = job[t].reg =>
                i \in job[t].todo \/ inst[i].state = "STOPPED"
      BY <1>p, <2>1 DEF Stopping
    <3> QED BY <2>1, <2>2, <3>1, <3>2, PartsOfOne DEF Live
  <2>5. Known'
    BY <1>p, <2>1, <2>3 DEF Known, Live, KeyOf
  <2>6. Written' /\ HaltStands'
    BY <1>p, <2>1, <2>3 DEF Written, KeyOf, HaltStands
  <2> QED BY <2>4, <2>5, <2>6 DEF HaltParts
<1>10. ASSUME NEW t \in Requests, WriteRow(t) PROVE HaltParts'
  <2>1. /\ pc[t] = "write" /\ UNCHANGED <<registry, scope, inst, halted>>
        /\ \/ pc'[t] = "idle"
           \/ pc'[t] = "next" /\ job[t].act = "halt"
              /\ job'[t] = [job[t] EXCEPT !.on = None, !.value = "none"]
        /\ \A u \in Requests : u # t => pc[u] = "idle" /\ pc'[u] = "idle"
    BY <1>10, <1>h, OneMoves DEF WriteRow
  <2>2. pc'[t] = "next" => /\ job'[t].act = "halt" /\ job[t].act = "halt"
                           /\ job'[t].reg = job[t].reg /\ job'[t].todo = job[t].todo
    BY <1>d, <2>1 DEF Job
  <2> PICK i \in Instances : i = job[t].on
    BY <1>p, <2>1 DEF Targets
  <2>3. /\ job[t].reg \in Registries /\ registry \in {None, job[t].reg}
        /\ Live(i) /\ inst[i].reg = job[t].reg
        /\ job[t].act # "start" => job[t].value = "STOPPED" /\ inst[i].state = "STOPPED"
        /\ job[t].act = "start" => inst[i].state # "STOPPED" /\ halted = {}
    BY <1>p, <2>1 DEF Placed, Targets, Held, Settled, Unasked, Working
  <2>4. \A k \in Keys, n \in Names :
           /\ rows'[k][n] = IF k = KeyOf(i) /\ n = inst[i].name /\ rows[k][n] # "none"
                            THEN job[t].value ELSE rows[k][n]
    BY <1>10, <1>d DEF WriteRow
  <2>5. \A r : AtHand(r)' => r = registry \/ r = job[t].reg
    BY <2>1, <2>2, OneAtHandNext DEF Working
  <2>6. \A r : AtHand(r) <=> r = registry \/ r = job[t].reg
    BY <2>1, OneAtHand DEF Working
  <2>7. \A k : Writing(k) <=> k = i
    BY <2>1, OneAtHand
  <2>8. Alone' /\ Held' /\ Fresh' /\ Settled' /\ Stopping' /\ Unasked'
    BY <1>p, <2>1, <2>2, <2>3, PartsOfOne DEF Working, Stopping, Live
  <2>9. \A k \in Instances : KeyOf(k)' = KeyOf(k) /\ (Live(k)' <=> Live(k))
    BY <2>1 DEF KeyOf, Live
  <2>10. Known'
    <3> SUFFICES ASSUME NEW r \in Registries, AtHand(r)', NEW n \in Names, rows'[scope[r]][n] # "none"
                 PROVE  \E k \in Instances : Live(k) /\ inst[k].reg = r /\ inst[k].name = n
                                             /\ KeyOf(k) = scope[r]
      BY <2>1, <2>9 DEF Known
    <3>1. scope[r] \in Keys /\ AtHand(r)
      BY <1>n, <1>p, <2>3, <2>5, <2>6 DEF Placed, Live
    <3>2. rows[scope[r]][n] # "none"
      BY <2>4, <3>1
    <3> QED BY <1>p, <2>1, <3>1, <3>2 DEF Known
  <2>11. Written'
    <3> SUFFICES ASSUME NEW k \in Instances, inst[k].state = "STOPPED", AtHand(inst[k].reg)',
                        rows'[KeyOf(k)][inst[k].name] = "RUNNING"
                 PROVE  FALSE
      BY <2>1, <2>9 DEF Written
    <3>1. KeyOf(k) \in Keys /\ inst[k].name \in Names /\ inst[k].reg \in Registries
      BY <1>p, <1>d DEF KeyOf, Placed, Instance, Live
    <3>2. inst[k].reg = job[t].reg
      BY <1>n, <2>1, <2>3, <2>5, <3>1
    <3>3. CASE k = i
      BY <2>3, <2>4, <3>1, <3>3
    <3>4. CASE k # i
      <4>1. inst[k].name # inst[i].name
        BY <1>p, <2>3, <3>2, <3>4 DEF OneEach, Live
      <4>2. rows[KeyOf(k)][inst[k].name] = "RUNNING"
        BY <2>4, <3>1, <4>1
      <4> QED BY <1>p, <2>6, <2>7, <3>2, <3>4, <4>2 DEF Written
    <3> QED BY <3>3, <3>4
  <2>12. HaltStands'
    BY <1>p, <1>d, <2>1, <2>3, <2>4 DEF HaltStands
  <2> QED BY <2>8, <2>10, <2>11, <2>12 DEF HaltParts
<1>11. ASSUME NEW t \in Requests, BeginStopAll(t) PROVE HaltParts'
  <2>1. /\ pc[t] = "act" /\ pc'[t] = "next" /\ UNCHANGED <<registry, scope, inst, rows, halted>>
        /\ job[t].act = "halt" /\ job'[t] = [job[t] EXCEPT !.todo = Members(job[t].reg)]
        /\ \A u \in Requests : u # t => pc[u] = "idle" /\ pc'[u] = "idle"
    BY <1>11, <1>h, OneMoves DEF BeginStopAll
  <2>2. /\ job'[t].act = "halt" /\ job'[t].reg = job[t].reg /\ job'[t].todo = Members(job[t].reg)
    BY <1>d, <2>1 DEF Job
  <2>3. \A r, i : (AtHand(r)' <=> AtHand(r)) /\ ~Writing(i)
    BY <2>1, <2>2, OneAtHandNext, OneAtHand DEF Working
  <2>4. Alone' /\ Held' /\ Fresh' /\ Settled' /\ Stopping' /\ Unasked'
    BY <1>p, <2>1, <2>2, PartsOfOne DEF Working, Held, Members, Live
  <2>5. Known'
    BY <1>p, <2>1, <2>3 DEF Known, Live, KeyOf
  <2>6. Written' /\ HaltStands'
    BY <1>p, <2>1, <2>3 DEF Written, KeyOf, HaltStands
  <2> QED BY <2>4, <2>5, <2>6 DEF HaltParts
<1>12. ASSUME NEW t \in Requests, EndStopAll(t) PROVE HaltParts'
  <2>1. /\ pc[t] = "next" /\ pc'[t] = "idle" /\ UNCHANGED <<registry, scope, inst, rows>>
        /\ \A i \in job[t].todo : inst[i].state = "STOPPED"
        /\ \A u \in Requests : u # t => pc[u] = "idle" /\ pc'[u] = "idle"
    BY <1>12, <1>h, OneMoves DEF EndStopAll
  <2>2. /\ job[t].act = "halt" /\ job[t].reg \in Registries /\ registry \in {None, job[t].reg}
        /\ scope[job[t].reg] \in Keys
    BY <1>p, <2>1 DEF Targets, Placed, Held, Working
  <2>3. halted' \subseteq halted \cup {scope[job[t].reg]}
    BY <1>12 DEF EndStopAll
  <2>4. \A i \in Instances : Live(i) /\ inst[i].reg = job[t].reg => inst[i].state = "STOPPED"
    BY <1>p, <2>1, <2>2 DEF Stopping
  <2>5. \A i \in Instances : ~(inst[i].state = "RUNNING" /\ inst[i].reg = registry)
    BY <1>n, <1>p, <2>2, <2>4 DEF Placed, Live
  <2>6. AtHand(job[t].reg) /\ (\A r : AtHand(r)' => AtHand(r)) /\ \A k : ~Writing(k)
    BY <2>1, OneAtHand, OneAtHandNext DEF Working
  <2>7. Alone' /\ Held' /\ Fresh' /\ Settled' /\ Stopping' /\ Unasked'
    BY <2>1, PartsOfOne DEF Working
  <2>8. Known'
    BY <1>p, <2>1, <2>6 DEF Known, Live, KeyOf
  <2>9. Written'
    BY <1>p, <2>1, <2>6 DEF Written, KeyOf
  <2>10. ASSUME NEW n \in Names, rows[scope[job[t].reg]][n] = "RUNNING" PROVE FALSE
    <3>1. PICK i \in Instances : Live(i) /\ inst[i].reg = job[t].reg /\ inst[i].name = n
                                 /\ KeyOf(i) = scope[job[t].reg]
      BY <1>p, <2>1, <2>2, <2>6, <2>10 DEF Known
    <3>2. inst[i].state = "STOPPED"
      BY <2>4, <3>1
    <3> QED BY <1>p, <2>6, <2>10, <3>1, <3>2 DEF Written
  <2>11. HaltStands'
    BY <1>p, <2>1, <2>3, <2>5, <2>10 DEF HaltStands
  <2> QED BY <2>7, <2>8, <2>9, <2>11 DEF HaltParts
<1>13. ASSUME (\E a \in Accounts : Connect(a)) \/ Disconnect PROVE HaltParts'
  <2>1. registry' = None /\ UNCHANGED <<scope, inst, rows, halted, pc, job>>
    BY <1>13 DEF Connect, Disconnect
  <2>2. /\ \A r \in Registries : AtHand(r)' => AtHand(r)
        /\ \A i : Writing(i)' <=> Writing(i)
        /\ \A i \in Instances : /\ Live(i)' <=> Live(i)
                                /\ KeyOf(i)' = KeyOf(i)
                                /\ Live(i) => inst[i].reg \in Registries
    BY <1>n, <1>p, <2>1 DEF AtHand, Writing, Live, KeyOf, Placed
  <2>3. Alone' /\ Held' /\ Fresh' /\ Settled' /\ Stopping' /\ Unasked'
    BY <1>p, <1>n, <2>1, <2>2 DEF Alone, Held, Fresh, Settled, Stopping, Unasked
  <2>4. Known'
    BY <1>p, <2>1, <2>2 DEF Known
  <2>5. Written' /\ HaltStands'
    BY <1>p, <1>n, <2>1, <2>2 DEF Written, HaltStands, Live
  <2> QED BY <2>3, <2>4, <2>5 DEF HaltParts
<1>14. ASSUME UpdateConnectedAccount \/ UNCHANGED vars PROVE HaltParts'
  <2>1. UNCHANGED <<registry, scope, inst, rows, halted, pc, job>>
    BY <1>14 DEF UpdateConnectedAccount, vars
  <2> QED BY <1>p, <2>1 DEF HaltParts, Alone, Held, Fresh, Settled, Stopping, Known, Written, Unasked,
          HaltStands, AtHand, Writing, Live, KeyOf
<1>15. ASSUME NEW i \in Instances, Fail(i) PROVE HaltParts'
  <2>1. /\ UNCHANGED <<registry, scope, rows, halted, pc, job>>
        /\ inst[i].state = "RUNNING" /\ inst'[i].state = "ERROR"
        /\ \A k \in Instances : k # i => inst'[k] = inst[k]
    BY <1>15, <1>d DEF Fail, Running, Instance
  <2>2. \A k \in Instances : /\ inst'[k].name = inst[k].name /\ inst'[k].reg = inst[k].reg
                             /\ inst'[k].account = inst[k].account
                             /\ Live(k)' <=> Live(k)
    BY <1>15, <1>d DEF Fail, Running, Instance, Live
  <2>3. \A k \in Instances : KeyOf(k)' = KeyOf(k)
    BY <2>1, <2>2 DEF KeyOf
  <2>4. \A r, k : (AtHand(r)' <=> AtHand(r)) /\ (Writing(k)' <=> Writing(k))
    BY <2>1 DEF AtHand, Writing
  <2>5. Alone' /\ Held' /\ Fresh' /\ Unasked'
    BY <1>p, <2>1, <2>2 DEF Alone, Held, Fresh, Unasked
  <2>6. Settled'
    BY <1>p, <2>1 DEF Settled, Targets
  <2>7. Stopping'
    BY <1>p, <2>1, <2>2 DEF Stopping
  <2>8. Known'
    BY <1>p, <2>1, <2>2, <2>3, <2>4 DEF Known
  <2>9. Written' /\ HaltStands'
    BY <1>p, <2>1, <2>2, <2>3, <2>4 DEF Written, HaltStands
  <2> QED BY <2>5, <2>6, <2>7, <2>8, <2>9 DEF HaltParts
<1>16. ASSUME Restart PROVE HaltParts'
  <2>1. /\ registry' = None /\ UNCHANGED <<rows, halted>>
        /\ \A t \in Requests : pc'[t] = "idle"
        /\ \A i \in Instances : inst'[i].state = "none"
    BY <1>16 DEF Restart, NoInstance
  <2>2. \A r : AtHand(r)' => r = None
    BY <2>1 DEF AtHand, Working
  <2> QED BY <1>p, <1>n, <2>1, <2>2 DEF HaltParts, Alone, Held, Fresh, Settled, Stopping, Known,
          Written, Unasked, HaltStands, Live, Working
<1> QED BY <1>1, <1>2, <1>3, <1>4, <1>5, <1>6, <1>7, <1>8, <1>9, <1>10, <1>11, <1>12, <1>13, <1>14,
           <1>15, <1>16 DEF Next, Continue

LEMMA HaltInit == Init => HaltInv
<1> SUFFICES ASSUME Init PROVE HaltParts
  BY DEF HaltInv
<1>1. /\ registry = None /\ halted = {}
      /\ \A t \in Requests : pc[t] = "idle"
      /\ \A i \in Instances : inst[i].state = "none"
  BY DEF Init, NoInstance
<1> QED BY <1>1, NothingIsNone DEF HaltParts, Alone, Held, Fresh, Settled, Stopping, Known, Written,
        Unasked, HaltStands, Live, AtHand, Working

(* What a halt has stopped stays stopped, over restarts and connections,    *)
(* until somebody asks for a start, unless requests overlap (stop_all).     *)
THEOREM HaltLasts == Spec => []HaltedStayStopped
<1>1. TypeOK /\ PlaceInv /\ HaltInv /\ [Next]_vars => TypeOK' /\ PlaceInv' /\ HaltInv'
  BY TypeStep, PlaceStep, HaltStep
<1>2. HaltInv => HaltedStayStopped
  BY DEF HaltInv, HaltParts, HaltStands, HaltedStayStopped, Running
<1> QED BY <1>1, <1>2, TypeInit, HaltInit, PTL DEF Spec
-----------------------------------------------------------------------------
(* Nothing runs twice, as long as nothing drops a registry that is in use.  *)

OwnParts ==
    /\ \A i \in Instances : inst[i].state = "RUNNING" => inst[i].reg = registry
    /\ \A t \in Requests : /\ pc[t] \in Working => job[t].reg = registry
                           /\ pc[t] = "build" => registry = None
OwnInv == seen \cap {"overlap", "reconnect", "midway"} = {} => OwnParts

LEMMA OwnStep == ASSUME TypeOK, PlaceInv, HaltInv, OwnInv, [Next]_vars PROVE OwnInv'
<1> SUFFICES ASSUME seen' \cap {"overlap", "reconnect", "midway"} = {} PROVE OwnParts'
  BY DEF OwnInv
<1>h. HaltParts /\ OwnParts
  BY SeenGrows DEF HaltInv, OwnInv
<1>p. Placed /\ Targets
  BY DEF PlaceInv
<1>d. /\ inst \in [Instances -> Instance]
      /\ registry \in Registries \cup {None}
      /\ \A t \in Requests : job[t] \in Job
  BY DEF TypeOK
<1>n. None \notin Registries
  BY NothingIsNone
<1> USE DEF connection, objects, threads
<1>1. ASSUME NEW t \in Requests, Request(t) PROVE OwnParts'
  <2>1. PICK j : Arrive(t, j)
    BY <1>1 DEF Request, Create, Start, Stop, Halt
  <2>2. /\ pc'[t] = "access" /\ \A u \in Requests : u # t => pc'[u] = pc[u] /\ job'[u] = job[u]
        /\ UNCHANGED <<registry, inst>>
    BY <2>1, GoMoves DEF Arrive
  <2> QED BY <1>h, <2>2 DEF OwnParts, Working
<1>2. ASSUME NEW t \in Requests, LoadFails(t) \/ Refuse(t) \/ Find(t) \/ SaveInstance(t)
                                 \/ EndStopAll(t)
      PROVE  OwnParts'
  <2>1. /\ pc'[t] \in {"idle", "access"}
        /\ \A u \in Requests : u # t => pc'[u] = pc[u] /\ job'[u] = job[u]
        /\ UNCHANGED <<registry, inst>>
    BY <1>2, GoMoves DEF LoadFails, Refuse, Find, SaveInstance, EndStopAll
  <2> QED BY <1>h, <2>1 DEF OwnParts, Working
<1>3. ASSUME NEW t \in Requests, Access(t) PROVE OwnParts'
  <2>1. /\ \/ pc'[t] = "act" /\ job'[t].reg = registry
           \/ pc'[t] = "build" /\ registry = None
        /\ \A u \in Requests : u # t => pc'[u] = pc[u] /\ job'[u] = job[u]
        /\ UNCHANGED <<registry, inst>>
    BY <1>3, <1>d, GoMoves DEF Access, Job
  <2> QED BY <1>h, <2>1 DEF OwnParts, Working
<1>4. ASSUME NEW t \in Requests, ReadState(t) \/ BeginStopAll(t) \/ WriteRow(t) PROVE OwnParts'
  <2>1. /\ pc[t] \in Working /\ UNCHANGED <<registry, inst>>
        /\ pc'[t] \in {"write", "next", "idle"}
        /\ \A u \in Requests : u # t => pc'[u] = pc[u] /\ job'[u] = job[u]
    BY <1>4, GoMoves DEF ReadState, BeginStopAll, WriteRow, Working
  <2>2. pc'[t] # "idle" => job'[t].reg = job[t].reg
    <3>1. PICK l, j : /\ Go(t, l, j)
                      /\ j \in {[job[t] EXCEPT !.value = inst[job[t].on].state],
                               [job[t] EXCEPT !.todo = Members(job[t].reg)],
                               [job[t] EXCEPT !.on = None, !.value = "none"]}
      BY <1>4 DEF ReadState, BeginStopAll, WriteRow
    <3>2. j.reg = job[t].reg
      BY <1>d, <3>1 DEF Job
    <3> QED BY <3>1, <3>2, GoMoves
  <2> QED BY <1>h, <2>1, <2>2 DEF OwnParts, Working
<1>5. ASSUME NEW t \in Requests, NEW r \in Registries, Build(t, r) PROVE OwnParts'
  <2>1. /\ pc[t] = "build" /\ pc'[t] = "load" /\ inst' = inst
        /\ \A u \in Requests : u # t => pc'[u] = "idle"
    BY <1>5, <1>h, OneMoves DEF Build
  <2>2. \A i \in Instances : inst[i].state # "RUNNING"
    BY <1>h, <1>p, <1>n, <2>1 DEF OwnParts, Placed, Live
  <2> QED BY <2>1, <2>2 DEF OwnParts, Working
<1>6. ASSUME NEW t \in Requests, Load(t) PROVE OwnParts'
  <2>1. /\ pc'[t] = "act" /\ job'[t].reg = registry /\ registry' = registry
        /\ \A u \in Requests : u # t => pc'[u] = pc[u] /\ job'[u] = job[u]
    BY <1>6, <1>d, GoMoves DEF Load, Job
  <2>2. \A i \in Instances : inst'[i] # inst[i] => inst'[i].reg = registry
    <3> TAKE i \in Instances
    <3> HAVE inst'[i] # inst[i]
    <3>1. PICK n \in Names : inst'[i] = Restored(registry, n, i)
      BY <1>6, LoadShape
    <3> QED BY <3>1 DEF Restored
  <2> QED BY <1>h, <2>1, <2>2 DEF OwnParts, Working
<1>7. ASSUME NEW t \in Requests, NEW i \in Instances,
             Instantiate(t, i) \/ StartInstance(t, i) \/ StopInstance(t, i)
      PROVE  OwnParts'
  <2>1. /\ pc[t] \in Working /\ pc'[t] \in Working /\ registry' = registry
        /\ \A u \in Requests : u # t => pc'[u] = pc[u] /\ job'[u] = job[u]
    BY <1>7, GoMoves DEF Instantiate, StartInstance, StopInstance, Working
  <2>2. job'[t].reg = job[t].reg
    <3>1. PICK l \in {"save", "read"},
               j \in {[job[t] EXCEPT !.on = i], [job[t] EXCEPT !.on = i, !.todo = @ \ {i}]} :
             Go(t, l, j)
      BY <1>7 DEF Instantiate, StartInstance, StopInstance
    <3>2. j.reg = job[t].reg
      BY <1>d DEF Job
    <3> QED BY <3>1, <3>2, GoMoves
  <2>3. \A k \in Instances : k # i => inst'[k] = inst[k]
    BY <1>7, <1>d DEF Instantiate, StartInstance, StopInstance
  <2>4. inst'[i].reg = job[t].reg
    <3>1. CASE Instantiate(t, i)
      BY <1>d, <3>1 DEF Instantiate
    <3>2. CASE StartInstance(t, i) \/ StopInstance(t, i)
      <4>1. inst[i].reg = job[t].reg
        BY <1>p, <3>2 DEF StartInstance, StopInstance, Targets, Named, Members
      <4> QED BY <1>d, <3>2, <4>1 DEF StartInstance, StopInstance, Instance
    <3> QED BY <1>7, <3>1, <3>2
  <2>5. job[t].reg = registry /\ pc'[t] # "build"
    BY <1>h, <2>1 DEF OwnParts, Working
  <2> QED BY <1>h, <2>1, <2>2, <2>3, <2>4, <2>5 DEF OwnParts
<1>8. ASSUME (\E a \in Accounts : Connect(a)) \/ Disconnect PROVE OwnParts'
  <2>1. Moving \subseteq seen' /\ UNCHANGED <<inst, pc, job>>
    BY <1>8, SufferKeeps DEF Connect, Disconnect
  <2>2. Running = {} /\ ~Busy
    BY <2>1 DEF Moving
  <2> QED BY <2>1, <2>2 DEF OwnParts, Running, Busy, Working
<1>9. ASSUME UpdateConnectedAccount \/ UNCHANGED vars PROVE OwnParts'
  BY <1>9, <1>h DEF UpdateConnectedAccount, vars, OwnParts
<1>10. ASSUME NEW i \in Instances, Fail(i) PROVE OwnParts'
  BY <1>10, <1>h, <1>d DEF Fail, OwnParts, Instance
<1>11. ASSUME Restart PROVE OwnParts'
  BY <1>11 DEF Restart, OwnParts, NoInstance, Working
<1> QED BY <1>1, <1>2, <1>3, <1>4, <1>5, <1>6, <1>7, <1>8, <1>9, <1>10, <1>11 DEF Next, Continue

LEMMA OwnInit == Init => OwnInv
  BY DEF Init, NoInstance, OwnInv, OwnParts, Working

(* A strategy of an account has one running instance, unless the connection *)
(* changes under one that runs or under a request, or two requests build    *)
(* the registry together (set_connected, strategy_registry).                *)
THEOREM OneRuns == Spec => []RunsOnce
<1>1. TypeOK /\ PlaceInv /\ HaltInv /\ OwnInv /\ [Next]_vars =>
         TypeOK' /\ PlaceInv' /\ HaltInv' /\ OwnInv'
  BY TypeStep, PlaceStep, HaltStep, OwnStep
<1>2. PlaceInv /\ OwnInv => RunsOnce
  BY DEF PlaceInv, OneEach, OwnInv, OwnParts, RunsOnce, Running, Live
<1> QED BY <1>1, <1>2, TypeInit, HaltInit, OwnInit, PTL DEF Spec
-----------------------------------------------------------------------------
(* The table follows what runs.                                             *)

Saving(i) == \E t \in Requests : pc[t] = "save" /\ job[t].on = i

\* The registry there is, is that of the account, and so are its rows.
Member(i) ==
    /\ KeyOf(i) = account
    /\ rows[account][inst[i].name] # "none" \/ Saving(i)
    /\ \/ inst[i].state = "RUNNING" <=> rows[account][inst[i].name] = "RUNNING"
       \/ inst[i].state = "ERROR"
       \/ Writing(i)

FollowParts ==
    /\ account = login
    /\ registry # None => scope[registry] = account
    /\ \A t \in Requests :
          /\ pc[t] \in Working \cup {"load"} => registry # None
          /\ pc[t] \in Working => job[t].reg = registry
          /\ pc[t] # "idle" /\ job[t].act = "create" => job[t].account = account
          /\ pc[t] = "write" => /\ job[t].value # "none"
                                /\ inst[job[t].on].state \in {job[t].value, "ERROR"}
    /\ \A i \in Instances : Live(i) /\ inst[i].reg = registry => Member(i)
FollowInv == seen \cap {"overlap", "unknown", "midway"} = {} => FollowParts

\* The parts, said of the one request that is at work.
LEMMA FollowsOfOne ==
    ASSUME NEW t \in Requests, \A u \in Requests : u # t => pc'[u] = "idle",
           account' = login',
           registry' # None => scope'[registry'] = account',
           pc'[t] \in Working \cup {"load"} => registry' # None,
           pc'[t] \in Working => job'[t].reg = registry',
           pc'[t] # "idle" /\ job'[t].act = "create" => job'[t].account = account',
           pc'[t] = "write" => /\ job'[t].value # "none"
                               /\ inst'[job'[t].on].state \in {job'[t].value, "ERROR"},
           \A i \in Instances : Live(i)' /\ inst'[i].reg = registry' => Member(i)'
    PROVE  FollowParts'
  BY DEF FollowParts, Working

LEMMA OneSaves ==
    ASSUME NEW t \in Requests, \A u \in Requests : u # t => pc[u] = "idle"
    PROVE  \A i : Saving(i) <=> pc[t] = "save" /\ job[t].on = i
  BY DEF Saving

LEMMA OneSavesNext ==
    ASSUME NEW t \in Requests, \A u \in Requests : u # t => pc'[u] = "idle"
    PROVE  \A i : Saving(i)' <=> pc'[t] = "save" /\ job'[t].on = i
  BY DEF Saving

LEMMA FollowStep == ASSUME TypeOK, PlaceInv, HaltInv, FollowInv, [Next]_vars PROVE FollowInv'
<1> SUFFICES ASSUME seen' \cap {"overlap", "unknown", "midway"} = {} PROVE FollowParts'
  BY DEF FollowInv
<1>h. HaltParts /\ FollowParts
  BY SeenGrows DEF HaltInv, FollowInv
<1>p. Placed /\ OneEach /\ Targets
  BY DEF PlaceInv
<1>d. /\ inst \in [Instances -> Instance]
      /\ scope \in [Registries -> Keys \cup {"none"}]
      /\ rows \in [Keys -> [Names -> States \cup {"none"}]]
      /\ account \in Keys /\ registry \in Registries \cup {None}
      /\ \A t \in Requests : job[t] \in Job
  BY DEF TypeOK
<1>n. "none" \notin Keys /\ None \notin Registries
  BY NothingIsNone
<1>o. /\ account = login /\ (registry # None => scope[registry] = account)
      /\ \A i \in Instances : Live(i) /\ inst[i].reg = registry => Member(i)
  BY <1>h DEF FollowParts
<1> USE DEF connection, objects, threads
<1>1. ASSUME NEW t \in Requests, Request(t) PROVE FollowParts'
  <2>1. ASSUME NEW j, Arrive(t, j), j.act = "create" => j.account = account PROVE FollowParts'
    <3>1. /\ \A u \in Requests : pc[u] = "idle"
          /\ pc'[t] = "access" /\ job'[t] = j /\ \A u \in Requests : u # t => pc'[u] = "idle"
          /\ UNCHANGED <<login, account, registry, scope, inst, rows>>
      BY <2>1, SufferKeeps, GoMoves DEF Arrive, Busy
    <3>2. \A i : ~Saving(i) /\ ~Writing(i)
      BY <3>1 DEF Saving, Writing
    <3>3. \A i \in Instances : Live(i) /\ inst[i].reg = registry => Member(i)'
      BY <1>o, <3>1, <3>2 DEF Member, KeyOf
    <3> QED BY <1>o, <2>1, <3>1, <3>3, FollowsOfOne DEF Working, Live
  <2>2. ASSUME NEW n \in Names, Create(t, n) PROVE FollowParts'
    <3> DEFINE j == [NoJob EXCEPT !.act = "create", !.name = n, !.account = account]
    <3>1. Arrive(t, j)
      BY <2>2 DEF Create
    <3>2. j.account = account
      BY DEF NoJob
    <3> HIDE DEF j
    <3> QED BY <2>1, <3>1, <3>2
  <2>3. ASSUME NEW n \in Names, NEW a \in {"start", "stop"},
               Arrive(t, [NoJob EXCEPT !.act = a, !.name = n]) PROVE FollowParts'
    <3> DEFINE j == [NoJob EXCEPT !.act = a, !.name = n]
    <3>1. j.act # "create"
      BY DEF NoJob
    <3>2. Arrive(t, j)
      BY <2>3
    <3> HIDE DEF j
    <3> QED BY <2>1, <3>1, <3>2
  <2>4. NoJob.act # "create"
    BY DEF NoJob
  <2>5. ASSUME Halt(t) PROVE FollowParts'
    BY <2>1, <2>4, <2>5 DEF Halt
  <2>6. ASSUME NEW n \in Names, Start(t, n) \/ Stop(t, n) PROVE FollowParts'
    BY <2>3, <2>6 DEF Start, Stop
  <2> QED BY <1>1, <2>2, <2>5, <2>6 DEF Request
\* Steps that leave the objects and the table alone, outside a write.
<1>2. ASSUME NEW t \in Requests, LoadFails(t) \/ Refuse(t) \/ Find(t) \/ Access(t)
             \/ BeginStopAll(t) \/ EndStopAll(t)
      PROVE  FollowParts'
  <2>1. /\ pc[t] \in {"load", "act", "access", "next"}
        /\ pc'[t] \in {"idle", "access", "build", "act", "next"}
        /\ UNCHANGED <<login, account, registry, scope, inst, rows>>
        /\ \A u \in Requests : u # t => pc[u] = "idle" /\ pc'[u] = "idle"
    BY <1>2, <1>h, OneMoves DEF LoadFails, Refuse, Find, Access, BeginStopAll, EndStopAll
  <2>2. \A i : ~Saving(i) /\ ~Writing(i)
    BY <2>1, OneSaves, OneAtHand
  <2>3. \A i \in Instances : Live(i) /\ inst[i].reg = registry => Member(i)'
    BY <1>o, <2>1, <2>2 DEF Member, KeyOf
  <2>4. /\ pc'[t] # "idle" => job'[t].act = job[t].act /\ job'[t].account = job[t].account
        /\ pc'[t] = "act" => registry # None /\ job'[t].reg = registry
        /\ pc'[t] = "next" => pc[t] = "act" /\ job'[t].reg = job[t].reg
    <3>1. CASE LoadFails(t) \/ Refuse(t) \/ EndStopAll(t)
      BY <3>1, GoMoves DEF LoadFails, Refuse, EndStopAll
    <3>2. CASE Find(t)
      BY <1>d, <3>2, GoMoves DEF Find, Job
    <3>3. CASE Access(t)
      BY <1>d, <3>3, GoMoves DEF Access, Job
    <3>4. CASE BeginStopAll(t)
      BY <1>d, <3>4, GoMoves DEF BeginStopAll, Job
    <3> QED BY <1>2, <3>1, <3>2, <3>3, <3>4
  <2>5. /\ pc[t] = "act" => job[t].reg = registry /\ registry # None
        /\ job[t].act = "create" => job[t].account = account
    BY <1>h, <2>1 DEF FollowParts, Working
  <2> QED BY <1>o, <2>1, <2>3, <2>4, <2>5, FollowsOfOne DEF Working, Live
<1>3. ASSUME NEW t \in Requests, NEW r \in Registries, Build(t, r) PROVE FollowParts'
  <2>1. /\ pc[t] = "build" /\ pc'[t] = "load" /\ UNCHANGED <<login, account, inst>>
        /\ job'[t].act = job[t].act /\ job'[t].account = job[t].account
        /\ registry' = r /\ scope[r] = "none" /\ scope' = [scope EXCEPT ![r] = account]
        /\ \A u \in Requests : u # t => pc[u] = "idle" /\ pc'[u] = "idle"
    BY <1>3, <1>d, <1>h, OneMoves DEF Build, Unbuilt, Job
  <2>2. \A i \in Instances : Live(i) => inst[i].reg # r
    BY <1>p, <1>n, <2>1 DEF Placed
  <2>3. job[t].act = "create" => job[t].account = account
    BY <1>h, <2>1 DEF FollowParts
  <2> QED BY <1>d, <1>n, <1>o, <2>1, <2>2, <2>3, FollowsOfOne DEF Working, Live
<1>4. ASSUME NEW t \in Requests, Load(t) PROVE FollowParts'
  <2>1. /\ pc[t] = "load" /\ pc'[t] = "act" /\ registry \in Registries
        /\ job'[t].reg = registry /\ job'[t].act = job[t].act /\ job'[t].account = job[t].account
        /\ UNCHANGED <<login, account, registry, scope, rows>>
        /\ \A u \in Requests : u # t => pc[u] = "idle" /\ pc'[u] = "idle"
    BY <1>4, <1>d, <1>h, OneMoves DEF Load, Job
  <2>2. \A i \in Instances : Live(i) => inst[i].reg # registry
    BY <1>h, <2>1 DEF HaltParts, Fresh
  <2>3. \A i \in Instances : Live(i)' /\ inst'[i].reg = registry => Member(i)'
    <3> SUFFICES ASSUME NEW i \in Instances, Live(i)', inst'[i].reg = registry PROVE Member(i)'
      OBVIOUS
    <3>1. inst'[i] # inst[i]
      BY <2>2 DEF Live
    <3>2. PICK n \in Names : rows[scope[registry]][n] # "none" /\ inst'[i] = Restored(registry, n, i)
      BY <1>4, <3>1, LoadShape
    <3>3. /\ inst'[i].name = n /\ inst'[i].account = account
          /\ inst'[i].state = IF rows[account][n] = "RUNNING" THEN "RUNNING" ELSE "READY"
      BY <1>n, <1>o, <2>1, <3>2 DEF Restored
    <3> QED BY <1>n, <1>o, <2>1, <3>2, <3>3 DEF Member, KeyOf
  <2>4. job[t].act = "create" => job[t].account = account
    BY <1>h, <2>1 DEF FollowParts
  <2> QED BY <1>n, <1>o, <2>1, <2>3, <2>4, FollowsOfOne
<1>5. ASSUME NEW t \in Requests, NEW i \in Instances, Instantiate(t, i) PROVE FollowParts'
  <2>1. /\ pc[t] = "act" /\ pc'[t] = "save" /\ job[t].act = "create"
        /\ job'[t].reg = job[t].reg /\ job'[t].act = job[t].act /\ job'[t].account = job[t].account
        /\ job'[t].on = i
        /\ UNCHANGED <<login, account, registry, scope, rows>>
        /\ \A u \in Requests : u # t => pc[u] = "idle" /\ pc'[u] = "idle"
    BY <1>5, <1>d, <1>h, OneMoves DEF Instantiate, Job
  <2>2. /\ ~Live(i) /\ \A k \in Instances : k # i => inst'[k] = inst[k]
        /\ inst'[i].state = "READY" /\ inst'[i].name = job[t].name /\ inst'[i].reg = job[t].reg
        /\ inst'[i].account = job[t].account
        /\ \A k \in Instances : Live(k) /\ inst[k].reg = job[t].reg => inst[k].name # job[t].name
    BY <1>5, <1>d DEF Instantiate, Unused, Live, Named, Members
  <2>3. /\ job[t].reg = registry /\ registry \in Registries /\ job[t].account = account
        /\ job[t].name \in Names
    BY <1>d, <1>h, <1>p, <2>1 DEF FollowParts, Working, Targets
  <2>4. rows[account][job[t].name] = "none"
    <3>1. AtHand(registry) /\ \A u \in Requests : pc[u] # "load"
      BY <2>1 DEF AtHand
    <3> QED BY <1>h, <1>n, <1>o, <2>2, <2>3, <3>1 DEF HaltParts, Known
  <2>5. Member(i)'
    <3>1. KeyOf(i)' = account
      BY <1>n, <1>o, <2>1, <2>2, <2>3 DEF KeyOf
    <3>2. Saving(i)'
      BY <2>1 DEF Saving
    <3> QED BY <2>1, <2>2, <2>4, <3>1, <3>2 DEF Member
  <2>6. \A k : ~Saving(k) /\ ~Writing(k)
    BY <2>1, OneSaves, OneAtHand
  <2>7. ASSUME NEW k \in Instances, k # i, Live(k), inst[k].reg = registry PROVE Member(k)'
    BY <1>o, <2>1, <2>2, <2>6, <2>7 DEF Member, KeyOf
  <2>8. \A k \in Instances : Live(k)' /\ inst'[k].reg = registry => Member(k)'
    BY <2>2, <2>5, <2>7 DEF Live
  <2> QED BY <1>n, <1>o, <2>1, <2>3, <2>8, FollowsOfOne
<1>6. ASSUME NEW t \in Requests, SaveInstance(t) PROVE FollowParts'
  <2>1. /\ pc[t] = "save" /\ pc'[t] = "idle" /\ UNCHANGED <<login, account, registry, scope, inst>>
        /\ \A u \in Requests : u # t => pc[u] = "idle" /\ pc'[u] = "idle"
    BY <1>6, <1>h, OneMoves DEF SaveInstance
  <2> PICK i \in Instances : i = job[t].on
    BY <1>p, <2>1 DEF Targets
  <2>2. /\ Live(i) /\ inst[i].reg = registry /\ inst[i].name = job[t].name /\ inst[i].name \in Names
    BY <1>h, <1>p, <2>1 DEF Placed, Targets, FollowParts, Working
  <2>3. KeyOf(i) = account
    BY <1>o, <2>2 DEF Member
  <2>4. \A n \in Names :
           /\ rows'[account][n] = "RUNNING" <=> rows[account][n] = "RUNNING"
           /\ rows[account][n] # "none" => rows'[account][n] # "none"
           /\ n = inst[i].name => rows'[account][n] # "none"
    BY <1>6, <1>d, <2>2, <2>3 DEF SaveInstance, States
  <2>5. \A k : (Saving(k) => k = i) /\ ~Writing(k)
    BY <2>1, OneSaves, OneAtHand
  <2>6. ASSUME NEW k \in Instances, Live(k), inst[k].reg = registry PROVE Member(k)'
    <3>1. Member(k) /\ inst[k].name \in Names
      BY <1>o, <1>p, <2>6 DEF Placed
    <3> QED BY <2>1, <2>4, <2>5, <3>1 DEF Member, KeyOf
  <2> QED BY <1>o, <2>1, <2>6, FollowsOfOne DEF Live, Working
<1>7. ASSUME NEW t \in Requests, NEW i \in Instances, StartInstance(t, i) \/ StopInstance(t, i)
      PROVE  FollowParts'
  <2>1. /\ pc[t] \in {"act", "next"} /\ pc'[t] = "read"
        /\ UNCHANGED <<login, account, registry, scope, rows>>
        /\ \A u \in Requests : u # t => pc[u] = "idle" /\ pc'[u] = "idle"
    BY <1>7, <1>h, OneMoves DEF StartInstance, StopInstance
  <2>2. /\ job'[t].act = job[t].act /\ job'[t].reg = job[t].reg /\ job'[t].on = i
        /\ job[t].act # "create"
    <3>1. PICK j \in {[job[t] EXCEPT !.on = i], [job[t] EXCEPT !.on = i, !.todo = @ \ {i}]} :
           Go(t, "read", j)
      BY <1>7 DEF StartInstance, StopInstance
    <3>2. j.reg = job[t].reg /\ j.on = i /\ j.act = job[t].act
      BY <1>d, <3>1 DEF Job
    <3>3. job[t].act # "create"
      BY <1>7, <1>p DEF StartInstance, StopInstance, Targets
    <3> QED BY <3>1, <3>2, <3>3, GoMoves
  <2>3. Live(i)
    BY <1>7, <1>p DEF StartInstance, StopInstance, Targets, Named, Members, Live
  <2>4. \A k \in Instances : /\ k # i => inst'[k] = inst[k]
                             /\ inst'[k].name = inst[k].name /\ inst'[k].reg = inst[k].reg
                             /\ inst'[k].account = inst[k].account
                             /\ Live(k)' <=> Live(k)
    BY <1>7, <1>d, <2>3 DEF StartInstance, StopInstance, Instance, Live
  <2>5. \A k : ~Saving(k) /\ ~Writing(k)
    BY <2>1, OneSaves, OneAtHand
  <2>6. Writing(i)'
    BY <2>1, <2>2 DEF Writing
  <2>7. ASSUME NEW k \in Instances, Live(k), inst[k].reg = registry PROVE Member(k)'
    <3>1. Member(k)
      BY <1>o, <2>7
    <3> QED BY <2>1, <2>4, <2>5, <2>6, <3>1 DEF Member, KeyOf
  <2>8. registry # None /\ job[t].reg = registry
    BY <1>h, <2>1 DEF FollowParts, Working
  <2> QED BY <1>o, <2>1, <2>2, <2>4, <2>7, <2>8, FollowsOfOne
<1>8. ASSUME NEW t \in Requests, ReadState(t) PROVE FollowParts'
  <2>1. /\ pc[t] = "read" /\ pc'[t] = "write"
        /\ UNCHANGED <<login, account, registry, scope, inst, rows>>
        /\ \A u \in Requests : u # t => pc[u] = "idle" /\ pc'[u] = "idle"
    BY <1>8, <1>h, OneMoves DEF ReadState
  <2>2. /\ job'[t].act = job[t].act /\ job'[t].reg = job[t].reg /\ job'[t].on = job[t].on
        /\ job'[t].account = job[t].account /\ job'[t].value = inst[job[t].on].state
    <3>1. job'[t] = [job[t] EXCEPT !.value = inst[job[t].on].state]
      BY <1>8, GoMoves DEF ReadState
    <3> QED BY <1>d, <3>1 DEF Job
  <2>3. \A k : ~Saving(k) /\ (Writing(k) <=> k = job[t].on) /\ (Writing(k)' <=> k = job[t].on)
    BY <2>1, <2>2, OneSaves, OneAtHand, OneAtHandNext
  <2>4. \A k \in Instances : Live(k) /\ inst[k].reg = registry => Member(k)'
    BY <1>o, <2>1, <2>3 DEF Member, KeyOf
  <2>5. /\ registry # None /\ job[t].reg = registry
        /\ job[t].act = "create" => job[t].account = account
        /\ inst[job[t].on].state # "none"
    BY <1>h, <1>p, <2>1 DEF FollowParts, Working, Targets, Live
  <2> QED BY <1>o, <2>1, <2>2, <2>4, <2>5, FollowsOfOne DEF Live
<1>9. ASSUME NEW t \in Requests, WriteRow(t) PROVE FollowParts'
  <2>1. /\ pc[t] = "write" /\ pc'[t] \in {"idle", "next"}
        /\ UNCHANGED <<login, account, registry, scope, inst>>
        /\ \A u \in Requests : u # t => pc[u] = "idle" /\ pc'[u] = "idle"
    BY <1>9, <1>h, OneMoves DEF WriteRow
  <2>2. pc'[t] # "idle" => job'[t].act = job[t].act /\ job'[t].reg = job[t].reg
                           /\ job'[t].account = job[t].account
    <3> DEFINE j == [job[t] EXCEPT !.on = None, !.value = "none"]
    <3>1. PICK l \in {"next", "idle"} : Go(t, l, j)
      BY <1>9 DEF WriteRow
    <3>2. j.act = job[t].act /\ j.reg = job[t].reg /\ j.account = job[t].account
      BY <1>d DEF Job
    <3> HIDE DEF j
    <3> QED BY <3>1, <3>2, GoMoves
  <2> PICK i \in Instances : i = job[t].on
    BY <1>p, <2>1 DEF Targets
  <2>3. /\ Live(i) /\ inst[i].reg = registry /\ inst[i].name \in Names /\ registry # None
        /\ job[t].reg = registry /\ inst[i].state \in {job[t].value, "ERROR"}
        /\ job[t].act = "create" => job[t].account = account
    BY <1>h, <1>p, <2>1 DEF Placed, Targets, FollowParts, Working
  <2>4. \A k : ~Saving(k) /\ (Writing(k) <=> k = i)
    BY <2>1, OneSaves, OneAtHand
  <2>5. KeyOf(i) = account /\ rows[account][inst[i].name] # "none"
    BY <1>o, <2>3, <2>4 DEF Member
  <2>6. job[t].value # "none"
    BY <1>h, <2>1 DEF FollowParts
  <2>7. \A n \in Names :
           rows'[account][n] = IF n = inst[i].name THEN job[t].value ELSE rows[account][n]
    BY <1>9, <1>d, <2>5 DEF WriteRow
  <2>8. ASSUME NEW k \in Instances, Live(k), inst[k].reg = registry PROVE Member(k)'
    <3>1. Member(k) /\ inst[k].name \in Names
      BY <1>o, <1>p, <2>8 DEF Placed
    <3>2. k # i => inst[k].name # inst[i].name
      BY <1>p, <2>3, <2>8 DEF OneEach
    <3>3. KeyOf(k)' = account'
      BY <2>1, <3>1 DEF Member, KeyOf
    <3>4. CASE k = i
      BY <2>1, <2>3, <2>6, <2>7, <3>3, <3>4 DEF Member
    <3>5. CASE k # i
      BY <2>1, <2>4, <2>7, <3>1, <3>2, <3>3, <3>5 DEF Member
    <3> QED BY <3>4, <3>5
  <2> QED BY <1>o, <2>1, <2>2, <2>3, <2>8, FollowsOfOne DEF Live, Working
<1>10. ASSUME (\E a \in Accounts : Connect(a)) \/ Disconnect PROVE FollowParts'
  <2>1. ~Busy /\ registry' = None /\ account' = login' /\ UNCHANGED <<inst, pc, job>>
    BY <1>10, SufferKeeps DEF Connect, Disconnect, Moving
  <2> QED BY <1>n, <1>p, <2>1 DEF FollowParts, Busy, Working, Placed, Live
<1>11. ASSUME UpdateConnectedAccount PROVE FollowParts'
  BY <1>o, <1>11 DEF UpdateConnectedAccount
<1>12. ASSUME UNCHANGED vars PROVE FollowParts'
  BY <1>h, <1>12 DEF vars, FollowParts, Member, Saving, Writing, Live, KeyOf
<1>13. ASSUME NEW i \in Instances, Fail(i) PROVE FollowParts'
  <2>1. /\ UNCHANGED <<login, account, registry, scope, rows, pc, job>>
        /\ Live(i) /\ inst'[i].state = "ERROR"
        /\ \A k \in Instances : k # i => inst'[k] = inst[k]
    BY <1>13, <1>d DEF Fail, Running, Instance, Live
  <2>2. \A k \in Instances : /\ inst'[k].name = inst[k].name /\ inst'[k].reg = inst[k].reg
                             /\ inst'[k].account = inst[k].account
                             /\ Live(k)' <=> Live(k)
    BY <1>13, <1>d DEF Fail, Running, Instance, Live
  <2>3. \A k : (Saving(k)' <=> Saving(k)) /\ (Writing(k)' <=> Writing(k))
    BY <2>1 DEF Saving, Writing
  <2>4. ASSUME NEW k \in Instances, Live(k), inst[k].reg = registry PROVE Member(k)'
    <3>1. Member(k)
      BY <1>o, <2>4
    <3> QED BY <2>1, <2>2, <2>3, <3>1 DEF Member, KeyOf
  <2>5. \A t \in Requests : pc[t] = "write" =>
           job[t].value # "none" /\ inst'[job[t].on].state \in {job[t].value, "ERROR"}
    BY <1>h, <1>p, <2>1 DEF FollowParts, Targets
  <2>6. \A k \in Instances : Live(k)' /\ inst'[k].reg = registry' => Member(k)'
    BY <2>1, <2>2, <2>4
  <2> QED BY <1>h, <2>1, <2>5, <2>6 DEF FollowParts
<1>14. ASSUME Restart PROVE FollowParts'
  BY <1>14 DEF Restart, FollowParts, NoInstance, Working, Live
<1> QED BY <1>1, <1>2, <1>3, <1>4, <1>5, <1>6, <1>7, <1>8, <1>9, <1>10, <1>11, <1>12, <1>13, <1>14
       DEF Next, Continue

LEMMA FollowInit == Init => FollowInv
  BY DEF Init, NoInstance, FollowInv, FollowParts, Working, Live

(* Between requests the table says RUNNING of a strategy of the registry    *)
(* just when it runs, or has failed: a restart brings back what was running *)
(* (load_persisted_strategies, update_instance_running_state).              *)
THEOREM TableFollows == Spec => []RowsFollow
<1>1. TypeOK /\ PlaceInv /\ HaltInv /\ FollowInv /\ [Next]_vars =>
         TypeOK' /\ PlaceInv' /\ HaltInv' /\ FollowInv'
  BY TypeStep, PlaceStep, HaltStep, FollowStep
<1>2. FollowInv => RowsFollow
  BY DEF FollowInv, FollowParts, Member, RowsFollow, Members, Live, Writing, Busy
<1> QED BY <1>1, <1>2, TypeInit, HaltInit, FollowInit, PTL DEF Spec

=============================================================================
