-------------------------- MODULE TaskSchedProofs --------------------------
(***************************************************************************)
(* Proofs about the tasks of the secure world: SchedInv of TaskSched is    *)
(* inductive for every set of task ids, and the scheduler's safety         *)
(* properties follow from it; WorldInv of WorldSwitch is inductive for     *)
(* every number of services and of calls, and Linux gets the answer to the *)
(* call it made.                                                           *)
(***************************************************************************)
EXTENDS TaskSched, WorldSwitch, ListLemmas

----------------------------------------------------------------------------
(* The operators the model is built from.                                  *)

\* get_next_asid_val returns a free id whenever there is one.
LEMMA FreeId ==
    ASSUME pool \subseteq Id, pool # Id
    PROVE  get_next_asid_val \in Id \ pool
<1> DEFINE S == Id \ pool
<1>1. S \subseteq Nat /\ S # {}
  BY IdAssumption
<1>2. \E x \in S : \A y \in S : ~(<<y, x>> \in OpToRel(<, Nat))
  BY <1>1, WFMin, NatLessThanWellFounded
<1>3. PICK x \in S : \A y \in S : ~(<<y, x>> \in OpToRel(<, Nat))
  BY <1>2
<1>4. ASSUME NEW y \in S PROVE x =< y
  <2>1. x \in Nat /\ y \in Nat
    BY <1>1
  <2>2. y < x => <<y, x>> \in OpToRel(<, Nat)
    BY <2>1 DEF OpToRel
  <2>3. ~(y < x)
    BY <1>3, <2>2
  <2> QED
    BY <2>1, <2>3
<1> QED
  BY <1>4 DEF get_next_asid_val, Min

\* schedule_task keeps the list free of duplicates, adds exactly the task,
\* and never puts it before anything.
LEMMA ScheduleTaskFacts ==
    ASSUME NEW r \in Seq(Id), NEW t \in Id, IsInjective(r)
    PROVE  /\ schedule_task(r, t) \in Seq(Id)
           /\ IsInjective(schedule_task(r, t))
           /\ Range(schedule_task(r, t)) = Range(r) \cup {t}
           /\ \A a \in Range(r), b \in Id :
                  Before(r, a, b) => Before(schedule_task(r, t), a, b)
<1>1. CASE t \in Range(r)
  BY <1>1 DEF schedule_task
<1>2. CASE t \notin Range(r)
  <2> DEFINE s == Append(r, t)
  <2>1. s \in Seq(Id) /\ DOMAIN s = 1 .. (Len(r) + 1) /\ DOMAIN r = 1 .. Len(r)
        /\ Len(r) \in Nat
    OBVIOUS
  <2>2. \A i \in DOMAIN r : s[i] = r[i]
    OBVIOUS
  <2>3. s[Len(r) + 1] = t
    OBVIOUS
  <2>4. IsInjective(s)
    BY <1>2, <2>1, <2>2, <2>3 DEF IsInjective, Range
  <2>5. Range(s) = Range(r) \cup {t}
    BY <2>1, <2>2, <2>3 DEF Range
  <2>6. ASSUME NEW a \in Range(r), NEW b \in Id, Before(r, a, b)
        PROVE  Before(s, a, b)
    <3>1. PICK k \in DOMAIN r : r[k] = a
      BY DEF Range
    <3>2. SUFFICES ASSUME NEW i \in DOMAIN s, s[i] = b
                   PROVE  \E j \in DOMAIN s : j < i /\ s[j] = a
      BY DEF Before
    <3>3. CASE i \in DOMAIN r
      BY <2>1, <2>2, <2>6, <3>2, <3>3 DEF Before
    <3>4. CASE i = Len(r) + 1
      BY <2>1, <2>2, <3>1, <3>4
    <3> QED
      BY <2>1, <3>3, <3>4
  <2> QED
    BY <1>2, <2>1, <2>4, <2>5, <2>6 DEF schedule_task
<1> QED
  BY <1>1, <1>2

\* schedule_task_next is safe exactly when the task is not linked.
LEMMA ScheduleNextFacts ==
    ASSUME NEW r \in Seq(Id), NEW t \in Id, IsInjective(r), t \notin Range(r)
    PROVE  /\ schedule_task_next(r, t) \in Seq(Id)
           /\ IsInjective(schedule_task_next(r, t))
           /\ Range(schedule_task_next(r, t)) = Range(r) \cup {t}
<1> DEFINE s == <<t>> \o r
<1>1. s \in Seq(Id) /\ DOMAIN s = 1 .. (Len(r) + 1) /\ DOMAIN r = 1 .. Len(r)
      /\ Len(r) \in Nat
  OBVIOUS
<1>2. s[1] = t
  OBVIOUS
<1>3. \A i \in 2 .. (Len(r) + 1) : s[i] = r[i - 1]
  OBVIOUS
<1>4. IsInjective(s)
  BY <1>1, <1>2, <1>3 DEF IsInjective, Range
<1>5. Range(s) \subseteq Range(r) \cup {t}
  BY <1>1, <1>2, <1>3 DEF Range
<1>6. ASSUME NEW i \in DOMAIN r PROVE r[i] \in Range(s)
  <2>1. i + 1 \in DOMAIN s /\ s[i + 1] = r[i]
    BY <1>1, <1>3
  <2> QED
    BY <2>1 DEF Range
<1>7. t \in Range(s)
  BY <1>1, <1>2 DEF Range
<1> QED
  BY <1>1, <1>4, <1>5, <1>6, <1>7 DEF schedule_task_next, Range

\* Popping the head.
LEMMA TailFacts ==
    ASSUME NEW r \in Seq(Id), IsInjective(r), r # <<>>
    PROVE  /\ Tail(r) \in Seq(Id)
           /\ IsInjective(Tail(r))
           /\ Head(r) \in Range(r)
           /\ Range(Tail(r)) = Range(r) \ {Head(r)}
<1> DEFINE s == Tail(r)
<1>1. s \in Seq(Id) /\ Len(r) \in Nat \ {0} /\ DOMAIN r = 1 .. Len(r)
      /\ DOMAIN s = 1 .. (Len(r) - 1)
  OBVIOUS
<1>2. Head(r) = r[1]
  OBVIOUS
<1>3. \A i \in DOMAIN s : s[i] = r[i + 1]
  OBVIOUS
<1>4. IsInjective(s)
  BY <1>1, <1>3 DEF IsInjective
<1>5. Range(s) \subseteq Range(r) \ {Head(r)}
  BY <1>1, <1>2, <1>3 DEF Range, IsInjective
<1>6. ASSUME NEW i \in DOMAIN r, r[i] # Head(r) PROVE r[i] \in Range(s)
  <2>1. i - 1 \in DOMAIN s /\ s[i - 1] = r[i]
    BY <1>1, <1>2, <1>3, <1>6
  <2> QED
    BY <2>1 DEF Range
<1>7. Head(r) \in Range(r)
  BY <1>1, <1>2 DEF Range
<1> QED
  BY <1>1, <1>4, <1>5, <1>6, <1>7 DEF Range

\* Unlinking a ready node.
LEMMA UnreadyFacts ==
    ASSUME NEW r \in Seq(Id), NEW t \in Id, IsInjective(r)
    PROVE  /\ unready(r, t) \in Seq(Id)
           /\ IsInjective(unready(r, t))
           /\ Range(unready(r, t)) = Range(r) \ {t}
<1>1. CASE t \notin Range(r)
  BY <1>1 DEF unready
<1>2. CASE t \in Range(r)
  <2> DEFINE i == CHOOSE k \in DOMAIN r : r[k] = t
             s == [j \in 1 .. (Len(r) - 1) |-> IF j < i THEN r[j] ELSE r[j + 1]]
  <2>1. i \in DOMAIN r /\ r[i] = t
    BY <1>2 DEF Range
  <2> HIDE DEF i
  <2>2. Len(r) \in Nat /\ DOMAIN r = 1 .. Len(r) /\ i \in 1 .. Len(r)
    BY <2>1
  <2>3. s \in Seq(Id)
    BY <2>2
  <2>4. IsInjective(s)
    BY <2>1, <2>2 DEF IsInjective
  <2>5. Range(s) \subseteq Range(r) \ {t}
    BY <2>1, <2>2 DEF Range, IsInjective
  <2>6. ASSUME NEW k \in DOMAIN r, r[k] # t PROVE r[k] \in Range(s)
    <3>1. CASE k < i
      <4>1. k \in DOMAIN s /\ s[k] = r[k]
        BY <2>2, <3>1
      <4> QED
        BY <4>1 DEF Range
    <3>2. CASE k > i
      <4>1. k - 1 \in DOMAIN s /\ s[k - 1] = r[k]
        BY <2>2, <3>2
      <4> QED
        BY <4>1 DEF Range
    <3> QED
      BY <2>1, <2>2, <2>6, <3>1, <3>2
  <2>7. unready(r, t) = s
    BY <1>2 DEF unready, i
  <2> HIDE DEF s
  <2>8. Range(r) \ {t} \subseteq Range(s)
    BY <2>6 DEF Range
  <2> QED
    BY <2>3, <2>4, <2>5, <2>7, <2>8
<1> QED
  BY <1>1, <1>2

\* Before says nothing of a task that is not linked, and forbids the head.
LEMMA BeforeFacts ==
    ASSUME NEW r \in Seq(Id), NEW a \in Id, NEW b \in Id
    PROVE  /\ b \notin Range(r) => Before(r, a, b)
           /\ r # <<>> /\ Before(r, a, b) => Head(r) # b
<1>1. ASSUME b \notin Range(r) PROVE Before(r, a, b)
  BY <1>1 DEF Before, Range
<1>2. ASSUME r # <<>>, Before(r, a, b) PROVE Head(r) # b
  <2>1. 1 \in DOMAIN r /\ Head(r) = r[1] /\ DOMAIN r \subseteq Nat \ {0}
    BY <1>2
  <2> QED
    BY <1>2, <2>1 DEF Before
<1> QED
  BY <1>1, <1>2

----------------------------------------------------------------------------
(* Steps that several actions share.                                       *)

\* schedule_task_id on any task but the dispatcher, from the core or a FIQ.
LEMMA WakePreserves ==
    ASSUME SchedInv, NEW x \in Id \ {Disp}, schedule_task_id(x),
           UNCHANGED <<listVars, current, cpu, phase, next, asyncQ, fault>>,
           armed' \subseteq armed
    PROVE  SchedInv'
<1> USE DEF SchedInv, listVars
<1>1. CASE x \notin tasks
  <2>1. UNCHANGED <<state, ready>>
    BY <1>1 DEF schedule_task_id
  <2> QED
    BY <2>1 DEF TypeOK, IdsOwned, ReadyWellFormed, NoTaskLost,
                DispatcherQueued, CurrentFollowsCpu, ChosenIsAnother, Blocked
<1>2. CASE x \in tasks
  <2>1. state' = [state EXCEPT ![x] = "READY"] /\ ready' = schedule_task(ready, x)
    BY <1>2 DEF schedule_task_id
  <2>2. /\ ready' \in Seq(Id) /\ IsInjective(ready')
        /\ Range(ready') = Range(ready) \cup {x}
        /\ \A a \in Range(ready), b \in Id :
              Before(ready, a, b) => Before(ready', a, b)
    BY <2>1, ScheduleTaskFacts DEF TypeOK, ReadyWellFormed
  <2>3. /\ state' \in [Id -> States] /\ state'[x] = "READY"
        /\ \A t \in Id \ {x} : state'[t] = state[t]
    BY <2>1 DEF TypeOK, States
  <2>4. TypeOK'
    BY <2>2, <2>3 DEF TypeOK
  <2>5. IdsOwned' /\ ReadyWellFormed'
    BY <1>2, <2>2 DEF IdsOwned, ReadyWellFormed
  <2>6. NoTaskLost'
    BY <2>2, <2>3 DEF NoTaskLost, TypeOK
  <2>7. DispatcherQueued'
    BY <2>2, <2>3, IdAssumption DEF DispatcherQueued, ChosenIsAnother, TypeOK
  <2>8. CurrentFollowsCpu'
    BY <2>2, <2>3 DEF CurrentFollowsCpu, Blocked, TypeOK
  <2>9. ChosenIsAnother'
    BY <2>2, <2>3 DEF ChosenIsAnother, Blocked, TypeOK
  <2> QED
    BY <2>4, <2>5, <2>6, <2>7, <2>8, <2>9
<1> QED
  BY <1>1, <1>2

\* The task on the core marks itself waiting or suspended and goes on to
\* give the core up.
LEMMA BlockPreserves ==
    ASSUME SchedInv, cpu # Disp, phase \in {"run", "suspend"},
           NEW s \in {"WAIT", "SUSPEND"}, suspend_task(cpu, s),
           UNCHANGED <<pool, tasks, ready, cpu, next, fault>>,
           phase' \in {"sched", "waited"},
           armed' \subseteq armed \cup {cpu}, asyncQ' \subseteq asyncQ \cup {cpu},
           waiter' \in [Id -> Id \cup {None}],
           \A x \in Id : waiter'[x] \in {waiter[x], cpu},
           looped' \subseteq Id
    PROVE  SchedInv'
<1> USE DEF SchedInv
<1>1. /\ cpu \in tasks /\ cpu \in Id /\ current = cpu
      /\ phase' \in Phases \ {"switch", "run", "suspend"}
  BY DEF CurrentFollowsCpu, TypeOK, Phases
<1>2. /\ state' \in [Id -> States] /\ state'[cpu] = s
      /\ \A t \in Id \ {cpu} : state'[t] = state[t]
      /\ current' \in {cpu, None}
  BY <1>1 DEF suspend_task, TypeOK, States
<1>3. TypeOK'
  BY <1>1, <1>2 DEF TypeOK, Phases
<1>4. IdsOwned' /\ ReadyWellFormed'
  BY DEF IdsOwned, ReadyWellFormed
<1>5. NoTaskLost'
  BY <1>1, <1>2 DEF NoTaskLost, TypeOK
<1>6. DispatcherQueued'
  BY <1>1, <1>2, IdAssumption DEF DispatcherQueued, TypeOK
<1>7. CurrentFollowsCpu'
  BY <1>1, <1>2 DEF CurrentFollowsCpu, Blocked
<1>8. ChosenIsAnother'
  BY <1>1 DEF ChosenIsAnother
<1> QED
  BY <1>3, <1>4, <1>5, <1>6, <1>7, <1>8

\* Steps that touch neither the scheduler's state nor the task list, except
\* that ids may become taken and the running task may reach the scheduler.
LEMMA QuietPreserves ==
    ASSUME SchedInv,
           UNCHANGED <<tasks, state, ready, current, cpu, next, waiter, looped>>,
           pool \subseteq pool', pool' \subseteq Id, fault' \in Faults,
           armed' \subseteq armed \cup {cpu}, armed' # armed => cpu # Disp,
           asyncQ' \subseteq asyncQ,
           \/ phase' = phase
           \/ phase \in {"run", "waited"} /\ phase' = "sched"
           \/ phase = "run" /\ phase' = "suspend" /\ cpu # Disp
    PROVE  SchedInv'
<1> USE DEF SchedInv
<1>1. TypeOK'
  BY DEF TypeOK, Phases
<1>2. IdsOwned' /\ ReadyWellFormed' /\ NoTaskLost'
  BY DEF IdsOwned, ReadyWellFormed, NoTaskLost
<1>3. DispatcherQueued'
  BY DEF DispatcherQueued
<1>4. CurrentFollowsCpu'
  BY DEF CurrentFollowsCpu, Blocked
<1>5. ChosenIsAnother'
  BY DEF ChosenIsAnother, Blocked
<1> QED
  BY <1>1, <1>2, <1>3, <1>4, <1>5

----------------------------------------------------------------------------
(* The inductive invariant.                                                *)

\* The state run_init_tasks leaves behind satisfies it.
LEMMA InitSched == Init => SchedInv
<1> SUFFICES ASSUME Init PROVE SchedInv
  OBVIOUS
<1> USE DEF Init
<1>1. ready \in Seq(Id) /\ Range(ready) = {Shell} /\ IsInjective(ready)
  BY IdAssumption DEF Range, IsInjective
<1>2. TypeOK
  BY <1>1, IdAssumption DEF TypeOK, States, Phases, Faults
<1>3. IdsOwned /\ ReadyWellFormed /\ NoTaskLost
  BY <1>1, IdAssumption DEF IdsOwned, ReadyWellFormed, NoTaskLost
<1>4. DispatcherQueued
  BY <1>1, IdAssumption DEF DispatcherQueued, None
<1>5. CurrentFollowsCpu /\ ChosenIsAnother
  BY IdAssumption DEF CurrentFollowsCpu, ChosenIsAnother, Blocked, None
<1> QED
  BY <1>2, <1>3, <1>4, <1>5 DEF SchedInv

\* get_next_task: the dispatcher is ahead of the task giving up the core, so
\* there is a head and it is another task.
LEMMA GetNextPreserves ==
    ASSUME SchedInv, GetNextTask
    PROVE  SchedInv'
<1> USE DEF SchedInv
<1>1. /\ phase = "sched" /\ phase' = "switch" /\ get_next_task
      /\ UNCHANGED <<pool, tasks, waiter, looped, state, current, cpu, armed,
                     asyncQ, fault>>
  BY DEF GetNextTask, listVars
<1>2. /\ ready \in Seq(Id) /\ IsInjective(ready) /\ Range(ready) \subseteq tasks
      /\ cpu \in tasks /\ tasks \subseteq Id /\ None \notin Id
      /\ current \in {cpu, None} /\ Disp \in Id /\ ~Blocked(Disp)
  BY IdAssumption DEF TypeOK, ReadyWellFormed, CurrentFollowsCpu, None,
     DispatcherQueued, Blocked
<1>3. IF cpu = Disp THEN Disp \notin Range(ready) /\ current = Disp
      ELSE Disp \in Range(ready) /\ Before(ready, Disp, cpu)
  BY <1>1 DEF DispatcherQueued, CurrentFollowsCpu
<1>4. CASE ready = <<>>
  <2>1. Range(ready) = {}
    BY <1>4 DEF Range
  <2>2. cpu = Disp /\ current = Disp
    BY <1>3, <2>1
  <2>3. next' = Disp /\ ready' = ready
    BY <1>1, <1>2, <1>4, <2>2 DEF get_next_task, get_current_task
  <2>4. TypeOK' /\ IdsOwned' /\ ReadyWellFormed'
    BY <1>1, <1>2, <2>3 DEF TypeOK, IdsOwned, ReadyWellFormed, Phases
  <2>5. NoTaskLost'
    BY <1>1, <1>2, <2>3 DEF NoTaskLost, ChosenIsAnother
  <2>6. DispatcherQueued'
    BY <1>1, <1>3, <2>2, <2>3 DEF DispatcherQueued
  <2>7. CurrentFollowsCpu' /\ ChosenIsAnother'
    BY <1>1, <1>2, <2>2, <2>3 DEF CurrentFollowsCpu, ChosenIsAnother, Blocked
  <2> QED
    BY <2>4, <2>5, <2>6, <2>7
<1>5. CASE ready # <<>>
  <2> DEFINE runs == current = cpu /\ ~Blocked(cpu)
  <2>1. /\ next' = Head(ready)
        /\ ready' = IF runs THEN schedule_task(Tail(ready), cpu) ELSE Tail(ready)
    BY <1>1, <1>2, <1>5 DEF get_next_task, get_current_task
  <2>2. /\ Tail(ready) \in Seq(Id) /\ IsInjective(Tail(ready))
        /\ Head(ready) \in Range(ready)
        /\ Range(Tail(ready)) = Range(ready) \ {Head(ready)}
    BY <1>2, <1>5, TailFacts
  <2>3. Head(ready) # cpu
    BY <1>2, <1>3, <1>5, <2>2, BeforeFacts
  <2>4. /\ ready' \in Seq(Id) /\ IsInjective(ready')
        /\ Range(ready') = IF runs THEN Range(Tail(ready)) \cup {cpu}
                           ELSE Range(Tail(ready))
    BY <1>2, <2>1, <2>2, ScheduleTaskFacts
  <2>5. next' \notin Range(ready') /\ next' \in tasks /\ next' # cpu
    BY <1>2, <2>1, <2>2, <2>3, <2>4
  <2>6. Before(ready', Disp, next')
    BY <1>2, <2>4, <2>5, BeforeFacts
  <2>7. TypeOK'
    BY <1>1, <1>2, <2>4, <2>5 DEF TypeOK, Phases
  <2>8. IdsOwned' /\ ReadyWellFormed'
    BY <1>1, <1>2, <2>2, <2>4 DEF IdsOwned, ReadyWellFormed
  <2>9. NoTaskLost'
    BY <1>1, <1>2, <2>1, <2>2, <2>4 DEF NoTaskLost, ChosenIsAnother
  <2>10. next' # Disp => Disp \in Range(ready')
    BY <1>2, <1>3, <2>1, <2>2, <2>4
  <2>11. DispatcherQueued'
    BY <1>1, <2>5, <2>6, <2>10 DEF DispatcherQueued
  <2>12. current = None => Blocked(cpu) \/ cpu \in Range(ready')
    BY <1>2, <2>2, <2>3, <2>4 DEF CurrentFollowsCpu
  <2>13. CurrentFollowsCpu'
    BY <1>1, <2>12 DEF CurrentFollowsCpu, Blocked
  <2>14. Blocked(cpu) \/ cpu \in Range(ready')
    BY <1>2, <2>4, <2>12
  <2>15. ChosenIsAnother'
    BY <1>1, <2>5, <2>14 DEF ChosenIsAnother, Blocked
  <2> QED
    BY <2>7, <2>8, <2>9, <2>11, <2>13, <2>15
<1> QED
  BY <1>4, <1>5

\* The rest of scheduler().
LEMMA SwitchPreserves ==
    ASSUME SchedInv, SwitchTo
    PROVE  SchedInv'
<1> USE DEF SchedInv
<1>1. /\ phase = "switch" /\ phase' = "run" /\ next' = None
      /\ UNCHANGED <<pool, tasks, waiter, looped, ready, armed, asyncQ, fault>>
  BY DEF SwitchTo, listVars
<1>2. /\ next \in tasks /\ cpu \in tasks /\ tasks \subseteq Id /\ None \notin Id
      /\ current \in {cpu, None} /\ (next = cpu => cpu = Disp)
      /\ Blocked(cpu) \/ cpu \in Range(ready) \cup {next}
  BY <1>1, IdAssumption DEF ChosenIsAnother, CurrentFollowsCpu, TypeOK, None
<1>3. CASE next # get_current_task
  <2>1. /\ state' = [state EXCEPT ![next] = "RUNNING"]
        /\ current' = next /\ cpu' = next
    BY <1>2, <1>3 DEF SwitchTo
  <2>2. /\ state' \in [Id -> States] /\ state'[next] = "RUNNING"
        /\ \A t \in Id \ {next} : state'[t] = state[t]
    BY <1>2, <2>1 DEF TypeOK, States
  <2>3. TypeOK' /\ IdsOwned' /\ ReadyWellFormed'
    BY <1>1, <1>2, <2>1, <2>2 DEF TypeOK, IdsOwned, ReadyWellFormed, Phases
  <2>4. NoTaskLost'
    BY <1>1, <1>2, <2>1, <2>2 DEF NoTaskLost, Blocked
  <2>5. DispatcherQueued'
    BY <1>1, <1>2, <2>1, <2>2 DEF DispatcherQueued
  <2>6. CurrentFollowsCpu' /\ ChosenIsAnother'
    BY <1>1, <1>2, <2>1, <2>2 DEF CurrentFollowsCpu, ChosenIsAnother, Blocked
  <2> QED
    BY <2>3, <2>4, <2>5, <2>6
<1>4. CASE next = get_current_task
  <2>1. UNCHANGED <<state, current, cpu>>
    BY <1>4 DEF SwitchTo
  <2>2. current = cpu /\ next = cpu /\ cpu = Disp
    BY <1>2, <1>4 DEF get_current_task
  <2>3. TypeOK' /\ IdsOwned' /\ ReadyWellFormed' /\ NoTaskLost'
    BY <1>1, <2>1, <2>2 DEF TypeOK, IdsOwned, ReadyWellFormed, NoTaskLost, Phases
  <2>4. DispatcherQueued'
    BY <1>1, <2>1, <2>2 DEF DispatcherQueued
  <2>5. CurrentFollowsCpu' /\ ChosenIsAnother'
    BY <1>1, <1>2, <2>1, <2>2 DEF CurrentFollowsCpu, ChosenIsAnother, Blocked,
       DispatcherQueued
  <2> QED
    BY <2>3, <2>4, <2>5
<1> QED
  BY <1>3, <1>4

\* The dispatcher's own steps.  It holds the core and is not linked, so
\* linking another task at either end cannot put it out of reach.
LEMMA DispatcherPreserves ==
    ASSUME SchedInv, DispatcherStep
    PROVE  SchedInv'
<1> USE DEF SchedInv
<1>1. /\ cpu = Disp /\ current = Disp /\ phase = "run" /\ next = None
      /\ Disp \notin Range(ready) /\ fault = "none" /\ pool \subseteq Id
      /\ Disp \in Id /\ Shell \in Id /\ Disp # Shell /\ None \notin Id
      /\ ready \in Seq(Id) /\ IsInjective(ready) /\ Range(ready) \subseteq tasks
      /\ tasks \subseteq Id
  BY IdAssumption DEF DispatcherStep, NoFreeId, CreateTask, CreateRefused,
     StartTask, DestroyTask, ResumeAsync, Dispatching, Live, TypeOK, None,
     DispatcherQueued, CurrentFollowsCpu, ChosenIsAnother, ReadyWellFormed
<1>2. ASSUME NEW why \in Faults, Fail(why) PROVE SchedInv'
  BY <1>2, QuietPreserves DEF Fail, TypeOK
<1>3. CASE NoFreeId
  BY <1>2, <1>3 DEF NoFreeId, Faults
<1>4. CASE CreateRefused
  <2>1. get_next_asid_val \in Id \ pool
    BY <1>1, <1>4, FreeId DEF CreateRefused
  <2> QED
    BY <1>1, <1>4, <2>1, QuietPreserves DEF CreateRefused, Faults
<1>5. CASE CreateTask
  <2> DEFINE t == get_next_asid_val
  <2>1. t \in Id \ pool
    BY <1>1, <1>5, FreeId DEF CreateTask
  <2> HIDE DEF t
  <2>2. t # Disp
    BY <2>1 DEF IdsOwned, DispatcherQueued
  <2>3. /\ pool' = pool \cup {t} /\ tasks' = tasks \cup {t}
        /\ state' = [state EXCEPT ![t] = "SUSPEND"]
        /\ UNCHANGED <<waiter, looped, ready, current, cpu, phase, next, armed,
                       asyncQ, fault>>
    BY <1>5 DEF CreateTask, t
  <2>4. /\ state' \in [Id -> States] /\ state'[t] = "SUSPEND"
        /\ \A u \in Id \ {t} : state'[u] = state[u]
    BY <2>1, <2>3 DEF TypeOK, States
  <2>5. TypeOK' /\ IdsOwned' /\ ReadyWellFormed'
    BY <2>1, <2>3, <2>4 DEF TypeOK, IdsOwned, ReadyWellFormed
  <2>6. NoTaskLost'
    BY <1>1, <2>3, <2>4 DEF NoTaskLost
  <2>7. DispatcherQueued'
    BY <1>1, <2>2, <2>3, <2>4 DEF DispatcherQueued
  <2>8. CurrentFollowsCpu' /\ ChosenIsAnother'
    BY <1>1, <2>2, <2>3, <2>4 DEF CurrentFollowsCpu, ChosenIsAnother, Blocked
  <2> QED
    BY <2>5, <2>6, <2>7, <2>8
<1>6. ASSUME NEW x \in Id, StartTask(x) PROVE SchedInv'
  <2>1. /\ x \in tasks /\ x # Disp /\ ready' = schedule_task(ready, x)
        /\ UNCHANGED <<pool, tasks, waiter, looped, state, current, cpu, phase,
                       next, armed, asyncQ, fault>>
    BY <1>6 DEF StartTask, Sessions, listVars
  <2>2. /\ ready' \in Seq(Id) /\ IsInjective(ready')
        /\ Range(ready') = Range(ready) \cup {x}
    BY <1>1, <2>1, ScheduleTaskFacts
  <2>3. TypeOK' /\ IdsOwned' /\ ReadyWellFormed' /\ NoTaskLost'
    BY <2>1, <2>2 DEF TypeOK, IdsOwned, ReadyWellFormed, NoTaskLost
  <2>4. DispatcherQueued'
    BY <1>1, <2>1, <2>2 DEF DispatcherQueued
  <2>5. CurrentFollowsCpu' /\ ChosenIsAnother'
    BY <1>1, <2>1, <2>2 DEF CurrentFollowsCpu, ChosenIsAnother, Blocked
  <2> QED
    BY <2>3, <2>4, <2>5
<1>7. ASSUME NEW x \in Id, DestroyTask(x) PROVE SchedInv'
  <2> DEFINE w    == waiter[x]
             rest == unready(ready, x)
  <2>1. /\ x \in tasks /\ x # Disp /\ x # Shell
        /\ rest \in Seq(Id) /\ IsInjective(rest) /\ Range(rest) = Range(ready) \ {x}
        /\ w \in Id \cup {None} /\ w # Disp
    BY <1>1, <1>7, UnreadyFacts DEF DestroyTask, Sessions, TypeOK, DispatcherQueued
  <2>2. CASE Fail("wait list hangs") \/ Fail("list corrupted")
    BY <1>2, <2>2 DEF Faults
  <2>3. CASE /\ w = None \/ (w \in tasks \ {x} /\ w \notin Range(rest))
             /\ ready' = IF w = None THEN rest ELSE schedule_task_next(rest, w)
             /\ tasks' = tasks \ {x} /\ pool' = pool \ {x}
             /\ state' = [state EXCEPT ![x] = "SUSPEND"]
             /\ waiter' = [waiter EXCEPT ![x] = None]
             /\ asyncQ' = asyncQ \ {x}
             /\ UNCHANGED <<current, cpu, phase, next, armed, looped, fault>>
    <3>1. /\ ready' \in Seq(Id) /\ IsInjective(ready')
          /\ Range(ready') = Range(rest) \cup ({w} \ {None})
      BY <1>1, <2>1, <2>3, ScheduleNextFacts
    <3>2. /\ state' \in [Id -> States] /\ state'[x] = "SUSPEND"
          /\ \A u \in Id \ {x} : state'[u] = state[u]
      BY <2>1, <2>3 DEF TypeOK, States
    <3>3. /\ waiter' \in [Id -> Id \cup {None}]
          /\ \A u \in Id : waiter'[u] \in {waiter[u], None}
      BY <2>1, <2>3 DEF TypeOK
    <3>4. TypeOK'
      BY <2>3, <3>1, <3>2, <3>3 DEF TypeOK
    <3>5. IdsOwned' /\ ReadyWellFormed'
      BY <1>1, <2>1, <2>3, <3>1 DEF IdsOwned, ReadyWellFormed
    <3>6. NoTaskLost'
      BY <1>1, <2>1, <2>3, <3>1, <3>2 DEF NoTaskLost
    <3>7. DispatcherQueued'
      BY <1>1, <2>1, <2>3, <3>1, <3>2, <3>3 DEF DispatcherQueued
    <3>8. CurrentFollowsCpu' /\ ChosenIsAnother'
      BY <1>1, <2>1, <2>3, <3>2 DEF CurrentFollowsCpu, ChosenIsAnother, Blocked
    <3> QED
      BY <3>4, <3>5, <3>6, <3>7, <3>8
  <2> QED
    BY <1>7, <2>2, <2>3 DEF DestroyTask
<1>8. ASSUME NEW x \in Id, ResumeAsync(x) PROVE SchedInv'
  <2>1. CASE UNCHANGED vars
    BY <1>1, <2>1, QuietPreserves DEF vars, Faults
  <2>2. CASE Fail("list corrupted")
    BY <1>2, <2>2 DEF Faults
  <2>3. CASE /\ x \in Sessions \cap tasks /\ x \notin Range(ready)
             /\ state' = [state EXCEPT ![x] = "READY"]
             /\ ready' = schedule_task_next(ready, x)
             /\ phase' = "sched"
             /\ UNCHANGED <<listVars, current, cpu, next, armed, asyncQ, fault>>
    <3> USE DEF listVars
    <3>1. x # Disp
      BY <2>3 DEF Sessions
    <3>2. /\ ready' \in Seq(Id) /\ IsInjective(ready')
          /\ Range(ready') = Range(ready) \cup {x}
      BY <1>1, <2>3, ScheduleNextFacts
    <3>3. /\ state' \in [Id -> States] /\ state'[x] = "READY"
          /\ \A u \in Id \ {x} : state'[u] = state[u]
      BY <2>3 DEF TypeOK, States
    <3>4. TypeOK' /\ IdsOwned' /\ ReadyWellFormed'
      BY <2>3, <3>2, <3>3 DEF TypeOK, IdsOwned, ReadyWellFormed, Phases
    <3>5. NoTaskLost'
      BY <1>1, <2>3, <3>2, <3>3 DEF NoTaskLost
    <3>6. DispatcherQueued'
      BY <1>1, <2>3, <3>1, <3>2, <3>3 DEF DispatcherQueued
    <3>7. CurrentFollowsCpu' /\ ChosenIsAnother'
      BY <1>1, <2>3, <3>1, <3>3 DEF CurrentFollowsCpu, ChosenIsAnother, Blocked
    <3> QED
      BY <3>4, <3>5, <3>6, <3>7
  <2> QED
    BY <1>8, <2>1, <2>2, <2>3 DEF ResumeAsync
<1> QED
  BY <1>3, <1>4, <1>5, <1>6, <1>7, <1>8 DEF DispatcherStep

\* The steps of a service task.
LEMMA ServicePreserves ==
    ASSUME SchedInv, NEW t \in Id, ServiceStep(t)
    PROVE  SchedInv'
<1>1. SchedInv => TypeOK /\ CurrentFollowsCpu /\ fault \in Faults
  BY DEF SchedInv, TypeOK
<1>2. CASE ExitTask(t) \/ WaitEvent(t) \/ WaitEventAsync(t) \/ sw_usleep(t)
  <2>1. PICK s \in {"WAIT", "SUSPEND"} :
          /\ t = cpu /\ cpu # Disp /\ phase = "run" /\ suspend_task(cpu, s)
          /\ UNCHANGED <<pool, tasks, waiter, looped, ready, cpu, next, fault>>
          /\ phase' = "sched" /\ armed' \subseteq armed \cup {cpu}
          /\ asyncQ' \subseteq asyncQ \cup {cpu}
    BY <1>2 DEF ExitTask, WaitEvent, WaitEventAsync, sw_usleep, Serving, Running,
       Sessions, listVars
  <2> QED
    BY <1>1, <2>1, BlockPreserves DEF TypeOK
<1>3. ASSUME NEW x \in Id, SyscallWait(t, x) PROVE SchedInv'
  <2>1. /\ t = cpu /\ cpu # Disp /\ phase = "run" /\ suspend_task(cpu, "SUSPEND")
        /\ waiter' = [waiter EXCEPT ![x] = cpu] /\ looped' \subseteq looped \cup {x}
        /\ UNCHANGED <<pool, tasks, ready, cpu, next, armed, asyncQ, fault>>
        /\ phase' = "waited"
    BY <1>3 DEF SyscallWait, Serving, Running, Sessions
  <2>2. /\ waiter' \in [Id -> Id \cup {None}] /\ looped' \subseteq Id
        /\ \A u \in Id : waiter'[u] \in {waiter[u], cpu}
    BY <1>1, <2>1 DEF TypeOK
  <2> QED
    BY <2>1, <2>2, BlockPreserves
<1>4. CASE WaitDone(t) \/ sw_sleep(t)
  BY <1>1, <1>4, QuietPreserves DEF WaitDone, sw_sleep, Serving, Running,
     Sessions, listVars, TypeOK
<1>5. ASSUME NEW x \in Id, WakeUp(t, x) PROVE SchedInv'
  BY <1>5, WakePreserves DEF WakeUp, Sessions
<1>6. ASSUME NEW x \in Id, SyscallKill(t, x) PROVE SchedInv'
  <2> USE DEF SchedInv
  <2>1. /\ t = cpu /\ cpu # Disp /\ x # cpu /\ x # Disp /\ phase = "run"
        /\ current = cpu /\ suspend_task(x, "SUSPEND") /\ x \in tasks
        /\ UNCHANGED <<pool, tasks, waiter, looped, ready, cpu, next, armed,
                       asyncQ, fault>>
        /\ phase' = "sched"
    BY <1>6 DEF SyscallKill, Serving, Running, Sessions, listVars, CurrentFollowsCpu
  <2>2. /\ state' \in [Id -> States] /\ state'[x] = "SUSPEND"
        /\ \A u \in Id \ {x} : state'[u] = state[u] /\ current' = current
    BY <2>1 DEF suspend_task, TypeOK, States
  <2>3. current' = current
    BY <2>1 DEF suspend_task
  <2>4. TypeOK' /\ IdsOwned' /\ ReadyWellFormed'
    BY <2>1, <2>2, <2>3 DEF TypeOK, IdsOwned, ReadyWellFormed, Phases
  <2>5. NoTaskLost'
    BY <2>1, <2>2 DEF NoTaskLost, TypeOK
  <2>6. DispatcherQueued'
    BY <2>1, <2>2 DEF DispatcherQueued, TypeOK
  <2>7. CurrentFollowsCpu' /\ ChosenIsAnother'
    BY <2>1, <2>2, <2>3, IdAssumption DEF CurrentFollowsCpu, ChosenIsAnother,
       Blocked, TypeOK, None
  <2> QED
    BY <2>4, <2>5, <2>6, <2>7
<1> QED
  BY <1>2, <1>3, <1>4, <1>5, <1>6 DEF ServiceStep

\* SchedInv is inductive.
LEMMA NextSched == SchedInv /\ [Next]_vars => SchedInv'
<1> SUFFICES ASSUME SchedInv, [Next]_vars PROVE SchedInv'
  OBVIOUS
<1>1. TypeOK /\ CurrentFollowsCpu /\ DispatcherQueued
  BY DEF SchedInv
<1>2. CASE DispatcherStep
  BY <1>2, DispatcherPreserves
<1>3. CASE \E t \in Id : ServiceStep(t)
  BY <1>3, ServicePreserves
<1>4. CASE Yield
  BY <1>1, <1>4, QuietPreserves DEF Yield, listVars, TypeOK
<1>5. CASE SleepSuspend
  BY <1>1, <1>5, BlockPreserves DEF SleepSuspend, listVars, TypeOK,
     CurrentFollowsCpu
<1>6. CASE GetNextTask
  BY <1>6, GetNextPreserves
<1>7. CASE SwitchTo
  BY <1>7, SwitchPreserves
<1>8. CASE ExitAfterWait
  BY <1>1, <1>8, QuietPreserves DEF ExitAfterWait, Fail, Faults, TypeOK
<1>9. CASE UartFiq
  BY <1>9, WakePreserves, IdAssumption DEF UartFiq
<1>10. ASSUME NEW x \in Id, TimerFiq(x) PROVE SchedInv'
  BY <1>1, <1>10, WakePreserves DEF TimerFiq, DispatcherQueued
<1>11. CASE UNCHANGED vars
  BY <1>1, <1>11, QuietPreserves DEF vars, TypeOK
<1> QED
  BY <1>2, <1>3, <1>4, <1>5, <1>6, <1>7, <1>8, <1>9, <1>10, <1>11
     DEF Next, SchedulerStep, Fiq

----------------------------------------------------------------------------
(* Theorems of the specification.                                          *)

\* The scheduler's invariant holds of every behaviour, for any number of
\* tasks: global.c, scheduler.c and task.c under any interleaving of FIQs.
THEOREM SchedulerInvariant == Spec => []SchedInv
  BY InitSched, NextSched, PTL DEF Spec

\* Type correctness.
THEOREM TypeCorrect == Spec => []TypeOK
<1>1. SchedInv => TypeOK
  BY DEF SchedInv
<1> QED
  BY <1>1, SchedulerInvariant, PTL

\* get_next_asid_val never hands out the id of a live task.
THEOREM IdsNeverShared == Spec => []IdsOwned
<1>1. SchedInv => IdsOwned
  BY DEF SchedInv
<1> QED
  BY <1>1, SchedulerInvariant, PTL

\* The ready list never holds a node twice, nor one of a destroyed task.
THEOREM ReadyListSafe == Spec => []ReadyWellFormed
<1>1. SchedInv => ReadyWellFormed
  BY DEF SchedInv
<1> QED
  BY <1>1, SchedulerInvariant, PTL

\* No task marked runnable is ever out of the scheduler's reach.
THEOREM TasksNeverLost == Spec => []NoTaskLost
<1>1. SchedInv => NoTaskLost
  BY DEF SchedInv
<1> QED
  BY <1>1, SchedulerInvariant, PTL

\* The scheduler never goes back to a task that is blocking.
THEOREM RunnersNeverBlocked == Spec => []RunnerNotBlocked
<1>1. SchedInv => RunnerNotBlocked
  BY DEF SchedInv, CurrentFollowsCpu, RunnerNotBlocked
<1> QED
  BY <1>1, SchedulerInvariant, PTL

----------------------------------------------------------------------------
(* Calls between the two worlds: the ready list.                           *)

Tasks == Svc \cup {WDisp, Linux}

\* What giving the core up does to the tasks that are linked or on the core.
LEMMA YieldFacts ==
    ASSUME NEW x \in Tasks, NEW r \in Seq(Tasks), IsInjective(r), x \notin Range(r),
           NEW stays \in BOOLEAN, wschedule(x, r, stays)
    PROVE  /\ wready' \in Seq(Tasks) /\ IsInjective(wready')
           /\ wcpu' \in Tasks /\ wcpu' \notin Range(wready')
           /\ r = <<>> => Linked' = {x} /\ wcpu' = x
           /\ r # <<>> /\ stays => Linked' = Range(r) \cup {x}
           /\ r # <<>> /\ ~stays => Linked' = Range(r)
           /\ r # <<>> => wcpu' \in Range(r)
<1>1. CASE r = <<>>
  BY <1>1, EmptyFacts DEF wschedule, Linked
<1>2. CASE r # <<>>
  <2>1. /\ Head(r) \in Tasks /\ Tail(r) \in Seq(Tasks) /\ IsInjective(Tail(r))
        /\ Range(r) = {Head(r)} \cup Range(Tail(r)) /\ Head(r) \notin Range(Tail(r))
    BY <1>2, HeadTailFacts
  <2>2. CASE stays
    <3>1. wcpu' = Head(r) /\ wready' = Append(Tail(r), x)
      BY <1>2, <2>2 DEF wschedule
    <3> DEFINE q == Tail(r)
    <3>a. q \in Seq(Tasks) /\ IsInjective(q) /\ x \notin Range(q)
      BY <2>1
    <3> HIDE DEF q
    <3>b. /\ Append(q, x) \in Seq(Tasks) /\ IsInjective(Append(q, x))
          /\ Range(Append(q, x)) = Range(q) \cup {x}
      BY <3>a, AppendFacts
    <3>2. /\ Append(Tail(r), x) \in Seq(Tasks) /\ IsInjective(Append(Tail(r), x))
          /\ Range(Append(Tail(r), x)) = Range(Tail(r)) \cup {x}
      BY <3>b DEF q
    <3> QED
      BY <1>2, <2>1, <2>2, <3>1, <3>2 DEF Linked
  <2>3. CASE ~stays
    <3>1. wcpu' = Head(r) /\ wready' = Tail(r)
      BY <1>2, <2>3 DEF wschedule
    <3> QED
      BY <1>2, <2>1, <2>3, <3>1 DEF Linked
  <2> QED
    BY <2>2, <2>3
<1> QED
  BY <1>1, <1>2

\* Making a task ready that may be linked already.
LEMMA ReadyFacts ==
    ASSUME WorldInv, NEW t \in Tasks, t # wcpu
    PROVE  /\ wschedule_task(t) \in Seq(Tasks) /\ IsInjective(wschedule_task(t))
           /\ Range(wschedule_task(t)) = Range(wready) \cup {t}
           /\ wschedule_task(t) # <<>>
<1>1. wready \in Seq(Tasks) /\ IsInjective(wready)
  BY DEF WorldInv, WorldTypeOK, Tasks
<1>2. Contains(wready, t) <=> t \in Range(wready)
  BY <1>1 DEF Contains, Range
<1>3. CASE t \in Range(wready)
  <2>1. wready # <<>>
    BY <1>3, EmptyFacts
  <2> QED
    BY <1>1, <1>2, <1>3, <2>1 DEF wschedule_task
<1>4. CASE t \notin Range(wready)
  BY <1>1, <1>2, <1>4, AppendFacts DEF wschedule_task
<1> QED
  BY <1>3, <1>4

\* Linking at the head (WAKE_UP_IMMEDIATE).
LEMMA FrontFacts ==
    ASSUME NEW s \in Seq(Tasks), IsInjective(s), NEW t \in Tasks, t \notin Range(s)
    PROVE  /\ <<t>> \o s \in Seq(Tasks) /\ IsInjective(<<t>> \o s)
           /\ Range(<<t>> \o s) = Range(s) \cup {t} /\ <<t>> \o s # <<>>
<1> DEFINE a == <<t>> \o s
<1>1. a \in Seq(Tasks) /\ Len(a) = Len(s) + 1 /\ a[1] = t /\ Len(s) \in Nat
      /\ DOMAIN a = 1 .. (Len(s) + 1) /\ DOMAIN s = 1 .. Len(s)
  OBVIOUS
<1>2. \A i \in DOMAIN s : a[i + 1] = s[i]
  OBVIOUS
<1> HIDE DEF a
<1>3. ASSUME NEW i \in DOMAIN a, i # 1 PROVE i - 1 \in DOMAIN s /\ a[i] = s[i - 1]
  BY <1>1, <1>2, <1>3
<1>4. Range(a) = Range(s) \cup {t}
  <2>1. ASSUME NEW i \in DOMAIN a PROVE a[i] \in Range(s) \cup {t}
    BY <1>1, <1>3 DEF Range
  <2>2. ASSUME NEW i \in DOMAIN s PROVE s[i] \in Range(a)
    <3>1. i + 1 \in DOMAIN a
      BY <1>1
    <3> QED
      BY <1>2, <3>1 DEF Range
  <2>3. t \in Range(a)
    BY <1>1 DEF Range
  <2> QED
    BY <2>1, <2>2, <2>3 DEF Range
<1>5. IsInjective(a)
  <2> SUFFICES ASSUME NEW i \in DOMAIN a, NEW j \in DOMAIN a, a[i] = a[j] PROVE i = j
    BY DEF IsInjective
  <2>1. CASE i = 1 /\ j # 1
    BY <1>1, <1>3, <2>1 DEF Range
  <2>2. CASE i # 1 /\ j = 1
    BY <1>1, <1>3, <2>2 DEF Range
  <2>3. CASE i # 1 /\ j # 1
    <3>1. i - 1 = j - 1
      BY <1>3, <2>3 DEF IsInjective
    <3> QED
      BY <1>1, <3>1
  <2> QED
    BY <2>1, <2>2, <2>3
<1>6. a # <<>>
  BY <1>1
<1> QED
  BY <1>1, <1>4, <1>5, <1>6 DEF a

----------------------------------------------------------------------------
LEMMA WorldInitInv == WorldInit => WorldInv
<1> SUFFICES ASSUME WorldInit PROVE WorldInv
  OBVIOUS
<1>1. wready \in Seq(Tasks) /\ IsInjective(wready) /\ Range(wready) = {WDisp}
  BY DEF WorldInit, Tasks, IsInjective, Range
<1>2. Linked = {WDisp, Linux}
  BY <1>1 DEF WorldInit, Linked
<1>3. WorldTypeOK
  BY <1>1, WorldAssumption DEF WorldInit, WorldTypeOK, WPlace, Tasks, Idle, NoCall
<1>4. wpc[WDisp] = "back" /\ wpc[Linux] = "ret" /\ \A t \in Svc : wpc[t] = "off"
  BY WorldAssumption DEF WorldInit
<1>5. \A t \in Svc : t \notin Linked /\ ~Busy(t)
  BY <1>2, <1>4, WorldAssumption DEF Busy
<1>6. CoreHeld
  BY <1>2, <1>4, <1>5 DEF CoreHeld, WorldInit
<1>7. ~Answered
  BY DEF Answered, WorldInit, Idle
<1>8. CallInOnePlace
  BY <1>4, <1>5, <1>7 DEF CallInOnePlace, WorldInit, NoCall
<1> QED
  BY <1>3, <1>6, <1>8 DEF WorldInv

\* Linux enters the secure world with a call.
LEMMA CallInv ==
    ASSUME WorldInv, NEW kind \in {"global", "invoke", "resume"}, NEW t \in Svc \cup {WDisp},
           kind # "global" => t \in Svc, tz_api(kind, t),
           UNCHANGED <<slot, retFlag, wpc, wready, wcpu, event>>
    PROVE  WorldInv'
<1>1. Linked' = Linked /\ (Answered' <=> Answered) /\ \A u : Busy(u)' <=> Busy(u)
  BY DEF Linked, Answered, Busy
<1>2. world = "ns" /\ nsCall = NoCall /\ ~retFlag /\ world' = "s" /\ nsCall' # NoCall
      /\ ~Answered /\ (\A u \in Svc : ~Busy(u)) /\ nsCall' \in Nat /\ calls' \in Nat
  BY DEF tz_api, WorldInv, WorldTypeOK, CallInOnePlace, NoCall
<1>3. WorldTypeOK'
  BY <1>2 DEF tz_api, WorldInv, WorldTypeOK
<1>4. CoreHeld'
  BY <1>1 DEF WorldInv, CoreHeld
<1>5. params'.kind # "none" /\ (params'.kind # "global" => params'.svc \in Svc)
  BY DEF tz_api
<1>6. CallInOnePlace'
  BY <1>1, <1>2, <1>5 DEF CallInOnePlace
<1> QED
  BY <1>3, <1>4, <1>6 DEF WorldInv

\* A timer event fires.
LEMMA FireInv ==
    ASSUME WorldInv, NEW t \in Svc, Fire(t), UNCHANGED <<nsVars, slot, wpc, wcpu>>
    PROVE  /\ wready' \in Seq(Tasks) /\ IsInjective(wready') /\ wcpu \notin Range(wready')
           /\ Linked' \in {Linked, Linked \cup {t}}
           /\ t \in Linked' /\ t \notin Linked => wpc[t] = "sleep"
           /\ event' = event \ {t}
<1>1. CASE wpc[t] = "sleep"
  <2>1. wready' = wschedule_task(t) /\ event' = event \ {t} /\ t # wcpu
    BY <1>1 DEF Fire, wschedule_task, WorldInv, CoreHeld, Linked
  <2> QED
    BY <1>1, <2>1, ReadyFacts DEF Linked, Tasks, WorldInv, WorldTypeOK
<1>2. CASE wpc[t] # "sleep"
  BY <1>2 DEF Fire, Linked, WorldInv, WorldTypeOK, Tasks
<1> QED
  BY <1>1, <1>2

\* An interrupt, with or without an event, in either world: only a sleeping task
\* is linked.
LEMMA FiqInv ==
    ASSUME WorldInv, (\E t \in Svc : Fire(t)) \/ UNCHANGED <<event, wready>>,
           UNCHANGED <<nsVars, slot, wpc, wcpu>>,
           \/ world = "s" /\ UNCHANGED <<world, retFlag>>
           \/ world = "ns" /\ world' = "s" /\ retFlag' = TRUE
    PROVE  WorldInv'
<1>1. /\ wready' \in Seq(Tasks) /\ IsInjective(wready') /\ wcpu \notin Range(wready')
      /\ Linked \subseteq Linked' /\ event' \subseteq event
      /\ \A u \in Tasks : u \in Linked' /\ u \notin Linked => u \in Svc /\ wpc[u] = "sleep" /\ u \notin event'
  <2>1. ASSUME NEW t \in Svc, Fire(t)
        PROVE  /\ wready' \in Seq(Tasks) /\ IsInjective(wready') /\ wcpu \notin Range(wready')
               /\ Linked \subseteq Linked' /\ event' \subseteq event
               /\ \A u \in Tasks : u \in Linked' /\ u \notin Linked =>
                     u \in Svc /\ wpc[u] = "sleep" /\ u \notin event'
    BY <2>1, FireInv DEF Tasks
  <2>2. CASE UNCHANGED <<event, wready>>
    BY <2>2 DEF Linked, WorldInv, WorldTypeOK, Tasks
  <2> QED
    BY <2>1, <2>2
<1>2. \A u \in Svc : Busy(u)' <=> Busy(u)
  BY <1>1 DEF Busy, Tasks
<1>3. Answered' <=> Answered
  BY DEF Answered
<1>4. WorldTypeOK'
  BY <1>1 DEF WorldInv, WorldTypeOK, Tasks, nsVars
<1>5. \A u \in Svc : /\ u \in Linked' => Busy(u)'
                     /\ u \in event' /\ wpc[u] = "sleep" => u \notin Linked'
  BY <1>1, <1>2 DEF WorldInv, CoreHeld, Tasks, Busy
<1>6. WDisp \in Linked' /\ (Linux \in Linked' => Linux \in Linked)
  BY <1>1, WorldAssumption DEF WorldInv, CoreHeld, Tasks
<1>7. CoreHeld'
  BY <1>5, <1>6 DEF WorldInv, CoreHeld
<1>8. CallInOnePlace'
  BY <1>2, <1>3 DEF WorldInv, CallInOnePlace, nsVars
<1> QED
  BY <1>4, <1>7, <1>8 DEF WorldInv

----------------------------------------------------------------------------
(* The dispatcher.                                                         *)

\* The parts of the invariant that speak of the list, after the dispatcher gave
\* the core up and stays ready, with r the list it chose from.
LEMMA DispatcherYields ==
    ASSUME WorldInv, Runs(WDisp), NEW r \in Seq(Tasks), IsInjective(r),
           WDisp \notin Range(r), wschedule(WDisp, r, TRUE)
    PROVE  /\ wready' \in Seq(Tasks) /\ IsInjective(wready')
           /\ wcpu' \in Tasks /\ wcpu' \notin Range(wready')
           /\ Linked' = Range(r) \cup {WDisp}
           /\ Linked = Range(wready) \cup {WDisp} /\ WDisp \notin Range(wready)
<1>1. WDisp \in Tasks
  BY DEF Tasks
<1>2. r = <<>> => Range(r) = {}
  BY EmptyFacts
<1>3. wcpu = WDisp
  BY DEF Runs
<1> QED
  BY <1>1, <1>2, <1>3, YieldFacts DEF Linked, WorldInv, WorldTypeOK

LEMMA DispatchReturnInv == WorldInv /\ DispatchReturn => WorldInv'
<1> SUFFICES ASSUME WorldInv, DispatchReturn PROVE WorldInv'
  OBVIOUS
<1>0. /\ wcpu = WDisp /\ wpc[WDisp] = "loop" /\ retFlag /\ Linux \in Tasks /\ Linux # WDisp
      /\ wpc' = [wpc EXCEPT ![WDisp] = "back", ![Linux] = "run"] /\ wpc \in [Tasks -> WPlace]
      /\ nsCall = NoCall
  BY WorldAssumption DEF DispatchReturn, Runs, Tasks, WorldInv, WorldTypeOK, CallInOnePlace
<1>1. /\ wready' \in Seq(Tasks) /\ IsInjective(wready')
      /\ wcpu' \in Tasks /\ wcpu' \notin Range(wready')
      /\ Linked' = Linked \cup {Linux}
  <2> DEFINE r == wschedule_task(Linux)
  <2>1. r \in Seq(Tasks) /\ IsInjective(r) /\ Range(r) = Range(wready) \cup {Linux}
    BY <1>0, ReadyFacts
  <2>2. WDisp \notin Range(r) /\ wschedule(WDisp, r, TRUE) /\ Runs(WDisp)
    BY <1>0, <2>1 DEF DispatchReturn, WorldInv, WorldTypeOK
  <2> HIDE DEF r
  <2> QED
    BY <2>1, <2>2, DispatcherYields
<1>2. wpc'[WDisp] = "back" /\ wpc'[Linux] = "run" /\ \A t \in Svc : wpc'[t] = wpc[t]
  BY <1>0, WorldAssumption DEF Tasks
<1>3. \A t \in Svc : (Busy(t)' <=> Busy(t)) /\ (t \in Linked' <=> t \in Linked)
  BY <1>1, <1>2, WorldAssumption DEF Busy
<1>4. ~Answered' /\ ~Answered
  BY <1>0 DEF WorldInv, CallInOnePlace, Answered, DispatchReturn
<1>5. WorldTypeOK'
  BY <1>0, <1>1 DEF DispatchReturn, WorldInv, WorldTypeOK, WPlace, Tasks, nsVars
<1>6. CoreHeld'
  BY <1>0, <1>1, <1>2, <1>3 DEF DispatchReturn, WorldInv, CoreHeld, evVars
<1>7. CallInOnePlace'
  BY <1>0, <1>3, <1>4 DEF DispatchReturn, WorldInv, CallInOnePlace, nsVars, Runs
<1> QED
  BY <1>5, <1>6, <1>7 DEF WorldInv

LEMMA DispatchNothingInv == WorldInv /\ DispatchNothing => WorldInv'
<1> SUFFICES ASSUME WorldInv, DispatchNothing PROVE WorldInv'
  OBVIOUS
<1>0. /\ wcpu = WDisp /\ wpc[WDisp] = "loop" /\ Linux # WDisp
      /\ wpc' = [wpc EXCEPT ![WDisp] = "back"] /\ wpc \in [Tasks -> WPlace]
      /\ wready \in Seq(Tasks) /\ IsInjective(wready) /\ WDisp \notin Range(wready)
  BY WorldAssumption DEF DispatchNothing, Runs, Tasks, WorldInv, WorldTypeOK
<1>1. /\ wready' \in Seq(Tasks) /\ IsInjective(wready')
      /\ wcpu' \in Tasks /\ wcpu' \notin Range(wready') /\ Linked' = Linked
  BY <1>0, DispatcherYields DEF DispatchNothing
<1>2. wpc'[WDisp] = "back" /\ \A t \in Svc \cup {Linux} : wpc'[t] = wpc[t]
  BY <1>0, WorldAssumption DEF Tasks
<1>3. (\A t \in Svc : Busy(t)' <=> Busy(t)) /\ (Answered' <=> Answered)
  BY <1>0, <1>1, <1>2 DEF Busy, Answered, DispatchNothing
<1>5. WorldTypeOK'
  BY <1>0, <1>1 DEF DispatchNothing, WorldInv, WorldTypeOK, WPlace, Tasks, nsVars
<1>6. CoreHeld'
  <2>1. wpc'[Linux] # "ret"
    BY <1>0, <1>2 DEF WorldInv, CoreHeld
  <2> QED
    BY <1>0, <1>1, <1>2, <1>3, <2>1 DEF DispatchNothing, WorldInv, CoreHeld, evVars
<1>7. CallInOnePlace'
  BY <1>0, <1>3 DEF DispatchNothing, WorldInv, CallInOnePlace, nsVars, Runs
<1> QED
  BY <1>5, <1>6, <1>7 DEF WorldInv

\* A call is taken out of params_stack: it is answered, or one service gets it.
LEMMA DispatchCallInv == WorldInv /\ DispatchCall => WorldInv'
<1> SUFFICES ASSUME WorldInv, DispatchCall PROVE WorldInv'
  OBVIOUS
<1> DEFINE t == params.svc
<1>0. /\ wcpu = WDisp /\ wpc[WDisp] = "loop" /\ Linux # WDisp /\ world = "s" /\ ~retFlag
      /\ valid /\ valid' = FALSE /\ nsCall' = nsCall /\ nsCall # NoCall /\ nsCall \in Nat
      /\ ~Answered /\ ~slot.set /\ (\A u \in Svc : ~Busy(u) /\ u \notin Linked)
      /\ wpc \in [Tasks -> WPlace] /\ params.kind \in {"global", "invoke", "resume"}
      /\ params.kind # "global" => t \in Svc
      /\ wready \in Seq(Tasks) /\ IsInjective(wready) /\ WDisp \notin Range(wready)
      /\ UNCHANGED <<world, nsCall, calls, params, toResume, retFlag, event>>
  BY WorldAssumption
     DEF DispatchCall, Runs, Tasks, WorldInv, WorldTypeOK, CallInOnePlace, CoreHeld, Answered, evVars
<1>a. \A u \in Svc : u # WDisp /\ u # Linux
  BY WorldAssumption
<1>1. CASE params.kind = "global"
  <2>1. slot' = [set |-> TRUE, val |-> "done", for |-> nsCall]
        /\ wpc' = [wpc EXCEPT ![WDisp] = "back"] /\ wschedule(WDisp, wready, TRUE)
    BY <1>1 DEF DispatchCall, set_secure_api_ret
  <2>2. /\ wready' \in Seq(Tasks) /\ IsInjective(wready')
        /\ wcpu' \in Tasks /\ wcpu' \notin Range(wready') /\ Linked' = Linked
    BY <1>0, <2>1, DispatcherYields DEF Runs
  <2>3. wpc'[WDisp] = "back" /\ \A u \in Svc \cup {Linux} : wpc'[u] = wpc[u]
    BY <1>0, <1>a, <2>1 DEF Tasks
  <2>4. \A u \in Svc : ~Busy(u)'
    BY <1>0, <2>2, <2>3 DEF Busy
  <2>5. WorldTypeOK'
    BY <1>0, <2>1, <2>2 DEF WorldInv, WorldTypeOK, WPlace, Tasks
  <2>6. CoreHeld'
    <3>1. wpc'[Linux] # "ret"
      BY <1>0, <2>3 DEF WorldInv, CoreHeld
    <3> QED
      BY <1>0, <2>2, <2>3, <3>1 DEF WorldInv, CoreHeld
  <2>7. CallInOnePlace'
    BY <1>0, <2>1, <2>4 DEF CallInOnePlace
  <2> QED
    BY <2>5, <2>6, <2>7 DEF WorldInv
<1>2. CASE params.kind = "invoke"
  <2>0. t \in Svc /\ t \in Tasks /\ t # wcpu
    BY <1>0, <1>a, <1>2 DEF Tasks
  <2> DEFINE r == wschedule_task(t)
  <2>1. slot' = slot /\ wpc' = [wpc EXCEPT ![WDisp] = "back", ![t] = "run"]
        /\ wschedule(WDisp, r, TRUE)
    BY <1>2 DEF DispatchCall
  <2>b. r \in Seq(Tasks) /\ IsInjective(r) /\ Range(r) = Range(wready) \cup {t}
    BY <2>0, ReadyFacts
  <2> HIDE DEF t, r
  <2>2. /\ wready' \in Seq(Tasks) /\ IsInjective(wready')
        /\ wcpu' \in Tasks /\ wcpu' \notin Range(wready') /\ Linked' = Linked \cup {t}
    <3>1. WDisp \notin Range(r)
      BY <1>0, <1>a, <2>0, <2>b
    <3> QED
      BY <1>0, <2>1, <2>b, <3>1, DispatcherYields DEF Runs
  <2>3. wpc'[WDisp] = "back" /\ wpc'[t] = "run" /\ \A u \in (Svc \cup {Linux}) \ {t} : wpc'[u] = wpc[u]
    BY <1>0, <1>a, <2>0, <2>1 DEF Tasks
  <2>4. \A u \in Svc : Busy(u)' <=> u = t
    BY <1>0, <2>0, <2>2, <2>3 DEF Busy
  <2>5. WorldTypeOK'
    BY <1>0, <2>1, <2>2 DEF WorldInv, WorldTypeOK, WPlace, Tasks
  <2>6. CoreHeld'
    <3>1. wpc'[Linux] # "ret" /\ wpc'[Linux] = wpc[Linux] /\ (Linux \in Linked' <=> Linux \in Linked)
      BY <1>0, <1>a, <2>0, <2>2, <2>3 DEF WorldInv, CoreHeld
    <3>2. \A u \in Svc : u \in Linked' => u = t
      BY <1>0, <2>2
    <3> QED
      BY <1>0, <2>0, <2>2, <2>3, <2>4, <3>1, <3>2 DEF WorldInv, CoreHeld
  <2>7. CallInOnePlace'
    BY <1>0, <2>1, <2>4 DEF CallInOnePlace, Answered
  <2> QED
    BY <2>5, <2>6, <2>7 DEF WorldInv
<1>3. CASE params.kind = "resume"
  <2>0. t \in Svc /\ t \in Tasks /\ t # wcpu /\ t \notin Range(wready)
    BY <1>0, <1>a, <1>3 DEF Tasks, Linked
  <2> DEFINE r == resume_async_task(t)
  <2>1. slot' = slot /\ wpc' = [wpc EXCEPT ![WDisp] = "back"] /\ wschedule(WDisp, r, TRUE)
    BY <1>3 DEF DispatchCall
  <2>b. r \in Seq(Tasks) /\ IsInjective(r)
        /\ Range(r) = IF wpc[t] = "wait" THEN Range(wready) \cup {t} ELSE Range(wready)
    BY <1>0, <2>0, FrontFacts DEF resume_async_task
  <2> HIDE DEF t, r
  <2>2. /\ wready' \in Seq(Tasks) /\ IsInjective(wready')
        /\ wcpu' \in Tasks /\ wcpu' \notin Range(wready')
        /\ Linked' = IF wpc[t] = "wait" THEN Linked \cup {t} ELSE Linked
    <3>1. WDisp \notin Range(r)
      BY <1>0, <1>a, <2>0, <2>b
    <3> QED
      BY <1>0, <2>1, <2>b, <3>1, DispatcherYields DEF Runs
  <2>3. wpc'[WDisp] = "back" /\ \A u \in Svc \cup {Linux} : wpc'[u] = wpc[u]
    BY <1>0, <1>a, <2>0, <2>1 DEF Tasks
  <2>4. \A u \in Svc : Busy(u)' <=> (u = t /\ wpc[t] = "wait")
    BY <1>0, <2>0, <2>2, <2>3 DEF Busy
  <2>5. WorldTypeOK'
    BY <1>0, <2>1, <2>2 DEF WorldInv, WorldTypeOK, WPlace, Tasks
  <2>6. CoreHeld'
    <3>1. wpc'[Linux] # "ret" /\ (Linux \in Linked' <=> Linux \in Linked)
      BY <1>0, <1>a, <2>0, <2>2, <2>3 DEF WorldInv, CoreHeld
    <3>2. \A u \in Svc : u \in Linked' => u = t /\ wpc[u] = "wait"
      BY <1>0, <2>2
    <3> QED
      BY <1>0, <2>0, <2>2, <2>3, <2>4, <3>1, <3>2 DEF WorldInv, CoreHeld
  <2>7. CallInOnePlace'
    BY <1>0, <2>1, <2>4 DEF CallInOnePlace, Answered
  <2> QED
    BY <2>5, <2>6, <2>7 DEF WorldInv
<1> QED
  BY <1>0, <1>1, <1>2, <1>3

\* Steps of the dispatcher that leave the list alone.
LEMMA DispatchQuietInv ==
    WorldInv /\ (DispatchBack \/ return_secure_api \/ DispatchAgain) => WorldInv'
<1> SUFFICES ASSUME WorldInv, DispatchBack \/ return_secure_api \/ DispatchAgain
             PROVE  WorldInv'
  OBVIOUS
<1>0. /\ wcpu = WDisp /\ world = "s" /\ Linux # WDisp /\ wpc \in [Tasks -> WPlace] /\ WDisp \in Tasks
      /\ UNCHANGED <<wready, wcpu, event, calls, params, valid, retFlag>>
      /\ \E p \in {"loop", "ret"} : wpc' = [wpc EXCEPT ![WDisp] = p]
  BY WorldAssumption
     DEF DispatchBack, return_secure_api, DispatchAgain, Runs, WorldInv, WorldTypeOK, Tasks, nsVars, evVars
<1>1. Linked' = Linked
  BY <1>0 DEF Linked
<1>2. \A u \in Svc \cup {Linux} : wpc'[u] = wpc[u]
  BY <1>0, WorldAssumption DEF Tasks
<1>3. \A u \in Svc : Busy(u)' <=> Busy(u)
  BY <1>1, <1>2 DEF Busy
<1>4. wpc' \in [Tasks -> WPlace]
  BY <1>0 DEF WPlace
<1>5. CoreHeld'
  <2>1. wpc'[WDisp] \in {"loop", "ret"}
    BY <1>0
  <2> QED
    BY <1>0, <1>1, <1>2, <1>3, <2>1 DEF WorldInv, CoreHeld
<1>6. CASE DispatchBack
  <2>1. ~Answered /\ ~Answered'
    BY <1>6 DEF DispatchBack, Answered
  <2>2. WorldTypeOK'
    BY <1>0, <1>4, <1>6 DEF DispatchBack, WorldInv, WorldTypeOK, Tasks, nsVars
  <2>3. CallInOnePlace'
    BY <1>0, <1>3, <1>6, <2>1 DEF DispatchBack, WorldInv, CallInOnePlace, nsVars
  <2> QED
    BY <1>5, <2>2, <2>3 DEF WorldInv
<1>7. CASE return_secure_api
  <2>1. Answered /\ ~Answered' /\ wpc'[WDisp] = "ret"
    BY <1>0, <1>7 DEF return_secure_api, Answered
  <2>2. WorldTypeOK'
    BY <1>0, <1>4, <1>7 DEF return_secure_api, WorldInv, WorldTypeOK, Tasks, NoCall
  <2>3. nsCall # NoCall /\ ~retFlag /\ ~valid /\ \A u \in Svc : ~Busy(u)
    BY <2>1 DEF WorldInv, CallInOnePlace
  <2>4. CallInOnePlace'
    BY <1>0, <1>3, <1>7, <2>1, <2>3 DEF return_secure_api, CallInOnePlace
  <2> QED
    BY <1>5, <2>2, <2>4 DEF WorldInv
<1>8. CASE DispatchAgain
  <2>1. ~Answered /\ ~Answered'
    BY <1>8 DEF DispatchAgain, Answered, WorldInv, WorldTypeOK
  <2>2. WorldTypeOK'
    BY <1>0, <1>4, <1>8 DEF DispatchAgain, WorldInv, WorldTypeOK, Tasks, nsVars
  <2>3. CallInOnePlace'
    BY <1>0, <1>3, <1>8, <2>1 DEF DispatchAgain, WorldInv, CallInOnePlace, nsVars
  <2> QED
    BY <1>5, <2>2, <2>3 DEF WorldInv
<1> QED
  BY <1>6, <1>7, <1>8

----------------------------------------------------------------------------
(* The task that returns to Linux, and the services.                       *)

\* A task other than the dispatcher gives the core up and is not linked any
\* more: there is always the dispatcher to go on.
LEMMA LeavesCore ==
    ASSUME WorldInv, NEW x \in Tasks, x # WDisp, Runs(x), wschedule(x, wready, FALSE)
    PROVE  /\ wready' \in Seq(Tasks) /\ IsInjective(wready')
           /\ wcpu' \in Tasks /\ wcpu' \notin Range(wready') /\ Linked' = Linked \ {x}
<1>1. /\ wready \in Seq(Tasks) /\ IsInjective(wready) /\ x \notin Range(wready)
      /\ Linked = Range(wready) \cup {x} /\ WDisp \in Range(wready)
  BY DEF WorldInv, WorldTypeOK, CoreHeld, Linked, Runs, Tasks
<1>2. wready # <<>>
  BY <1>1, EmptyFacts
<1> QED
  BY ZenonT(40), <1>1, <1>2, YieldFacts

LEMMA LinuxTaskInv == WorldInv /\ LinuxTask => WorldInv'
<1> SUFFICES ASSUME WorldInv, LinuxTask PROVE WorldInv'
  OBVIOUS
<1>0. /\ wcpu = Linux /\ world = "s" /\ Linux # WDisp /\ wpc \in [Tasks -> WPlace] /\ Linux \in Tasks
      /\ WDisp \in Tasks /\ wpc[WDisp] \in {"loop", "back"}
      /\ UNCHANGED <<slot, event, calls, params, valid>>
      /\ \E p \in {"ret", "off"} : wpc' = [wpc EXCEPT ![Linux] = p]
  BY WorldAssumption
     DEF LinuxTask, return_non_secure_kernel, LinuxExit, Runs, WorldInv, WorldTypeOK, CoreHeld, Tasks,
         nsVars, evVars
<1>1. \A u \in Svc \cup {WDisp} : wpc'[u] = wpc[u] /\ u # Linux
  BY <1>0, WorldAssumption DEF Tasks
<1>2. wpc' \in [Tasks -> WPlace] /\ (Answered' <=> Answered)
  BY <1>0, <1>1 DEF WPlace, Answered
<1>3. CASE return_non_secure_kernel
  <2>1. Linked' = Linked /\ wpc'[Linux] = "ret" /\ retFlag' = FALSE /\ nsCall = NoCall /\ retFlag
    BY <1>0, <1>3 DEF return_non_secure_kernel, Linked, WorldInv, CoreHeld, CallInOnePlace
  <2>2. \A u \in Svc : Busy(u)' <=> Busy(u)
    BY <1>1, <2>1 DEF Busy
  <2>3. WorldTypeOK'
    BY <1>0, <1>2, <1>3, <2>1 DEF return_non_secure_kernel, WorldInv, WorldTypeOK, Tasks, NoCall
  <2>4. CoreHeld'
    BY <1>0, <1>1, <1>3, <2>1, <2>2 DEF return_non_secure_kernel, WorldInv, CoreHeld
  <2>5. CallInOnePlace'
    BY <1>0, <1>2, <1>3, <2>1, <2>2 DEF return_non_secure_kernel, WorldInv, CallInOnePlace
  <2> QED
    BY <2>3, <2>4, <2>5 DEF WorldInv
<1>4. CASE LinuxExit
  <2>1. /\ wready' \in Seq(Tasks) /\ IsInjective(wready') /\ wcpu' \in Tasks
        /\ wcpu' \notin Range(wready') /\ Linked' = Linked \ {Linux} /\ wpc'[Linux] = "off"
    BY <1>0, <1>4, LeavesCore DEF LinuxExit
  <2>2. \A u \in Svc : Busy(u)' <=> Busy(u)
    BY <1>1, <2>1 DEF Busy
  <2>3. WorldTypeOK'
    BY <1>0, <1>2, <1>4, <2>1 DEF LinuxExit, WorldInv, WorldTypeOK, Tasks, nsVars
  <2>4. CoreHeld'
    BY <1>0, <1>1, <1>4, <2>1, <2>2 DEF LinuxExit, WorldInv, CoreHeld
  <2>5. CallInOnePlace'
    BY <1>0, <1>2, <1>4, <2>1, <2>2 DEF LinuxExit, WorldInv, CallInOnePlace, nsVars
  <2> QED
    BY <2>3, <2>4, <2>5 DEF WorldInv
<1> QED
  BY <1>3, <1>4 DEF LinuxTask

\* A step of the service on the core, to place p: it works on the call Linux is
\* inside, and when it leaves the core without being busy the call is answered.
LEMMA ServiceMoves ==
    ASSUME WorldInv, NEW t \in Svc, Runs(t), UNCHANGED <<world, nsVars, retFlag>>,
           NEW p \in WPlace, wpc' = [wpc EXCEPT ![t] = p],
           wready' \in Seq(Tasks), IsInjective(wready'), wcpu' \in Tasks, wcpu' \notin Range(wready'),
           \/ Linked' = Linked /\ p \in {"armed", "woken"}
           \/ Linked' = Linked \ {t},
           event' \subseteq event \cup {t},
           slot' \in [set : BOOLEAN, val : {"none", "done", "pending"}, for : Nat],
           \/ slot' = slot
           \/ slot'.for = nsCall /\ p \in {"off", "wait"} /\ t \notin Linked'
    PROVE  WorldInv'
<1>0. /\ wcpu = t /\ t \in Tasks /\ world = "s" /\ wpc \in [Tasks -> WPlace] /\ t # WDisp /\ t # Linux
      /\ WDisp \in Tasks /\ Linux \in Tasks /\ t \in Linked
  BY WorldAssumption DEF Runs, WorldInv, WorldTypeOK, Tasks, Linked
<1>1. /\ Busy(t) /\ nsCall # NoCall /\ ~valid /\ ~Answered /\ ~retFlag
      /\ \A u \in Svc \ {t} : ~Busy(u)
  BY <1>0 DEF WorldInv, CoreHeld, CallInOnePlace
<1>2. wpc'[t] = p /\ (\A u \in Tasks \ {t} : wpc'[u] = wpc[u]) /\ wpc' \in [Tasks -> WPlace]
  BY <1>0
<1>3. \A u \in Svc \ {t} : ~Busy(u)' /\ (u \in Linked' <=> u \in Linked)
  BY <1>1, <1>2 DEF Busy, Tasks
<1>4. WorldTypeOK'
  BY <1>2 DEF WorldInv, WorldTypeOK, Tasks, nsVars
<1>5. CoreHeld'
  <2>1. wpc'[WDisp] = wpc[WDisp] /\ wpc'[Linux] = wpc[Linux] /\ wpc[WDisp] # "ret" /\ wpc[Linux] # "ret"
    BY <1>0, <1>2 DEF WorldInv, CoreHeld
  <2>2. (WDisp \in Linked' <=> WDisp \in Linked) /\ (Linux \in Linked' <=> Linux \in Linked)
    BY <1>0
  <2>3. t \in Linked' => Busy(t)' /\ wpc'[t] # "sleep"
    BY <1>0, <1>2 DEF Busy
  <2>4. \A u \in Svc : /\ u \in Linked' => Busy(u)'
                       /\ u \in event' /\ wpc'[u] = "sleep" => u \notin Linked'
    BY <1>0, <1>1, <1>2, <1>3, <2>3 DEF WorldInv, CoreHeld, Tasks
  <2> QED
    BY <2>1, <2>2, <2>4 DEF WorldInv, CoreHeld
<1>6. Answered' => slot'.for = nsCall /\ ~Busy(t)'
  BY <1>0, <1>1, <1>2 DEF Answered, Busy
<1>7. CallInOnePlace'
  BY <1>0, <1>1, <1>3, <1>6 DEF CallInOnePlace, nsVars
<1> QED
  BY <1>4, <1>5, <1>7 DEF WorldInv

LEMMA ServiceInv ==
    ASSUME WorldInv, NEW t \in Svc, Service(t)
    PROVE  WorldInv'
<1>0. /\ wready \in Seq(Tasks) /\ IsInjective(wready) /\ wcpu \in Tasks /\ wcpu \notin Range(wready)
      /\ slot \in [set : BOOLEAN, val : {"none", "done", "pending"}, for : Nat] /\ nsCall \in Nat
      /\ t \in Tasks /\ t # WDisp
  BY WorldAssumption DEF WorldInv, WorldTypeOK, Tasks
<1>1. CASE Finish(t)
  <2>1. Runs(t) /\ wschedule(t, wready, FALSE) /\ UNCHANGED <<world, nsVars, retFlag, event>>
        /\ wpc' = [wpc EXCEPT ![t] = "off"] /\ slot' = [set |-> TRUE, val |-> "done", for |-> nsCall]
    BY <1>1 DEF Finish, set_secure_api_ret, evVars
  <2>2. /\ wready' \in Seq(Tasks) /\ IsInjective(wready')
        /\ wcpu' \in Tasks /\ wcpu' \notin Range(wready') /\ Linked' = Linked \ {t}
    BY <1>0, <2>1, LeavesCore
  <2>3. "off" \in WPlace /\ event' \subseteq event \cup {t} /\ slot'.for = nsCall /\ t \notin Linked'
        /\ slot' \in [set : BOOLEAN, val : {"none", "done", "pending"}, for : Nat]
    BY <1>0, <2>1, <2>2 DEF WPlace
  <2> QED
    BY <2>1, <2>2, <2>3, ServiceMoves
<1>2. CASE StartEvent(t) \/ Awake(t)
  <2>1. PICK p \in {"armed", "woken"} :
            /\ Runs(t) /\ UNCHANGED <<world, nsVars, retFlag, slot, wready, wcpu>>
            /\ wpc' = [wpc EXCEPT ![t] = p] /\ event' \subseteq event \cup {t}
    BY <1>2 DEF StartEvent, Awake, evVars
  <2>2. Linked' = Linked /\ p \in WPlace
    BY <2>1 DEF Linked, WPlace
  <2> QED
    BY <1>0, <2>1, <2>2, ServiceMoves
<1>3. CASE sw_wait_event_async(t) /\ avail[t]
  <2>1. /\ Runs(t) /\ UNCHANGED <<world, nsVars, retFlag, slot, wready, wcpu, event>>
        /\ wpc' = [wpc EXCEPT ![t] = "woken"]
    BY <1>3 DEF sw_wait_event_async, evVars
  <2>2. Linked' = Linked /\ "woken" \in WPlace /\ event' \subseteq event \cup {t}
    BY <2>1 DEF Linked, WPlace
  <2> QED
    BY <1>0, <2>1, <2>2, ServiceMoves
<1>4. CASE sw_wait_event_async(t) /\ ~avail[t]
  <2>1. /\ Runs(t) /\ wschedule(t, wready, FALSE) /\ UNCHANGED <<world, nsVars, retFlag, event>>
        /\ wpc' = [wpc EXCEPT ![t] = "wait"]
        /\ slot' = slot \/ slot' = [set |-> TRUE, val |-> "pending", for |-> nsCall]
    BY <1>4 DEF sw_wait_event_async, set_secure_api_ret, evVars
  <2>2. /\ wready' \in Seq(Tasks) /\ IsInjective(wready')
        /\ wcpu' \in Tasks /\ wcpu' \notin Range(wready') /\ Linked' = Linked \ {t}
    BY <1>0, <2>1, LeavesCore
  <2>3. "wait" \in WPlace /\ event' \subseteq event \cup {t} /\ t \notin Linked'
    BY <2>1, <2>2 DEF WPlace
  <2>4. CASE slot' = slot
    BY <1>0, <2>1, <2>2, <2>3, <2>4, ServiceMoves
  <2>5. CASE slot' = [set |-> TRUE, val |-> "pending", for |-> nsCall]
    <3>1. slot'.for = nsCall
          /\ slot' \in [set : BOOLEAN, val : {"none", "done", "pending"}, for : Nat]
      BY <1>0, <2>5
    <3> QED
      BY <2>1, <2>2, <2>3, <3>1, ServiceMoves
  <2> QED
    BY <2>1, <2>4, <2>5
<1>5. CASE Sleep(t)
  <2>1. /\ Runs(t) /\ wschedule(t, wready, FALSE) /\ UNCHANGED <<world, nsVars, retFlag, slot>>
        /\ wpc' = [wpc EXCEPT ![t] = "sleep"] /\ event' = event \cup {t}
    BY <1>5 DEF Sleep
  <2>2. /\ wready' \in Seq(Tasks) /\ IsInjective(wready')
        /\ wcpu' \in Tasks /\ wcpu' \notin Range(wready') /\ Linked' = Linked \ {t}
    BY <1>0, <2>1, LeavesCore
  <2>3. "sleep" \in WPlace /\ event' \subseteq event \cup {t}
    BY <2>1 DEF WPlace
  <2> QED
    BY <1>0, <2>1, <2>2, <2>3, ServiceMoves
<1> QED
  BY <1>1, <1>2, <1>3, <1>4, <1>5 DEF Service

----------------------------------------------------------------------------
LEMMA WorldStepInv == WorldInv /\ [WorldNext]_wvars => WorldInv'
<1> SUFFICES ASSUME WorldInv, [WorldNext]_wvars PROVE WorldInv'
  OBVIOUS
<1>1. CASE UNCHANGED wvars
  <2>1. Linked' = Linked /\ (Answered' <=> Answered) /\ \A u : Busy(u)' <=> Busy(u)
    BY <1>1 DEF wvars, Linked, Answered, Busy
  <2> QED
    BY <1>1, <2>1 DEF wvars, WorldInv, WorldTypeOK, CoreHeld, CallInOnePlace
<1>2. CASE CallGlobal
  <2>1. UNCHANGED <<slot, retFlag, wpc, wready, wcpu, event>> /\ tz_api("global", WDisp)
    BY <1>2 DEF CallGlobal, evVars
  <2> QED
    BY <2>1, CallInv
<1>3. ASSUME NEW t \in Svc, CallService(t) PROVE WorldInv'
  <2>1. UNCHANGED <<slot, retFlag, wpc, wready, wcpu, event>> /\ tz_api("invoke", t)
    BY <1>3 DEF CallService, evVars
  <2> QED
    BY <2>1, CallInv
<1>4. ASSUME NEW t \in Svc, CallResume(t) PROVE WorldInv'
  <2>1. UNCHANGED <<slot, retFlag, wpc, wready, wcpu, event>> /\ tz_api("resume", t)
    BY <1>4 DEF CallResume, evVars
  <2> QED
    BY <2>1, CallInv
<1>5. CASE TakeNotify
  <2>1. Linked' = Linked /\ (Answered' <=> Answered) /\ \A u : Busy(u)' <=> Busy(u)
    BY <1>5 DEF TakeNotify, Linked, Answered, Busy
  <2> QED
    BY <1>5, <2>1 DEF TakeNotify, WorldInv, WorldTypeOK, CoreHeld, CallInOnePlace
<1>6. CASE FiqSecure
  BY <1>6, FiqInv DEF FiqSecure
<1>7. CASE ns_fiq_handler
  BY <1>7, FiqInv DEF ns_fiq_handler
<1>8. CASE SecureStep
  BY <1>8, DispatchReturnInv, DispatchCallInv, DispatchNothingInv, DispatchQuietInv, LinuxTaskInv,
     ServiceInv DEF SecureStep, Dispatch
<1> QED
  BY <1>1, <1>2, <1>3, <1>4, <1>5, <1>6, <1>7, <1>8 DEF WorldNext

\* Linux gets back the answer to the call it is inside, and goes on without an
\* answer only when it made no call (dispatcher_task.c, monitor.S): for any number
\* of services, however they sleep, answer SMC_PENDING and are resumed, and
\* wherever FIQs fall.
THEOREM LinuxAnswered == WorldSpec => AnswersMatch
<1>1. ASSUME WorldInv, [WorldNext]_wvars
      PROVE  [world = "s" /\ world' = "ns" =>
                IF wcpu = WDisp THEN nsCall # NoCall /\ slot.for = nsCall
                ELSE nsCall = NoCall]_wvars
  <2> SUFFICES ASSUME WorldNext, world = "s", world' = "ns"
               PROVE  IF wcpu = WDisp THEN nsCall # NoCall /\ slot.for = nsCall ELSE nsCall = NoCall
    BY <1>1
  <2>1. return_secure_api \/ return_non_secure_kernel
    BY DEF WorldNext, CallGlobal, TakeNotify, CallService, CallResume, tz_api, FiqSecure,
           ns_fiq_handler, SecureStep, Dispatch, DispatchReturn, DispatchCall, DispatchNothing,
           DispatchBack, DispatchAgain, LinuxTask, LinuxExit, Service, Finish, StartEvent,
           sw_wait_event_async, Sleep, Awake
  <2>2. CASE return_secure_api
    BY <1>1, <2>2 DEF return_secure_api, Runs, WorldInv, CallInOnePlace, Answered
  <2>3. CASE return_non_secure_kernel
    BY <1>1, <2>3, WorldAssumption
       DEF return_non_secure_kernel, Runs, WorldInv, CoreHeld, CallInOnePlace
  <2> QED
    BY <2>1, <2>2, <2>3
<1> QED
  BY <1>1, WorldInitInv, WorldStepInv, PTL DEF WorldSpec, AnswersMatch
=============================================================================
