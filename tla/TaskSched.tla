----------------------------- MODULE TaskSched -----------------------------
(***************************************************************************)
(* The SierraTEE task scheduler: the global task list, the pool of task    *)
(* ids, the ready-to-run list, the current task and the cooperative        *)
(* context switch (core/global.c, core/scheduler.c, core/task.c), driven   *)
(* by the dispatcher task, by service tasks and by FIQ handlers.           *)
(*                                                                         *)
(* The kernel is single-core and cooperative: only the task that owns the  *)
(* CPU takes steps, and it gives the CPU up only through schedule().  The  *)
(* FIQs (tick timer, UART) may arrive between any two critical sections    *)
(* and only ever call schedule_task_id().                                  *)
(***************************************************************************)
EXTENDS Naturals, Sequences, Functions, FiniteSetsExt

CONSTANTS
    Id,      \* the task ids get_next_asid_val can hand out
    Disp,    \* the dispatcher: the first task, never closed by a client
    Shell    \* the shell task, woken by the UART FIQ

ASSUME IdAssumption ==
    /\ Id \subseteq Nat \ {0}
    /\ Disp \in Id /\ Shell \in Id /\ Disp # Shell

\* No task: NULL for a task pointer, -1 for current_task_id.
None == 0

States == {"RUNNING", "READY", "WAIT", "SUSPEND"}

VARIABLES
    pool,     \* ids marked taken in task_id_pool
    tasks,    \* ids of the structures linked in task_list
    state,    \* task->state
    ready,    \* ready_to_run_list, head first
    current,  \* current_task_id
    cpu,      \* the task whose registers the core is executing
    phase,    \* where that task stands in a multi-step kernel path
    next,     \* next_task, a local of scheduler()
    armed,    \* ids held by sleep timer events that have not fired
    asyncQ,   \* tasks with a node linked in their own notify_queue
    waiter,   \* waiter[x]: the data of x's single wait_head link
    looped,   \* tasks whose wait_head was linked twice and points to itself
    fault     \* why the kernel stopped being a kernel, if it did

vars == <<pool, tasks, state, ready, current, cpu, phase, next, armed,
          asyncQ, waiter, looped, fault>>

listVars == <<pool, tasks, waiter, looped>>

Faults == {"none", "id scan hangs", "id out of range", "wait list hangs",
           "list corrupted", "panic"}

Live == fault = "none"

\* "run": executing its own code; "suspend": sw_sleep between arming the
\* timer and suspend_task; "waited": returned from the wait system call;
\* "sched": about to enter get_next_task; "switch": get_next_task returned.
Phases == {"run", "suspend", "waited", "sched", "switch"}

----------------------------------------------------------------------------
(* Helpers of global.c and task.c.                                         *)

\* Defects: the duplicate check dropped; the wrong end of the list.
schedule_task_nocheck(r, t) == Append(r, t)
schedule_task_head(r, t) == IF t \in Range(r) THEN r ELSE <<t>> \o r

\* schedule_task: append unless a node with the same id is already linked.
schedule_task(r, t) == IF t \in Range(r) THEN r ELSE Append(r, t)

\* schedule_task_next: link at the head; nothing checks for a linked node.
schedule_task_next(r, t) == <<t>> \o r

\* remove_link on the ready node of t, if it is linked.
unready(r, t) ==
    IF t \notin Range(r) THEN r
    ELSE LET i == CHOOSE k \in DOMAIN r : r[k] = t
         IN  [j \in 1 .. (Len(r) - 1) |-> IF j < i THEN r[j] ELSE r[j + 1]]

\* suspend_task(t, s): the current task that suspends itself leaves no
\* current task behind; a task that only waits stays current.
suspend_task(t, s) ==
    /\ state' = IF t \in tasks THEN [state EXCEPT ![t] = s] ELSE state
    /\ current' = IF t \in tasks /\ t = current /\ s = "SUSPEND"
                  THEN None ELSE current

\* schedule_task_id(t): a task that is still in the list becomes ready.
schedule_task_id(t) ==
    IF t \in tasks
    THEN /\ state' = [state EXCEPT ![t] = "READY"]
         /\ ready' = schedule_task(ready, t)
    ELSE UNCHANGED <<state, ready>>

\* get_current_task: the structure whose id is current_task_id, or NULL.
get_current_task == IF current \in tasks THEN current ELSE None

Blocked(t) == state[t] \in {"WAIT", "SUSPEND"}

\* The kernel entered a state the code never leaves or cannot survive.
Fail(why) ==
    /\ fault' = why
    /\ UNCHANGED <<pool, tasks, state, ready, current, cpu, phase, next,
                   armed, asyncQ, waiter, looped>>

----------------------------------------------------------------------------
(* After run_init_tasks and the first schedule(): the dispatcher runs and  *)
(* the shell task has been started behind it.                              *)
Init ==
    /\ pool = {Disp, Shell}
    /\ tasks = {Disp, Shell}
    /\ state = [t \in Id |-> IF t = Disp THEN "RUNNING" ELSE "SUSPEND"]
    /\ ready = <<Shell>>
    /\ current = Disp
    /\ cpu = Disp
    /\ phase = "run"
    /\ next = None
    /\ armed = {}
    /\ asyncQ = {}
    /\ waiter = [t \in Id |-> None]
    /\ looped = {}
    /\ fault = "none"

----------------------------------------------------------------------------
(* schedule(): the SWI and the two halves of scheduler().                  *)

\* The running task executes SWI 0xbb.
Yield ==
    /\ Live /\ phase \in {"run", "waited"}
    /\ phase' = "sched"
    /\ UNCHANGED <<listVars, state, ready, current, cpu, next, armed,
                   asyncQ, fault>>

\* Defect: the preempted task is not put back.
get_next_task_drop ==
    IF ready = <<>> THEN next' = get_current_task /\ UNCHANGED ready
    ELSE next' = Head(ready) /\ ready' = Tail(ready)

\* get_next_task, under the ready_to_run lock.
get_next_task ==
    LET cur  == get_current_task
        rest == Tail(ready)
    IN  IF ready = <<>>
        THEN /\ next' = IF cur # None /\ ~Blocked(cur) THEN cur ELSE None
             /\ UNCHANGED ready
        ELSE /\ next' = Head(ready)
             /\ ready' = IF cur # None /\ ~Blocked(cur)
                         THEN schedule_task(rest, cur) ELSE rest

GetNextTask ==
    /\ Live /\ phase = "sched"
    /\ get_next_task
    /\ phase' = "switch"
    /\ UNCHANGED <<listVars, state, current, cpu, armed, asyncQ, fault>>

\* The rest of scheduler(): nothing happens when the same task was chosen,
\* and a NULL next task leaves the core where it is.
SwitchTo ==
    /\ Live /\ phase = "switch"
    /\ IF next # get_current_task /\ next # None
       THEN /\ state' = [state EXCEPT ![next] = "RUNNING"]
            /\ current' = next
            /\ cpu' = next
       ELSE UNCHANGED <<state, current, cpu>>
    /\ phase' = "run"
    /\ next' = None
    /\ UNCHANGED <<listVars, ready, armed, asyncQ, fault>>

----------------------------------------------------------------------------
(* What the dispatcher does on behalf of the non-secure world.             *)

Dispatching == Live /\ cpu = Disp /\ phase = "run"

\* Sessions a client can name: every task but the two started at boot.
Sessions == Id \ {Disp, Shell}

\* get_next_asid_val: the lowest free id.  With none free the scan reads
\* task_id_pool[MAX_ASID], one past the array (the low half of global_errno):
\* zero there yields an id outside the pool, anything else never ends the
\* loop, which runs with interrupts masked.
NoFreeId ==
    /\ Dispatching /\ pool = Id
    /\ \E why \in {"id out of range", "id scan hangs"} : Fail(why)

get_next_asid_val == Min(Id \ pool)

\* Defect: the id is handed out but not marked taken.
CreateTask_unmarked ==
    /\ Dispatching /\ pool # Id
    /\ LET t == get_next_asid_val
       IN  /\ tasks' = tasks \cup {t}
           /\ state' = [state EXCEPT ![t] = "SUSPEND"]
    /\ UNCHANGED <<pool, waiter, looped, ready, current, cpu, phase, next,
                   armed, asyncQ, fault>>

\* create_task succeeds: the structure is linked, suspended.
CreateTask ==
    /\ Dispatching /\ pool # Id
    /\ LET t == get_next_asid_val
       IN  /\ pool' = pool \cup {t}
           /\ tasks' = tasks \cup {t}
           /\ state' = [state EXCEPT ![t] = "SUSPEND"]
    /\ UNCHANGED <<waiter, looped, ready, current, cpu, phase, next, armed,
                   asyncQ, fault>>

\* create_task refuses (permission, single instance, or no task structure)
\* and returns before handle_err1: the id stays marked taken.
CreateRefused ==
    /\ Dispatching /\ pool # Id
    /\ pool' = pool \cup {get_next_asid_val}
    /\ UNCHANGED <<tasks, waiter, looped, state, ready, current, cpu, phase,
                   next, armed, asyncQ, fault>>

\* start_task: the registers are initialised and the task is made ready,
\* whatever it was doing.
StartTask(x) ==
    /\ Dispatching /\ x \in Sessions \cap tasks
    /\ ready' = schedule_task(ready, x)
    /\ UNCHANGED <<listVars, state, current, cpu, phase, next, armed,
                   asyncQ, fault>>

\* destroy_task: the task leaves the ready list, the task recorded in its
\* wait_head is linked at the head of the ready list, and the id is freed.
\* Following a self-linked wait_head never ends; linking a node that is
\* already linked, or belongs to a freed task, corrupts the list.  The fields
\* of the freed structure are reset here: create_task sets them again.
DestroyTask(x) ==
    /\ Dispatching /\ x \in Sessions \cap tasks
    /\ LET w    == waiter[x]
           rest == unready(ready, x)
       IN  IF x \in looped THEN Fail("wait list hangs")
           ELSE IF w # None /\ (w \notin tasks \ {x} \/ w \in Range(rest))
           THEN Fail("list corrupted")
           ELSE /\ ready' = IF w = None THEN rest
                            ELSE schedule_task_next(rest, w)
                /\ tasks' = tasks \ {x}
                /\ pool' = pool \ {x}
                /\ state' = [state EXCEPT ![x] = "SUSPEND"]
                /\ waiter' = [waiter EXCEPT ![x] = None]
                /\ asyncQ' = asyncQ \ {x}
                /\ UNCHANGED <<current, cpu, phase, next, armed, looped, fault>>

\* resume_async_task: the first node of the task's notify_queue is woken
\* with WAKE_UP_IMMEDIATE, and schedule() is called at once; the driver only
\* resumes a session it knows.  An empty queue wakes nobody.
ResumeAsync(x) ==
    /\ Dispatching /\ x \in Sessions \cap tasks
    /\ IF x \notin asyncQ THEN UNCHANGED <<vars>>
       ELSE IF x \in Range(ready) THEN Fail("list corrupted")
       ELSE /\ state' = [state EXCEPT ![x] = "READY"]
            /\ ready' = schedule_task_next(ready, x)
            /\ phase' = "sched"
            /\ UNCHANGED <<listVars, current, cpu, next, armed, asyncQ, fault>>

----------------------------------------------------------------------------
(* What a task other than the dispatcher does while it runs.  The shell    *)
(* only waits for the next character.                                      *)

Running(t) == Live /\ cpu = t /\ phase = "run"

Serving(t) == Running(t) /\ t \in Sessions

\* exit_task, then schedule().
ExitTask(t) ==
    /\ Serving(t)
    /\ suspend_task(t, "SUSPEND")
    /\ phase' = "sched"
    /\ UNCHANGED <<listVars, ready, cpu, next, armed, asyncQ, fault>>

\* sw_set_task_state(TASK_STATE_WAIT), then schedule(): sw_wait_event, the
\* shell's loop and otz_ipi all wait this way.
WaitEvent(t) ==
    /\ Running(t) /\ t # Disp
    /\ suspend_task(t, "WAIT")
    /\ phase' = "sched"
    /\ UNCHANGED <<listVars, ready, cpu, next, armed, asyncQ, fault>>

\* sw_wait_event_async links a node in the task's own notify_queue first.
WaitEventAsync(t) ==
    /\ Serving(t)
    /\ suspend_task(t, "WAIT")
    /\ asyncQ' = asyncQ \cup {t}
    /\ phase' = "sched"
    /\ UNCHANGED <<listVars, ready, cpu, next, armed, fault>>

\* sw_wait_done: the resumed task unlinks its node.
WaitDone(t) ==
    /\ Serving(t) /\ t \in asyncQ
    /\ asyncQ' = asyncQ \ {t}
    /\ UNCHANGED <<listVars, state, ready, current, cpu, phase, next, armed,
                   fault>>

\* sw_usleep: suspend, arm the timer, schedule().
sw_usleep(t) ==
    /\ Serving(t)
    /\ suspend_task(t, "WAIT")
    /\ armed' = armed \cup {t}
    /\ phase' = "sched"
    /\ UNCHANGED <<listVars, ready, cpu, next, asyncQ, fault>>

\* sw_sleep arms the timer first ...
sw_sleep(t) ==
    /\ Serving(t)
    /\ armed' = armed \cup {t}
    /\ phase' = "suspend"
    /\ UNCHANGED <<listVars, state, ready, current, cpu, next, asyncQ, fault>>

\* ... and suspends the task afterwards.
SleepSuspend ==
    /\ Live /\ phase = "suspend"
    /\ suspend_task(cpu, "WAIT")
    /\ phase' = "sched"
    /\ UNCHANGED <<listVars, ready, cpu, next, armed, asyncQ, fault>>

\* sw_wakeup(queue, WAKE_UP): the woken task joins the tail.
WakeUp(t, x) ==
    /\ Serving(t) /\ x \in (Sessions \cap tasks) \ {t}
    /\ schedule_task_id(x)
    /\ UNCHANGED <<listVars, current, cpu, phase, next, armed, asyncQ, fault>>

\* The kill system call: handle_task_return on another task.
SyscallKill(t, x) ==
    /\ Serving(t) /\ x \in (Sessions \cap tasks) \ {t}
    /\ suspend_task(x, "SUSPEND")
    /\ phase' = "sched"
    /\ UNCHANGED <<listVars, ready, cpu, next, armed, asyncQ, fault>>

\* The wait system call: x's only wait_head takes the caller, which is
\* suspended but keeps the core until it yields.
SyscallWait(t, x) ==
    /\ Serving(t) /\ x \in (Sessions \cap tasks) \ {t}
    /\ waiter' = [waiter EXCEPT ![x] = t]
    /\ looped' = IF waiter[x] = None THEN looped ELSE looped \cup {x}
    /\ suspend_task(t, "SUSPEND")
    /\ phase' = "waited"
    /\ UNCHANGED <<pool, tasks, ready, cpu, next, armed, asyncQ, fault>>

\* Any system call that looks up the current task dereferences NULL now.
ExitAfterWait ==
    /\ Live /\ phase = "waited"
    /\ Fail("panic")

----------------------------------------------------------------------------
(* FIQs.                                                                   *)

\* wake_up_from_sleep: the event carries a task id, not a task.
TimerFiq(x) ==
    /\ Live /\ x \in armed
    /\ armed' = armed \ {x}
    /\ schedule_task_id(x)
    /\ UNCHANGED <<listVars, current, cpu, phase, next, asyncQ, fault>>

\* serial_irq_handler wakes the shell.
UartFiq ==
    /\ Live
    /\ schedule_task_id(Shell)
    /\ UNCHANGED <<listVars, current, cpu, phase, next, armed, asyncQ, fault>>

----------------------------------------------------------------------------
DispatcherStep ==
    \/ NoFreeId
    \/ CreateTask
    \/ CreateRefused
    \/ \E x \in Id : StartTask(x) \/ DestroyTask(x) \/ ResumeAsync(x)

ServiceStep(t) ==
    \/ ExitTask(t)
    \/ WaitEvent(t)
    \/ WaitEventAsync(t)
    \/ WaitDone(t)
    \/ sw_usleep(t)
    \/ sw_sleep(t)
    \/ \E x \in Id : WakeUp(t, x) \/ SyscallKill(t, x) \/ SyscallWait(t, x)

SchedulerStep == Yield \/ SleepSuspend \/ GetNextTask \/ SwitchTo

Fiq == UartFiq \/ \E x \in Id : TimerFiq(x)

Next ==
    \/ DispatcherStep
    \/ \E t \in Id : ServiceStep(t)
    \/ SchedulerStep
    \/ ExitAfterWait
    \/ Fiq

Spec == Init /\ [][Next]_vars
----------------------------------------------------------------------------
(* Properties.                                                             *)

TypeOK ==
    /\ pool \subseteq Id
    /\ tasks \subseteq Id
    /\ state \in [Id -> States]
    /\ ready \in Seq(Id)
    /\ current \in Id \cup {None}
    /\ cpu \in Id
    /\ phase \in Phases
    /\ next \in Id \cup {None}
    /\ armed \subseteq Id
    /\ asyncQ \subseteq Id
    /\ waiter \in [Id -> Id \cup {None}]
    /\ looped \subseteq Id
    /\ fault \in Faults

\* The id of a live task is never free, so get_next_asid_val can never hand
\* it to a second session, whatever order creations, refusals and
\* destructions come in.
IdsOwned == tasks \subseteq pool

\* The ready list links every node once and only nodes of live tasks: the
\* scheduler never follows a freed structure nor runs a task twice per turn.
ReadyWellFormed ==
    /\ IsInjective(ready)
    /\ Range(ready) \subseteq tasks

\* A task marked runnable holds the core, was just chosen, or is linked in
\* the ready list: the state field and the list, updated in different
\* critical sections with FIQs in between, never lose a task.
NoTaskLost ==
    \A t \in tasks :
        state[t] \in {"RUNNING", "READY"} => t \in Range(ready) \cup {cpu, next}

\* A task executing its own code is never marked waiting or suspended.  It
\* would be if get_next_task ever chose the task that is just blocking:
\* scheduler() then returns without restoring its state, and the task would
\* be dropped at its next voluntary yield.
RunnerNotBlocked == Live /\ phase = "run" => ~Blocked(cpu)

(* The inductive invariant behind the two properties above.                *)

\* In r, no b stands before the first a.
Before(r, a, b) ==
    \A i \in DOMAIN r : r[i] = b => \E j \in DOMAIN r : j < i /\ r[j] = a

\* The dispatcher never blocks and is either on the core or queued; whatever
\* runs instead can only be queued behind it.
DispatcherQueued ==
    /\ Disp \in tasks /\ Shell \in tasks /\ state[Disp] = "RUNNING"
    /\ Disp \notin armed /\ \A x \in Id : waiter[x] # Disp
    /\ LET runner == IF phase = "switch" THEN next ELSE cpu
       IN  IF runner = Disp THEN Disp \notin Range(ready)
           ELSE Disp \in Range(ready) /\ Before(ready, Disp, runner)

\* current_task_id follows the core, and drops to none only on the way out.
CurrentFollowsCpu ==
    /\ cpu \in tasks
    /\ current \in {cpu, None}
    /\ cpu = Disp => current = Disp
    /\ phase \in {"run", "suspend"} => current = cpu /\ ~Blocked(cpu)
    /\ phase = "suspend" => cpu # Disp
    /\ phase = "waited" => cpu # Disp
    /\ current = None => Blocked(cpu) \/ cpu \in Range(ready)

\* get_next_task always finds a task, and never the one that is blocking.
ChosenIsAnother ==
    IF phase = "switch"
    THEN /\ next \in tasks
         /\ next = cpu => cpu = Disp
         /\ Blocked(cpu) \/ cpu \in Range(ready) \cup {next}
    ELSE next = None

SchedInv ==
    /\ TypeOK
    /\ IdsOwned
    /\ ReadyWellFormed
    /\ NoTaskLost
    /\ DispatcherQueued
    /\ CurrentFollowsCpu
    /\ ChosenIsAnother

\* The dispatcher, which alone can answer the non-secure world, keeps
\* getting the core.
DispatcherRuns == []<>(cpu = Disp \/ ~Live)

\* Every task put in the ready list gets the core, unless it is destroyed
\* while it waits: links inserted at the head never starve the tail.
ReadyRuns ==
    \A t \in Id : t \in Range(ready) ~> (cpu = t \/ t \notin tasks \/ ~Live)
=============================================================================
