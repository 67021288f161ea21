---------------------------- MODULE SwSemaphore ----------------------------
(***************************************************************************)
(* The counting semaphore of the secure kernel (lib/kernel/sw_semaphores.c, *)
(* its ldrex/strex primitives in sw_semaphores_asm.S) over the wait queue  *)
(* of sw_wait.c and the cooperative scheduler.                             *)
(*                                                                         *)
(* A system call runs until its task yields, so each call is one action up *)
(* to the point where it blocks.  The scheduler is the round robin of      *)
(* TaskSched, reduced to its ready list; the dispatcher only yields.       *)
(***************************************************************************)
EXTENDS Naturals, Sequences, FiniteSets, SequencesExt

CONSTANTS
    SemTask,     \* the tasks that use the semaphore
    SemDisp,     \* the dispatcher
    Count        \* the value given to _sw_semaphore_init

ASSUME SemAssumption ==
    /\ IsFiniteSet(SemTask) /\ SemDisp \notin SemTask
    /\ Count \in Nat \ {0}

VARIABLES
    counter,   \* counter_param
    condition, \* condition
    deleted,   \* the structure has been freed
    waitq,     \* tasks whose node is linked in wait_queue, first first
    waits,     \* what each task waits for inside sw_wait_event
    units,     \* units acquired and not released (history)
    over,      \* a task released what it had not acquired (history)
    sem_ready, \* ready_to_run_list
    sem_cpu    \* the running task

semvars == <<counter, condition, deleted, waitq, waits, units, over, sem_ready, sem_cpu>>

SemInit ==
    /\ counter = Count
    /\ condition = (Count = 0)
    /\ deleted = FALSE
    /\ waitq = <<>>
    /\ waits = [t \in SemTask \cup {SemDisp} |-> "no"]
    /\ units = [t \in SemTask |-> 0]
    /\ over = FALSE
    /\ \E order \in SetToSeqs(SemTask) : sem_ready = order
    /\ sem_cpu = SemDisp

----------------------------------------------------------------------------
(* The scheduler and the wait queue.                                       *)

sem_schedule_task(r, t) == IF t \in Range(r) THEN r ELSE Append(r, t)

\* schedule(): the running task goes to the tail.
SemYield ==
    /\ waits[sem_cpu] = "no"
    /\ LET r == sem_schedule_task(sem_ready, sem_cpu)
       IN  sem_cpu' = Head(r) /\ sem_ready' = Tail(r)
    /\ UNCHANGED <<counter, condition, deleted, waitq, waits, units, over>>

\* sw_wakeup(WAKE_UP) with queue q: its first task, if any, becomes ready.  The
\* node stays linked until the woken task unlinks it.
sw_wakeup(q) == IF q = <<>> THEN sem_ready ELSE sem_schedule_task(sem_ready, Head(q))

\* One round of sw_wait_event for task t, its condition false: the node is
\* linked once, at the tail, and the task gives the core up without joining
\* the ready list.  (Without memory for the node the caller's loop spins.)
sw_wait_event(t, what, q) ==
    /\ waitq' = sem_schedule_task(q, t)
    /\ waits' = [waits EXCEPT ![t] = what]
    /\ sem_cpu' = Head(sem_ready)
    /\ sem_ready' = Tail(sem_ready)

\* sw_wait_done: the node is unlinked.
sw_wait_done(t) == RemoveFirst(waitq, t)

----------------------------------------------------------------------------
(* The operations.                                                         *)

SemRuns(t) == sem_cpu = t /\ ~deleted

\* The history of units held stops counting at Count, which only tasks that
\* release more than they acquired can reach.
Plus1(n) == IF n < Count THEN n + 1 ELSE n

\* Defect: no wake-up after a successful acquire.
Acquired_quiet(t, q) ==
    /\ counter' = counter - 1
    /\ condition' = (counter - 1 = 0)
    /\ units' = [units EXCEPT ![t] = Plus1(@)]
    /\ waits' = [waits EXCEPT ![t] = "no"]
    /\ waitq' = q
    /\ UNCHANGED <<sem_ready, sem_cpu>>

\* cpu_acquire_semaphore succeeded: the condition is recomputed and the next
\* waiter is woken.
Acquired(t, q) ==
    /\ counter' = counter - 1
    /\ condition' = (counter - 1 = 0)
    /\ units' = [units EXCEPT ![t] = Plus1(@)]
    /\ waits' = [waits EXCEPT ![t] = "no"]
    /\ waitq' = q
    /\ sem_ready' = sw_wakeup(q)
    /\ UNCHANGED sem_cpu

\* _sw_acquire_semaphore.
sw_acquire_semaphore(t) ==
    /\ SemRuns(t) /\ waits[t] = "no"
    /\ IF counter > 0 THEN Acquired(t, waitq)
       ELSE sw_wait_event(t, "unit", waitq) /\ UNCHANGED <<counter, condition, units>>
    /\ UNCHANGED <<deleted, over>>

\* The waiting task runs again: it leaves the queue when it sees a unit, and
\* waits on, still linked, when it does not.
SemAcquireAgain(t) ==
    /\ SemRuns(t) /\ waits[t] = "unit"
    /\ IF counter > 0 THEN Acquired(t, sw_wait_done(t))
       ELSE sw_wait_event(t, "unit", waitq) /\ UNCHANGED <<counter, condition, units>>
    /\ UNCHANGED <<deleted, over>>

\* cpu_release_semaphore: refused when the counter is at its initial value.
\* The refused task waits for condition, which says that the counter is zero.
Release(t, q) ==
    IF counter # Count
    THEN /\ counter' = counter + 1
         /\ units' = [units EXCEPT ![t] = IF @ = 0 THEN 0 ELSE @ - 1]
         /\ waits' = [waits EXCEPT ![t] = "no"]
         /\ waitq' = q
         /\ sem_ready' = sw_wakeup(q)
         /\ UNCHANGED <<condition, sem_cpu>>
    ELSE /\ condition' = (counter = 0)
         /\ sw_wait_event(t, "room", q)
         /\ UNCHANGED <<counter, units>>

sw_release_semaphore(t) ==
    /\ SemRuns(t) /\ waits[t] = "no"
    /\ over' = (over \/ units[t] = 0)
    /\ Release(t, waitq)
    /\ UNCHANGED deleted

ReleaseAgain(t) ==
    /\ SemRuns(t) /\ waits[t] = "room"
    /\ IF condition THEN Release(t, sw_wait_done(t))
       ELSE sw_wait_event(t, "room", waitq) /\ UNCHANGED <<counter, condition, units>>
    /\ UNCHANGED <<deleted, over>>

\* _sw_delete_semaphore: counter_param is unsigned, so "< 0" never refuses.
sw_delete_semaphore(t) ==
    /\ SemRuns(t) /\ waits[t] = "no"
    /\ deleted' = TRUE
    /\ counter' = 0
    /\ UNCHANGED <<condition, waitq, waits, units, over, sem_ready, sem_cpu>>

----------------------------------------------------------------------------
SemTaskStep(t) ==
    \/ sw_acquire_semaphore(t)
    \/ SemAcquireAgain(t)
    \/ sw_release_semaphore(t)
    \/ ReleaseAgain(t)
    \/ sw_delete_semaphore(t)

SemNext == SemYield \/ \E t \in SemTask : SemTaskStep(t)

SemSpec == SemInit /\ [][SemNext]_semvars

\* The running task eventually gives the core up, and one that is inside
\* sw_wait_event goes on with its loop.
SchedStep ==
    \/ SemYield
    \/ \E t \in SemTask : SemAcquireAgain(t) \/ ReleaseAgain(t)
----------------------------------------------------------------------------
SemTypeOK ==
    /\ counter \in 0 .. Count
    /\ condition \in BOOLEAN /\ deleted \in BOOLEAN /\ over \in BOOLEAN
    /\ waitq \in Seq(SemTask)
    /\ waits \in [SemTask \cup {SemDisp} -> {"no", "unit", "room"}]
    /\ units \in [SemTask -> 0 .. Count]
    /\ sem_ready \in Seq(SemTask \cup {SemDisp})
    /\ sem_cpu \in SemTask \cup {SemDisp}

\* The queue links exactly the tasks inside sw_wait_event, once each,
\* whatever the tasks do.
WaitersExact ==
    /\ IsInjective(waitq)
    /\ \A t \in SemTask : t \in Range(waitq) <=> waits[t] # "no"

\* What follows holds as long as the tasks use the semaphore as one: nobody
\* has released a unit it had not acquired, nor deleted the semaphore.
Disciplined == ~over /\ ~deleted

\* The units held, each named by its task and its number there.
Held == {x \in SemTask \X (1 .. Count) : x[2] <= units[x[1]]}

\* The units held never exceed the units there are: a wait that was cut short
\* or a wake-up given to two tasks never lets two tasks take the same unit.
UnitsConserved == Disciplined => counter + Cardinality(Held) = Count

\* When a unit is there and tasks wait for one, the first of them has been
\* woken: it runs or is going to.  sw_wakeup only ever wakes the first node.
NoLostWakeup ==
    Disciplined /\ counter > 0 /\ waitq # <<>> =>
        Head(waitq) \in Range(sem_ready) \cup {sem_cpu}

\* The four together, in every order of calls, yields and wake-ups.
SemaphoreSafe == SemTypeOK /\ WaitersExact /\ UnitsConserved /\ NoLostWakeup

\* What makes them inductive: the dispatcher is never lost, so the core always
\* has somebody to go to, and a release is refused only to a task that holds
\* nothing.
SemInv ==
    /\ SemaphoreSafe
    /\ SemDisp \in Range(sem_ready) \cup {sem_cpu}
    /\ Disciplined => \A t \in SemTask : waits[t] # "room"

\* A task waiting for a unit is not left waiting while units are there.
ReleaseWakes ==
    \A t \in SemTask :
        waits[t] = "unit" /\ counter > 0
            ~> (waits[t] # "unit" \/ counter = 0 \/ ~Disciplined)
=============================================================================
