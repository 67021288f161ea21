------------------------------ MODULE SwTimer ------------------------------
(***************************************************************************)
(* Timer events of the secure kernel (core/sw_timer.c) on the one-shot     *)
(* tick timer (arch/arm/armv7/cpu_api.c, drivers/zynq7/xilinx_timer.c).    *)
(*                                                                         *)
(* One task at a time is inside the timer API: the kernel is cooperative.  *)
(* The tick FIQ may arrive between any two of its critical sections.       *)
(* Times count clock cycles and are relative to the current one, as the    *)
(* clock only ever subtracts them from the timestamp; an expired time goes *)
(* down to -MaxLate.                                                       *)
(***************************************************************************)
EXTENDS Integers, Sequences, SequencesExt

CONSTANTS
    Event,     \* the timer_event structures the heap can hold
    NoEvent,   \* no event: no call is under way
    Durations, \* the durations tasks ask for, in clock cycles
    Period,    \* get_clock_period_us, also used as a number of cycles
    CountMax,  \* TIMER_COUNT_MAX
    CanStop,   \* may tasks call timer_event_stop
    SlowCalls, \* may a clock cycle pass while a task is inside the API
    MaxLate    \* bound: how late an event is told apart from later

ASSUME TimerAssumption ==
    /\ NoEvent \notin Event
    /\ Durations \subseteq Nat /\ \E d \in Durations : \A e \in Durations : e <= d
    /\ Period \in Nat \ {0} /\ CountMax \in Nat \ {0} /\ MaxLate \in Nat \ {0}
    /\ CanStop \in BOOLEAN /\ SlowCalls \in BOOLEAN

VARIABLES
    queue,    \* the list active of the tick clock, first first
    timelen,  \* expiry of each event
    state,    \* its state, "free" when the structure is not allocated
    next,     \* next_timelen
    hw,       \* cycles until the tick timer reaches its interval, or Off
    isr,      \* the tick interrupt is pending
    pc,       \* where the task stands in the timer API
    cur,      \* the event it passed
    cycles    \* clockcycles, a local of program_tick_for_event

timervars == <<queue, timelen, state, next, hw, isr, pc, cur, cycles>>

Longest == CHOOSE d \in Durations : \A e \in Durations : e <= d

\* TIMEVAL_MAX, and a timer that is disabled.
TIMEVAL_MAX == Longest + Period + CountMax + 1
Off == -1

Times == (-MaxLate) .. (Longest + Period)

PCs == {"idle", "expire", "add", "compare", "program", "trigger",
        "stop", "unlocked", "unlink", "aborted"}

\* The call returns.
Return == pc' = "idle" /\ cur' = NoEvent

TimerInit ==
    /\ queue = <<>>
    /\ timelen = [e \in Event |-> TIMEVAL_MAX]
    /\ state = [e \in Event |-> "free"]
    /\ next = TIMEVAL_MAX
    /\ hw = Off
    /\ isr = FALSE
    /\ pc = "idle"
    /\ cur = NoEvent
    /\ cycles = 0

----------------------------------------------------------------------------
(* Time.                                                                   *)

Elapse(x) == IF x = TIMEVAL_MAX \/ x = -MaxLate THEN x ELSE x - 1

\* The events whose expiry may still be read: those in use and the one passed
\* to the current call, which the FIQ may have freed meanwhile.
Timed(e) == state[e] = "active" \/ e = cur

\* A clock cycle.  An interrupt is taken within the cycle it is raised in.
Tick ==
    /\ ~isr
    /\ pc # "aborted" /\ (SlowCalls \/ pc = "idle")
    /\ timelen' = [e \in Event |-> IF Timed(e) THEN Elapse(timelen[e]) ELSE TIMEVAL_MAX]
    /\ next' = Elapse(next)
    /\ hw' = IF hw \in {Off, 1} THEN Off ELSE hw - 1
    /\ isr' = (hw = 1)
    /\ UNCHANGED <<queue, state, pc, cur, cycles>>

\* program_tick_for_event, timeval_to_clockcycles and trigger_tick: the
\* cycles the timer is set to for an expiry at x.  An expiry that is less than
\* a cycle away takes get_clock_period_us() cycles.
ClockCycles(x) == IF x < 0 THEN 1 ELSE IF x = 0 THEN Period ELSE x

\* The count is at least 1 already, by ClockCycles.
trigger_tick(n) == IF n > CountMax THEN CountMax ELSE n

----------------------------------------------------------------------------
(* timer_event_create, timer_event_start.                                  *)

timer_event_create(e) ==
    /\ pc = "idle" /\ state[e] = "free"
    /\ state' = [state EXCEPT ![e] = "inactive"]
    /\ timelen' = [timelen EXCEPT ![e] = TIMEVAL_MAX]
    /\ UNCHANGED <<queue, next, hw, isr, pc, cur, cycles>>

\* An event that is new or stopped; those that expire free themselves.
timer_event_start(e) ==
    /\ pc = "idle" /\ state[e] = "inactive"
    /\ cur' = e
    /\ pc' = "expire"
    /\ UNCHANGED <<queue, timelen, state, next, hw, isr, cycles>>

timer_event_set_expire ==
    /\ pc = "expire"
    /\ \E d \in Durations : timelen' = [timelen EXCEPT ![cur] = d]
    /\ pc' = "add"
    /\ UNCHANGED <<queue, state, next, hw, isr, cur, cycles>>

\* Before the first event that expires later.
timer_queue_add ==
    LET later == {i \in DOMAIN queue : timelen[cur] < timelen[queue[i]]}
        at    == IF later = {} THEN Len(queue) + 1
                 ELSE CHOOSE i \in later : \A j \in later : i <= j
    IN  InsertAt(queue, at, cur)

\* The critical section.
Add ==
    /\ pc = "add"
    /\ queue' = timer_queue_add
    /\ state' = [state EXCEPT ![cur] = "active"]
    /\ pc' = "compare"
    /\ UNCHANGED <<timelen, next, hw, isr, cur, cycles>>

\* Defect: the hardware is programmed for later expiries only.
Compare_swapped ==
    /\ pc = "compare"
    /\ IF next < timelen[cur] THEN pc' = "program" /\ UNCHANGED cur ELSE Return
    /\ UNCHANGED <<queue, timelen, state, next, hw, isr, cycles>>

\* The event may have been executed and freed since; its memory is unchanged.
Compare ==
    /\ pc = "compare"
    /\ IF next > timelen[cur] THEN pc' = "program" /\ UNCHANGED cur ELSE Return
    /\ UNCHANGED <<queue, timelen, state, next, hw, isr, cycles>>

Program ==
    /\ pc = "program"
    /\ cycles' = ClockCycles(timelen[cur])
    /\ next' = timelen[cur]
    /\ pc' = "trigger"
    /\ UNCHANGED <<queue, timelen, state, hw, isr, cur>>

\* The counter restarts; an interrupt that is already pending stays so.
Trigger ==
    /\ pc = "trigger"
    /\ hw' = trigger_tick(cycles)
    /\ cycles' = 0
    /\ Return
    /\ UNCHANGED <<queue, timelen, state, next, isr>>

----------------------------------------------------------------------------
(* The tick FIQ.                                                           *)

\* The events at the head of the queue that have expired.
Expired ==
    CHOOSE k \in 0 .. Len(queue) :
        /\ \A i \in 1 .. k : timelen[queue[i]] <= 0
        /\ k < Len(queue) => timelen[queue[k + 1]] > 0

\* Defect: the timer is not programmed for the events that are left.
timer_interrupt_last ==
    /\ isr /\ pc # "aborted"
    /\ isr' = FALSE
    /\ queue' = SubSeq(queue, Expired + 1, Len(queue))
    /\ state' = [e \in Event |->
                   IF \E i \in 1 .. Expired : queue[i] = e THEN "free" ELSE state[e]]
    /\ hw' = Off
    /\ next' = TIMEVAL_MAX
    /\ UNCHANGED <<timelen, pc, cur, cycles>>

\* secure_timer_irq_handler and timer_interrupt: the timer is disabled, the
\* handlers of the expired events run and free them, the timer is programmed
\* for the first that is left, and next_timelen is reset whatever happened.
timer_interrupt ==
    /\ isr /\ pc # "aborted"
    /\ isr' = FALSE
    /\ queue' = SubSeq(queue, Expired + 1, Len(queue))
    /\ state' = [e \in Event |->
                   IF \E i \in 1 .. Expired : queue[i] = e THEN "free" ELSE state[e]]
    /\ hw' = IF Expired = Len(queue) THEN Off
             ELSE trigger_tick(ClockCycles(timelen[queue[Expired + 1]]))
    /\ next' = TIMEVAL_MAX
    /\ UNCHANGED <<timelen, pc, cur, cycles>>

----------------------------------------------------------------------------
(* timer_event_stop and timer_event_destroy.                               *)

timer_event_stop(e) ==
    /\ CanStop /\ pc = "idle" /\ state[e] = "active"
    /\ cur' = e
    /\ pc' = "stop"
    /\ UNCHANGED <<queue, timelen, state, next, hw, isr, cycles>>

\* The first critical section asks whether the event is the first.
StopFirst ==
    /\ pc = "stop"
    /\ pc' = IF queue # <<>> /\ Head(queue) = cur THEN "unlocked" ELSE "unlink"
    /\ UNCHANGED <<queue, timelen, state, next, hw, isr, cur, cycles>>

\* If so the timer is set for the event that follows, without the lock.
\* remove_link poisons the links of a node: to follow them again is an abort.
StopProgram ==
    /\ pc = "unlocked"
    /\ LET linked == queue # <<>> /\ Head(queue) = cur
           after  == IF Len(queue) > 1 THEN timelen[queue[2]] ELSE TIMEVAL_MAX
       IN  IF next = timelen[cur] /\ linked /\ after # next
           THEN /\ next' = after
                /\ hw' = trigger_tick(ClockCycles(after))
                /\ pc' = "unlink"
           ELSE /\ pc' = IF next = timelen[cur] /\ ~linked THEN "aborted" ELSE "unlink"
                /\ UNCHANGED <<next, hw>>
    /\ UNCHANGED <<queue, timelen, state, isr, cur, cycles>>

\* The second critical section unlinks the event, linked or not.
StopUnlink ==
    /\ pc = "unlink"
    /\ IF cur \in Range(queue)
       THEN /\ queue' = RemoveFirst(queue, cur)
            /\ state' = [state EXCEPT ![cur] = "inactive"]
            /\ Return
       ELSE /\ pc' = "aborted"
            /\ UNCHANGED <<queue, state, cur>>
    /\ UNCHANGED <<timelen, next, hw, isr, cycles>>

\* EBUSY unless the event is inactive.
timer_event_destroy(e) ==
    /\ pc = "idle" /\ state[e] = "inactive"
    /\ state' = [state EXCEPT ![e] = "free"]
    /\ UNCHANGED <<queue, timelen, next, hw, isr, pc, cur, cycles>>

----------------------------------------------------------------------------
ApiStep ==
    \/ timer_event_set_expire \/ Add \/ Compare \/ Program \/ Trigger
    \/ StopFirst \/ StopProgram \/ StopUnlink

Call(e) ==
    \/ timer_event_create(e) \/ timer_event_start(e)
    \/ timer_event_stop(e) \/ timer_event_destroy(e)

TimerNext == Tick \/ timer_interrupt \/ ApiStep \/ \E e \in Event : Call(e)

TimerSpec == TimerInit /\ [][TimerNext]_timervars
----------------------------------------------------------------------------
TimerTypeOK ==
    /\ queue \in Seq(Event)
    /\ timelen \in [Event -> Times \cup {TIMEVAL_MAX}]
    /\ state \in [Event -> {"free", "inactive", "active"}]
    /\ next \in Times \cup {TIMEVAL_MAX}
    /\ hw \in {Off} \cup 1 .. CountMax
    /\ isr \in BOOLEAN
    /\ pc \in PCs
    /\ cur \in Event \cup {NoEvent}
    /\ cycles \in 0 .. TIMEVAL_MAX

\* The queue is in order of expiry and links exactly the active events, once
\* each: timer_interrupt may stop at the first that has not expired, and
\* timer_event_destroy never frees a structure that is linked.
QueueExact ==
    /\ TimerTypeOK
    /\ \A i, j \in DOMAIN queue : i < j => timelen[queue[i]] <= timelen[queue[j]]
    /\ IsInjective(queue)
    /\ \A e \in Event : e \in Range(queue) <=> state[e] = "active"

\* While events wait and no call is under way, an interrupt is pending or
\* the timer runs, whatever the order of starts and interrupts.
Armed == pc = "idle" /\ queue # <<>> => isr \/ hw # Off

\* No event is forgotten: what is queued is exact and a tick will come for it.
TimerSafe == QueueExact /\ Armed

\* What makes both inductive: the event passed to a call under way is known, a
\* start has not been overtaken by the FIQ before it links its event, and the
\* timer runs whenever next_timelen says so, except between the two statements
\* that set them.
TimerInv ==
    /\ QueueExact
    /\ pc # "idle" => cur \in Event
    /\ pc \in {"expire", "add"} => state[cur] = "inactive"
    /\ pc \in {"add", "compare", "program", "trigger"} => timelen[cur] # TIMEVAL_MAX
    /\ pc = "trigger" => cycles > 0
    /\ next # TIMEVAL_MAX /\ pc # "trigger" => isr \/ hw # Off
    /\ queue # <<>> /\ pc \notin {"compare", "program", "trigger"} => isr \/ hw # Off

\* The interrupt comes when the first event expires, or one clock period
\* later.
ArmedInTime ==
    pc = "idle" /\ queue # <<>> /\ ~isr =>
        hw <= Period + (IF timelen[Head(queue)] > 0 THEN timelen[Head(queue)] ELSE 0)

\* An active event is executed sooner or later: it leaves the queue, even if
\* others keep being started.
EventFires ==
    \A e \in Event : state[e] = "active" ~> (state[e] # "active" \/ pc = "aborted")
=============================================================================
