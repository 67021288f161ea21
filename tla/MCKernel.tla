------------------------------ MODULE MCKernel ------------------------------
(* A TLC instance of kernel objects, most of which meet FIQs inside a call: a *)
(* behaviour is one of the mutex, the timer events, the clock, a sleep or the  *)
(* shared segments.                                                            *)
EXTENDS SwMutex, SwTimer, ClockCount, TimeMath, SwShm

CONSTANTS one, two, three

ThreeOf == {one, two, three}

\* A second begins, is under way, is about to end.
Readings == {T(0, 0), T(5, 400000000), T(1, 999999000)}

\* Below and above the multiples of 2^19 and of a million, and one and two above the
\* time of 56000 cycles.
Microsecs ==
    {0, 100000, 250000, 500000, 600000, 1000000, 1008001, 1008002, 1100000, 1500000,
     1600000, 1950000, 2000000}

VARIABLE part

segvars == <<mem, pt, shmvars>>
kernelvars == <<part, mutexvars, timervars, clockvars, timevars, segvars>>

KernelInit ==
    /\ part \in {"mutex", "timer", "clock", "sleep", "segments"}
    /\ MutexInit /\ TimerInit /\ ClockInit /\ TimeMathInit /\ ShmInit
    /\ part # "mutex" => mutex_ready = SetToSeq(MutexTask)
    /\ part # "sleep" => clock = T(0, 0)

MutexPart == part = "mutex" /\ MutexNext /\ UNCHANGED <<part, timervars, clockvars, timevars, segvars>>
TimerPart == part = "timer" /\ TimerNext /\ UNCHANGED <<part, mutexvars, clockvars, timevars, segvars>>
ClockPart == part = "clock" /\ ClockNext /\ UNCHANGED <<part, mutexvars, timervars, timevars, segvars>>
SleepPart == part = "sleep" /\ TimeMathNext /\ UNCHANGED <<part, mutexvars, timervars, clockvars, segvars>>

SegmentPart ==
    part = "segments" /\ ShmNext /\ UNCHANGED <<part, mutexvars, timervars, clockvars, timevars>>

KernelNext == MutexPart \/ TimerPart \/ ClockPart \/ SleepPart \/ SegmentPart

\* Time passes, interrupts are taken, and a call of the timer API that has
\* begun goes on.
KernelSpec ==
    /\ KernelInit /\ [][KernelNext]_kernelvars
    /\ WF_timervars(part = "timer" /\ Tick)
    /\ WF_timervars(part = "timer" /\ timer_interrupt)
    /\ WF_timervars(part = "timer" /\ ApiStep)
=============================================================================
