----------------------------- MODULE ClockCount -----------------------------
(***************************************************************************)
(* The clock of the secure kernel (core/sw_timer.c): read_timestamp adds   *)
(* what the free-running counter advanced since the last reading, the      *)
(* counter's overflow interrupt adds the rest of the lap.  A task's        *)
(* reading takes no lock, so both FIQs may fall between its statements;    *)
(* the tick FIQ reads the clock as well.                                   *)
(*                                                                         *)
(* The timestamp is kept in clock cycles.                                  *)
(***************************************************************************)
EXTENDS Integers

CONSTANTS
    TIMER_COUNT_MAX, \* the counter's largest value
    UIntRange,       \* 2^32: clockcycles_to_timeval takes an sw_uint
    MaxLaps          \* bound: laps of the counter

ASSUME ClockAssumption ==
    /\ TIMER_COUNT_MAX \in Nat \ {0} /\ MaxLaps \in Nat
    /\ UIntRange \in Nat /\ UIntRange > TIMER_COUNT_MAX

VARIABLES
    count,      \* the free-running counter
    laps,       \* how often it has overflowed
    overflow,   \* its interrupt is pending
    old_count,  \* cycles_count_old
    new_count,  \* cycles_count_new
    abs_cycles, \* abs_cycles_count
    timestamp,  \* sw_timestamp
    reading,    \* the next statement of a task's read_timestamp, or "no"
    tmp_cycles, \* its local
    late,       \* a reading met an overflow not yet accounted for (history)
    mixed        \* a FIQ disturbed a task's reading (history)

clockvars == <<count, laps, overflow, old_count, new_count, abs_cycles, timestamp, reading,
               tmp_cycles, late, mixed>>

\* init_sw_timer.
ClockInit ==
    /\ count = 0 /\ laps = 0 /\ overflow = FALSE
    /\ old_count = 0 /\ new_count = 0 /\ abs_cycles = 0 /\ timestamp = 0
    /\ reading = "no" /\ tmp_cycles = 0
    /\ late = FALSE /\ mixed = FALSE

\* The cycles clockcycles_to_timeval converts: a negative difference has
\* become a large unsigned one.
Converted(n) == IF n < 0 THEN n + UIntRange ELSE n

----------------------------------------------------------------------------
(* The counter.  Its interrupt is taken within a lap.                      *)

Counts ==
    /\ IF count < TIMER_COUNT_MAX
       THEN count' = count + 1 /\ UNCHANGED <<laps, overflow>>
       ELSE ~overflow /\ laps < MaxLaps /\ count' = 0 /\ laps' = laps + 1 /\ overflow' = TRUE
    /\ UNCHANGED <<old_count, new_count, abs_cycles, timestamp, reading, tmp_cycles, late, mixed>>

----------------------------------------------------------------------------
(* The FIQs.                                                               *)

\* Defect: the next lap is not counted from zero.
free_running_cntr_intr_keep ==
    /\ overflow /\ overflow' = FALSE
    /\ new_count' = TIMER_COUNT_MAX
    /\ abs_cycles' = abs_cycles + (TIMER_COUNT_MAX - old_count)
    /\ timestamp' = timestamp + Converted(TIMER_COUNT_MAX - old_count)
    /\ mixed' = (mixed \/ reading # "no")
    /\ UNCHANGED <<count, laps, old_count, reading, tmp_cycles, late>>

\* The rest of the lap; the cycle in which the counter returns to zero is not
\* counted.
free_running_cntr_intr ==
    /\ overflow /\ overflow' = FALSE
    /\ new_count' = TIMER_COUNT_MAX
    /\ abs_cycles' = abs_cycles + (TIMER_COUNT_MAX - old_count)
    /\ timestamp' = timestamp + Converted(TIMER_COUNT_MAX - old_count)
    /\ old_count' = 0
    /\ mixed' = (mixed \/ reading # "no")
    /\ UNCHANGED <<count, laps, reading, tmp_cycles, late>>

\* timer_interrupt reads the clock, undisturbed.  A task that has read the
\* counter and not yet used it finds a difference of zero.
timer_interrupt_reads ==
    /\ new_count' = count
    /\ abs_cycles' = abs_cycles + (count - old_count)
    /\ timestamp' = timestamp + Converted(count - old_count)
    /\ old_count' = count
    /\ late' = (late \/ overflow)
    /\ mixed' = (mixed \/ reading \notin {"no", "subtract"})
    /\ UNCHANGED <<count, laps, overflow, reading, tmp_cycles>>

----------------------------------------------------------------------------
(* read_timestamp of a task, statement by statement.  (An addition is a    *)
(* load and a store; a FIQ between them tears the reading like one before  *)
(* or after.)                                                              *)

read_timestamp ==
    /\ reading = "no" /\ reading' = "subtract"
    /\ new_count' = count
    /\ late' = (late \/ overflow)
    /\ UNCHANGED <<count, laps, overflow, old_count, abs_cycles, timestamp, tmp_cycles, mixed>>

Subtract ==
    /\ reading = "subtract" /\ reading' = "add"
    /\ tmp_cycles' = new_count - old_count
    /\ UNCHANGED <<count, laps, overflow, old_count, new_count, abs_cycles, timestamp, late, mixed>>

AddCycles ==
    /\ reading = "add" /\ reading' = "store"
    /\ abs_cycles' = abs_cycles + tmp_cycles
    /\ UNCHANGED <<count, laps, overflow, old_count, new_count, timestamp, tmp_cycles, late, mixed>>

StoreOld ==
    /\ reading = "store" /\ reading' = "add_time"
    /\ old_count' = new_count
    /\ UNCHANGED <<count, laps, overflow, new_count, abs_cycles, timestamp, tmp_cycles, late, mixed>>

AddTime ==
    /\ reading = "add_time" /\ reading' = "no"
    /\ timestamp' = timestamp + Converted(tmp_cycles)
    /\ UNCHANGED <<count, laps, overflow, old_count, new_count, abs_cycles, tmp_cycles, late, mixed>>

\* A mixed reading leaves the clock wrong for good: the model stops there.
ClockNext ==
    /\ ~mixed
    /\ \/ Counts \/ free_running_cntr_intr \/ timer_interrupt_reads
       \/ read_timestamp \/ Subtract \/ AddCycles \/ StoreOld \/ AddTime

ClockSpec == ClockInit /\ [][ClockNext]_clockvars
----------------------------------------------------------------------------
\* The cycles accounted for up to the last reading: whole laps, each one
\* cycle short, and the counter as it was read.
Accounted == (laps - (IF overflow THEN 1 ELSE 0)) * TIMER_COUNT_MAX + old_count

\* Between readings the count of cycles is exact up to one cycle a lap, also
\* when a reading meets an overflow whose interrupt is still to come: the
\* interrupt makes up for it.  The timestamp, which is what is read, is right
\* as long as no reading did.  Both hold until a FIQ falls inside a task's
\* reading, the tick's between its first two statements excepted.
ClockExact ==
    ~mixed /\ reading = "no" => abs_cycles = Accounted /\ (~late => timestamp = Accounted)

\* What makes it inductive: where the account stands after each statement of a
\* reading, and that the counter has not been overtaken unless an overflow is
\* pending or was met.
ClockInv ==
    /\ count \in 0 .. TIMER_COUNT_MAX /\ old_count \in 0 .. TIMER_COUNT_MAX
    /\ new_count \in 0 .. TIMER_COUNT_MAX
    /\ laps \in Nat /\ abs_cycles \in Int /\ timestamp \in Int /\ tmp_cycles \in Int
    /\ overflow \in BOOLEAN /\ late \in BOOLEAN /\ mixed \in BOOLEAN
    /\ reading \in {"no", "subtract", "add", "store", "add_time"}
    /\ ~mixed =>
          /\ ~overflow => old_count <= count /\ (reading # "no" => new_count <= count)
          /\ abs_cycles = Accounted + (IF reading = "store" THEN tmp_cycles ELSE 0)
          /\ ~late => timestamp = Accounted - (IF reading = "add_time" THEN tmp_cycles ELSE 0)
          /\ reading \in {"add", "store"} => tmp_cycles = new_count - old_count
          /\ ~late /\ reading = "subtract" => old_count <= new_count
          /\ ~late /\ reading \in {"add", "store", "add_time"} => tmp_cycles >= 0
=============================================================================
