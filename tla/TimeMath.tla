------------------------------ MODULE TimeMath ------------------------------
(***************************************************************************)
(* The arithmetic of times: the conversion of cycles by shifts             *)
(* (clockcycles_to_timeval), the sums and differences of sw_timer.c, and   *)
(* the duration task_usleep asks for.  A time is a pair of ints in one     *)
(* 64-bit word, which is added and subtracted as a whole: a carry or a     *)
(* borrow of the lower word, nsec, goes into sec.                          *)
(*                                                                         *)
(* One sleeper: it starts an event and the clock is read until it is due.  *)
(***************************************************************************)
EXTENDS Integers

CONSTANTS
    Starts,  \* readings of the clock at which a sleep starts
    Usecs,   \* the microseconds task_usleep is called with
    Steps,   \* cycles from one reading of the clock to the next
    MaxWait  \* bound: microseconds after a sleep has started

NANO_SECONDS_PER_SECOND == 1000000000
get_clock_period_us == 18
INT_MAX == 2147483647
LAP == 65535  \* TIMER_COUNT_MAX of this board

\* No reading is a lap of the counter away from the last one, whose microseconds
\* therefore fit the 32 bits of their product.
ASSUME TimeMathAssumption ==
    /\ Usecs \subseteq Nat /\ Steps \subseteq 1 .. LAP /\ MaxWait \in Nat
    /\ Starts \subseteq [sec : Nat, nsec : 0 .. NANO_SECONDS_PER_SECOND - 1]

VARIABLES
    clock,    \* sw_timestamp
    expiry,   \* timelen of the event, or the time of its start
    asked,    \* the microseconds asked for, or NotAsleep
    slept     \* history: the microseconds since, counted from the cycles

timevars == <<clock, expiry, asked, slept>>

NotAsleep == -1

T(s, n) == [sec |-> s, nsec |-> n]

----------------------------------------------------------------------------
\* 64-bit addition, for a first operand whose nsec is not negative, and
\* subtraction, for a second one.
\* As a word without sign a negative nsec is above all others.
Plus(u, v) ==
    T(u.sec + v.sec + (IF v.nsec < 0 /\ u.nsec + v.nsec >= 0 THEN 1 ELSE 0), u.nsec + v.nsec)
Minus(u, v) ==
    T(u.sec - v.sec - (IF u.nsec >= 0 /\ u.nsec < v.nsec THEN 1 ELSE 0), u.nsec - v.nsec)

\* Defect: the second that was carried is not counted.
add_time_carry(u, v) ==
    LET sum == Plus(u, v)
    IN IF sum.nsec > NANO_SECONDS_PER_SECOND - 1
       THEN T(sum.sec, sum.nsec - NANO_SECONDS_PER_SECOND) ELSE sum

add_time(u, v) ==
    LET sum == Plus(u, v)
    IN IF sum.nsec > NANO_SECONDS_PER_SECOND - 1
       THEN T(sum.sec + 1, sum.nsec - NANO_SECONDS_PER_SECOND) ELSE sum

subtract_time(u, v) ==
    LET diff == Minus(u, v)
    IN IF diff.nsec < 0 THEN T(diff.sec, diff.nsec + NANO_SECONDS_PER_SECOND) ELSE diff

\* A division by 1000, and a multiplication.
By1000(x) ==
    LET y == x \div 1024 IN y + ((3 * y) \div 128) + ((9 * y) \div 16384)
Times1000(x) == 1024 * x + 8 * x - 32 * x

Elapsed(cycles) == cycles * get_clock_period_us

clockcycles_to_timeval(cycles) ==
    LET usecs == Elapsed(cycles)
        sec == By1000(By1000(usecs))
    IN T(sec, Times1000(usecs - Times1000(Times1000(sec))))

\* The duration task_usleep works out, with shifts by 19 and 20.
UsleepTime(usecs) ==
    LET sec == (usecs \div 524288) - (usecs \div 1048576)
    IN T(sec, Times1000(usecs - Times1000(Times1000(sec))))

\* timer_interrupt: an event is due when it is at most a microsecond away.
Due ==
    LET diff == subtract_time(expiry, clock)
    IN ~ (diff.sec > 0 \/ (diff.sec = 0 /\ diff.nsec > 1000))

----------------------------------------------------------------------------
TimeMathInit == clock \in Starts /\ expiry = clock /\ asked = NotAsleep /\ slept = 0

\* task_usleep and timer_event_start.
task_usleep(usecs) ==
    /\ asked = NotAsleep
    /\ expiry' = add_time(clock, UsleepTime(usecs))
    /\ asked' = usecs
    /\ UNCHANGED <<clock, slept>>

\* read_timestamp, some cycles later.  Bound: while nsec stays an int of 32 bits.
ReadClock(cycles) ==
    /\ asked # NotAsleep /\ slept < MaxWait
    /\ clockcycles_to_timeval(cycles).nsec <= INT_MAX - clock.nsec
    /\ clock' = add_time(clock, clockcycles_to_timeval(cycles))
    /\ slept' = slept + Elapsed(cycles)
    /\ UNCHANGED <<expiry, asked>>

TimeMathNext ==
    \/ \E usecs \in Usecs : task_usleep(usecs)
    \/ \E cycles \in Steps : ReadClock(cycles)

TimeMathSpec == TimeMathInit /\ [][TimeMathNext]_timevars

----------------------------------------------------------------------------
Microseconds(t) == 1000000 * t.sec + t.nsec \div 1000

\* task_usleep neither rounds the seconds of the sleep under way up nor down.
Asleep == asked # NotAsleep /\ UsleepTime(asked).nsec \in 0 .. NANO_SECONDS_PER_SECOND - 1

\* Each reading of the clock adds exactly the time of the cycles that passed.
CountedExactly == Asleep => Microseconds(clock) - Microseconds(expiry) = slept - asked

\* A sleep is over when the clock has counted its microseconds, and not before,
\* for every duration whose seconds task_usleep does not round up or down,
\* through any readings of the clock, although clockcycles_to_timeval may leave
\* more than a second in nsec and add_time takes one second out of it at most.
SleepsIfExact == CountedExactly /\ (Asleep => (Due <=> slept + 1 >= asked))

----------------------------------------------------------------------------
(* What makes SleepsIfExact inductive.                                      *)

Within == 0 .. NANO_SECONDS_PER_SECOND - 1

SleepInv ==
    /\ {clock, expiry} \subseteq [sec : Int, nsec : Int]
    /\ asked \in Usecs \cup {NotAsleep} /\ slept \in Nat
    /\ asked = NotAsleep => slept = 0 /\ clock.nsec \in Within
    /\ Asleep => clock.nsec % 1000 = expiry.nsec % 1000 /\ expiry.nsec \in Within
    /\ CountedExactly

\* While readings are so close that none leaves a second in nsec, it never
\* holds one.
CloseReadings == \A c \in Steps : clockcycles_to_timeval(c).nsec \in Within
=============================================================================
