-------------------------------- MODULE Gic --------------------------------
(***************************************************************************)
(* The interrupt controller (drivers/common/sw_gic.c), the FIQ handler     *)
(* (arch/arm/armv7/exception_handlers.c) and the timers and the keyboard   *)
(* that interrupt the secure world (drivers/zynq7, apps/shell_process_     *)
(* task.c).                                                                *)
(*                                                                         *)
(* Interrupts of group 0 are signalled to the secure world as FIQ, those   *)
(* of group 1 to Linux as IRQ.  All are level triggered and of one         *)
(* priority.  A register of 32 bits is the set of interrupt numbers whose  *)
(* bit is set.                                                             *)
(***************************************************************************)
EXTENDS Integers, FiniteSets, FiniteSetsExt

\* drivers/zynq7/include: the numbers.
NS_SGI_NOTIFY_INTERRUPT == 7
FREE_RUNNING_TIMER_IRQ == 69
TICK_TIMER_IRQ == 70
KEY_PRESS_IRQ == 82
LinuxDevice == 61  \* any other shared interrupt

Timers == {FREE_RUNNING_TIMER_IRQ, TICK_TIMER_IRQ}
Private == 0 .. 31
Shared == 32 .. 95

VARIABLES
    boot,     \* the stage secure_main has reached
    grp1,     \* interrupt group registers: the interrupts of Linux
    enabled,  \* set-enable registers
    level,    \* the sources that ask for service
    active,   \* acknowledged and not ended
    fiq,      \* where fiq_c_handler is
    cur,      \* the interrupt it was told of
    counting, \* timers that run
    handlers, \* task_irq_handler: the interrupts with a handler
    taken     \* history: which world was interrupted by what

gicvars == <<boot, grp1, enabled, level, active, fiq, cur, counting, handlers, taken>>

NoInt == 1023

GicInit ==
    /\ boot = "reset" /\ grp1 = {} /\ enabled = {} /\ level = {} /\ active = {}
    /\ fiq = "no" /\ cur = NoInt /\ counting = {} /\ handlers = {} /\ taken = {}

----------------------------------------------------------------------------
(* drivers/common/sw_gic.c *)

sw_gic_mask_interrupt(n) == enabled \ {n}
sw_gic_unmask_interrupt(n) == enabled \cup {n}

\* All shared ones are Linux's, except the timers and the shell's.
sw_config_sec_non_sec_int(g) == (g \cup Shared) \ (Timers \cup {KEY_PRESS_IRQ})

\* Trigger, target and priority are the same for all; nothing is enabled.
sw_gic_distributor_init ==
    /\ boot = "reset" /\ boot' = "distributor"
    /\ grp1' = sw_config_sec_non_sec_int(grp1)
    /\ enabled' = enabled \ Shared
    /\ UNCHANGED <<level, active, fiq, cur, counting, handlers, taken>>

\* The register of the private interrupts only: generated ones 0 to 7 and the
\* processor's are Linux's, and the generated ones are enabled.
sw_gic_cpu_interface_init ==
    /\ boot = "distributor" /\ boot' = "up"
    /\ grp1' = (grp1 \ Private) \cup (0 .. 7) \cup (16 .. 31)
    /\ enabled' = (enabled \ Private) \cup (0 .. 15)
    /\ UNCHANGED <<level, active, fiq, cur, counting, handlers, taken>>

\* The bit that says Linux is read at the place the register's own value gives,
\* and one that disagrees with the group is not forwarded.
sw_generate_soft_int(n) ==
    LET place == SumSet({2 ^ b : b \in (0 .. 4) \cap grp1})
        linux == place \in grp1
    IN level' = IF linux <=> n \in grp1 THEN level \cup {n} ELSE level

----------------------------------------------------------------------------
(* The secure world *)

\* enable_timer: the free-running timer, once.
enable_timer ==
    /\ boot = "up" /\ boot' = "timer" /\ fiq = "no"
    /\ counting' = counting \cup {FREE_RUNNING_TIMER_IRQ}
    /\ enabled' = sw_gic_unmask_interrupt(FREE_RUNNING_TIMER_IRQ)
    /\ UNCHANGED <<grp1, level, active, fiq, cur, handlers, taken>>

\* secure_timer_enable: counting, then unmasked.
trigger_tick ==
    /\ counting' = counting \cup {TICK_TIMER_IRQ}
    /\ enabled' = sw_gic_unmask_interrupt(TICK_TIMER_IRQ)

\* A task starts a timer event.
StartTick ==
    /\ boot \notin {"reset", "distributor", "up"} /\ fiq = "no"
    /\ trigger_tick
    /\ UNCHANGED <<boot, grp1, level, active, fiq, cur, handlers, taken>>

\* shell_process_task: the keyboard is unmasked, then its handler is known.
ShellUnmask ==
    /\ boot = "timer" /\ boot' = "shell" /\ fiq = "no"
    /\ enabled' = sw_gic_unmask_interrupt(KEY_PRESS_IRQ)
    /\ UNCHANGED <<grp1, level, active, fiq, cur, counting, handlers, taken>>

register_secure_irq_handler ==
    /\ boot = "shell" /\ boot' = "done" /\ fiq = "no"
    /\ handlers' = handlers \cup {KEY_PRESS_IRQ}
    /\ UNCHANGED <<grp1, enabled, level, active, fiq, cur, counting, taken>>

\* The way back to Linux with a notification pending.
NotifyLinux ==
    /\ boot \notin {"reset", "distributor"} /\ fiq = "no"
    /\ sw_generate_soft_int(NS_SGI_NOTIFY_INTERRUPT)
    /\ UNCHANGED <<boot, grp1, enabled, active, fiq, cur, counting, handlers, taken>>

Asking(g) == (level \cap enabled \cap g) \ active

\* sw_get_current_active_irq: the lowest number of those of the group.
FiqEnter ==
    /\ boot \notin {"reset", "distributor"} /\ fiq = "no"
    /\ Asking((Private \cup Shared) \ grp1) # {}
    /\ LET n == Min(Asking((Private \cup Shared) \ grp1))
       IN cur' = n /\ active' = active \cup {n} /\ taken' = taken \cup {<<"secure", n>>}
    /\ fiq' = "acked"
    /\ UNCHANGED <<boot, grp1, enabled, level, counting, handlers>>

\* The interrupt is ended before it is handled.
sw_gic_ack_irq ==
    /\ fiq = "acked" /\ fiq' = "handle"
    /\ active' = active \ {cur}
    /\ UNCHANGED <<boot, grp1, enabled, level, cur, counting, handlers, taken>>

\* secure_timer_disable.
secure_timer_disable ==
    /\ counting' = counting \ {TICK_TIMER_IRQ}
    /\ enabled' = sw_gic_mask_interrupt(TICK_TIMER_IRQ)

\* Defect: an expired tick leaves the interrupt masked, whatever it armed.
TickHandler_masked ==
    /\ fiq = "handle" /\ cur = TICK_TIMER_IRQ /\ fiq' = "clear"
    /\ enabled' = sw_gic_mask_interrupt(TICK_TIMER_IRQ)
    /\ counting' \in {counting, counting \ {TICK_TIMER_IRQ}}
    /\ UNCHANGED <<boot, grp1, level, active, cur, handlers, taken>>

\* The timer is stopped; timer_interrupt may start it for the next event, and
\* only then the status is cleared.
TickHandler ==
    /\ fiq = "handle" /\ cur = TICK_TIMER_IRQ /\ fiq' = "clear"
    /\ secure_timer_disable \/ trigger_tick
    /\ UNCHANGED <<boot, grp1, level, active, cur, handlers, taken>>

TickClear ==
    /\ fiq = "clear" /\ fiq' = "no" /\ level' = level \ {TICK_TIMER_IRQ}
    /\ UNCHANGED <<boot, grp1, enabled, active, cur, counting, handlers, taken>>

\* free_running_cntr_intr, or the handler of invoke_irq_handler; without one
\* the source is not served.
OtherHandler ==
    /\ fiq = "handle" /\ cur # TICK_TIMER_IRQ /\ fiq' = "no"
    /\ level' = IF cur = FREE_RUNNING_TIMER_IRQ \/ cur \in handlers THEN level \ {cur} ELSE level
    /\ UNCHANGED <<boot, grp1, enabled, active, cur, counting, handlers, taken>>

----------------------------------------------------------------------------
(* Around it *)

\* A timer expires, a key is pressed, a device asks for Linux.
Raise(n) ==
    /\ n \in counting \cup {KEY_PRESS_IRQ, LinuxDevice}
    /\ level' = level \cup {n}
    /\ UNCHANGED <<boot, grp1, enabled, active, fiq, cur, counting, handlers, taken>>

\* Linux enables an interrupt of its own: the others it cannot write.
LinuxEnables ==
    /\ boot \notin {"reset", "distributor"} /\ LinuxDevice \in grp1
    /\ enabled' = enabled \cup {LinuxDevice}
    /\ UNCHANGED <<boot, grp1, level, active, fiq, cur, counting, handlers, taken>>

LinuxServes ==
    /\ boot \notin {"reset", "distributor"} /\ fiq = "no" /\ Asking(grp1) # {}
    /\ LET n == Min(Asking(grp1)) IN level' = level \ {n} /\ taken' = taken \cup {<<"linux", n>>}
    /\ UNCHANGED <<boot, grp1, enabled, active, fiq, cur, counting, handlers>>

FiqStep == FiqEnter \/ sw_gic_ack_irq \/ TickHandler \/ TickClear \/ OtherHandler

GicNext ==
    \/ sw_gic_distributor_init \/ sw_gic_cpu_interface_init \/ enable_timer \/ StartTick
    \/ ShellUnmask \/ register_secure_irq_handler \/ NotifyLinux
    \/ FiqStep
    \/ LinuxEnables \/ LinuxServes
    \/ \E n \in Timers \cup {KEY_PRESS_IRQ, LinuxDevice} : Raise(n)

GicSpec == GicInit /\ [][GicNext]_gicvars

----------------------------------------------------------------------------
(* Properties *)

\* Each world is interrupted by its own interrupts only, none stays active
\* once its handler is left, and a tick timer that counts is heard: neither
\* the order of the initialisation nor a tick that arms the next one from
\* within its own handler undoes this.
InterruptsApart ==
    /\ taken \subseteq ({"secure"} \X (Timers \cup {KEY_PRESS_IRQ}))
                       \cup ({"linux"} \X {NS_SGI_NOTIFY_INTERRUPT, LinuxDevice})
    /\ fiq = "no" => active = {}
    /\ TICK_TIMER_IRQ \in counting <=> TICK_TIMER_IRQ \in enabled

\* What makes it inductive: the groups once the controller is set up, which
\* sources there are and which interrupts are ever enabled, and the interrupt
\* that is active while fiq_c_handler is at work.
GicInv ==
    /\ InterruptsApart
    /\ boot \in {"reset", "distributor", "up", "timer", "shell", "done"}
    /\ boot \in {"reset", "distributor"} => enabled = {} /\ counting = {} /\ fiq = "no"
    /\ boot = "reset" => grp1 = {}
    /\ boot = "distributor" => grp1 = Shared \ (Timers \cup {KEY_PRESS_IRQ})
    /\ boot \notin {"reset", "distributor"} =>
          grp1 = (0 .. 7) \cup (16 .. 31) \cup (Shared \ (Timers \cup {KEY_PRESS_IRQ}))
    /\ enabled \subseteq (0 .. 15) \cup Timers \cup {KEY_PRESS_IRQ, LinuxDevice}
    /\ level \subseteq Timers \cup {KEY_PRESS_IRQ, LinuxDevice, NS_SGI_NOTIFY_INTERRUPT}
    /\ fiq \in {"no", "acked", "handle", "clear"}
    /\ active = IF fiq = "acked" THEN {cur} ELSE {}
=============================================================================
