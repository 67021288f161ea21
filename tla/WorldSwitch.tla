---------------------------- MODULE WorldSwitch ----------------------------
(***************************************************************************)
(* Calls between the two worlds on the primary core: the monitor's SMC and *)
(* FIQ paths (arch/arm/armv7/monitor.S, smc_wrapper.c), the dispatcher's   *)
(* loop (apps/dispatcher_task.c), the task that returns to an interrupted  *)
(* Linux (apps/linux_task.c) and services that answer at once, sleep, or   *)
(* answer SMC_PENDING and finish when Linux resumes them                   *)
(* (lib/kernel/include/sw_wait.h, apps/test_suite/test_suite_task.c).      *)
(*                                                                         *)
(* Linux has one context: the driver serialises SMCs with smc_lock and     *)
(* posts them to the primary core.  A session's client makes one call at a *)
(* time and resumes a task only after its notification.                    *)
(***************************************************************************)
EXTENDS Naturals, Sequences, SequencesExt

CONSTANTS
    Svc,       \* service tasks with an open session
    WDisp,     \* the dispatcher
    Linux,     \* the task whose id is linux_task_id
    MaxCalls   \* bound: number of SMCs Linux makes

ASSUME WorldAssumption ==
    /\ WDisp # Linux /\ {WDisp, Linux} \cap Svc = {}
    /\ MaxCalls \in Nat

VARIABLES
    world,    \* the world the core executes: "ns" or "s"
    nsCall,   \* the call Linux's saved registers wait for; 0: none
    calls,    \* number of calls made so far; the last one's identity
    params,   \* params_stack: what the last call asked
    valid,    \* valid_params_flag
    slot,     \* g_dispatch_data: secure_api_set, secure_api_ret_val, and for
              \* which call the value was set (history)
    retFlag,  \* linux_return_flag
    wpc,      \* where each secure task stands
    wready,   \* ready_to_run_list
    wcpu,     \* the task in the secure registers, saved or running
    avail,    \* data_available of each service
    event,    \* services with a timer event that has not fired
    notify,   \* notify_data: the service last written there
    sgi,      \* the notification interrupt is pending in Linux
    toResume  \* pending calls whose client was woken by a notification

wvars == <<world, nsCall, calls, params, valid, slot, retFlag, wpc, wready,
           wcpu, avail, event, notify, sgi, toResume>>

nsVars == <<nsCall, calls, params, valid, toResume>>
evVars == <<avail, event, notify, sgi>>

NoCall == 0
Idle   == [set |-> FALSE, val |-> "none", for |-> NoCall]

\* After the first invoke_ns_kernel: Linux runs, called from linux_task.
WorldInit ==
    /\ world = "ns" /\ nsCall = NoCall /\ calls = 0
    /\ params = [kind |-> "none", svc |-> WDisp] /\ valid = FALSE
    /\ slot = Idle /\ retFlag = FALSE
    /\ wpc = [t \in Svc \cup {WDisp, Linux} |->
                 IF t = WDisp THEN "back" ELSE IF t = Linux THEN "ret" ELSE "off"]
    /\ wready = <<WDisp>> /\ wcpu = Linux
    /\ avail = [t \in Svc |-> FALSE] /\ event = {}
    /\ notify = WDisp /\ sgi = FALSE /\ toResume = {}

----------------------------------------------------------------------------
(* Linux.                                                                  *)

\* tz_api: the arguments are copied, the flag is raised, and the secure
\* context that was saved last goes on.
tz_api(kind, t) ==
    /\ world = "ns" /\ nsCall = NoCall /\ calls < MaxCalls
    /\ calls' = calls + 1 /\ nsCall' = calls + 1
    /\ params' = [kind |-> kind, svc |-> t] /\ valid' = TRUE
    /\ world' = "s"

CallGlobal ==
    /\ tz_api("global", WDisp)
    /\ UNCHANGED <<slot, retFlag, wpc, wready, wcpu, evVars, toResume>>

CallService(t) ==
    /\ wpc[t] = "off" /\ tz_api("invoke", t)
    /\ UNCHANGED <<slot, retFlag, wpc, wready, wcpu, evVars, toResume>>

CallResume(t) ==
    /\ t \in toResume /\ tz_api("resume", t)
    /\ toResume' = toResume \ {t}
    /\ UNCHANGED <<slot, retFlag, wpc, wready, wcpu, evVars>>

\* ipi_secure_notify: the client of the service named in notify_data is woken
\* if it waits for a pending answer.
TakeNotify ==
    /\ world = "ns" /\ sgi /\ sgi' = FALSE
    /\ toResume' = IF wpc[notify] = "wait" THEN toResume \cup {notify} ELSE toResume
    /\ UNCHANGED <<world, nsCall, calls, params, valid, slot, retFlag, wpc,
                   wready, wcpu, avail, event, notify>>

----------------------------------------------------------------------------
(* Interrupts.                                                             *)

\* async_test_task_handler: the data is there and Linux is notified.  A task
\* that sleeps is made ready instead.
Fire(t) ==
    /\ t \in event /\ event' = event \ {t}
    /\ IF wpc[t] = "sleep"
       THEN /\ wready' = IF Contains(wready, t) THEN wready ELSE Append(wready, t)
            /\ UNCHANGED <<avail, notify, sgi>>
       ELSE /\ avail' = [avail EXCEPT ![t] = TRUE]
            /\ notify' = t /\ sgi' = TRUE
            /\ UNCHANGED wready

\* monitor_fiq_handler, called_from_secure: fiq_c_handler runs and returns.
FiqSecure ==
    /\ world = "s"
    /\ \E t \in Svc : Fire(t)
    /\ UNCHANGED <<world, nsVars, slot, retFlag, wpc, wcpu>>

\* ns_fiq_handler: Linux is saved, the handler runs, linux_return_flag is
\* set, and the secure context goes on where it was.  The interrupt may be
\* none of the events here.
ns_fiq_handler ==
    /\ world = "ns" /\ world' = "s"
    /\ retFlag' = TRUE
    /\ \/ \E t \in Svc : Fire(t)
       \/ UNCHANGED <<avail, event, notify, sgi, wready>>
    /\ UNCHANGED <<nsVars, slot, wpc, wcpu>>

----------------------------------------------------------------------------
(* The secure scheduler: x gives the core up and stays ready or not.       *)

Runs(x) == world = "s" /\ wcpu = x

\* A NULL next task leaves the core where it is.
wschedule(x, r, stays) ==
    IF r = <<>> THEN wcpu' = x /\ wready' = r
    ELSE wcpu' = Head(r) /\ wready' = IF stays THEN Append(Tail(r), x) ELSE Tail(r)

wschedule_task(t) == IF Contains(wready, t) THEN wready ELSE Append(wready, t)

\* set_secure_api_ret: one slot; the history names the call that is open.
set_secure_api_ret(v) == slot' = [set |-> TRUE, val |-> v, for |-> nsCall]

----------------------------------------------------------------------------
(* The dispatcher's loop.                                                  *)

\* Returning to an interrupted Linux comes before a call that is waiting.
\* cpu_task_init restarts the Linux task at its entry.
DispatchReturn ==
    /\ Runs(WDisp) /\ wpc[WDisp] = "loop" /\ retFlag
    /\ wpc' = [wpc EXCEPT ![WDisp] = "back", ![Linux] = "run"]
    /\ wschedule(WDisp, wschedule_task(Linux), TRUE)
    /\ UNCHANGED <<world, nsVars, slot, retFlag, evVars>>

\* sw_wakeup(WAKE_UP_IMMEDIATE) on the queue of the task: it runs next.
resume_async_task(t) ==
    IF wpc[t] = "wait" THEN <<t>> \o wready ELSE wready

\* get_api_context and the chain of commands.  A global command is answered
\* here, a service by its task.
DispatchCall ==
    /\ Runs(WDisp) /\ wpc[WDisp] = "loop" /\ ~retFlag /\ valid
    /\ valid' = FALSE
    /\ LET t == params.svc IN
       CASE params.kind = "global" ->
               /\ set_secure_api_ret("done")
               /\ wpc' = [wpc EXCEPT ![WDisp] = "back"]
               /\ wschedule(WDisp, wready, TRUE)
         [] params.kind = "invoke" ->
               /\ wpc' = [wpc EXCEPT ![WDisp] = "back", ![t] = "run"]
               /\ wschedule(WDisp, wschedule_task(t), TRUE)
               /\ UNCHANGED slot
         [] params.kind = "resume" ->
               /\ wpc' = [wpc EXCEPT ![WDisp] = "back"]
               /\ wschedule(WDisp, resume_async_task(t), TRUE)
               /\ UNCHANGED slot
    /\ UNCHANGED <<world, nsCall, calls, params, toResume, retFlag, evVars>>

DispatchNothing ==
    /\ Runs(WDisp) /\ wpc[WDisp] = "loop" /\ ~retFlag /\ ~valid
    /\ wpc' = [wpc EXCEPT ![WDisp] = "back"]
    /\ wschedule(WDisp, wready, TRUE)
    /\ UNCHANGED <<world, nsVars, slot, retFlag, evVars>>

\* return_secure_api and ret_from_secure_api: the value goes into r0 of
\* Linux's saved registers.
return_secure_api ==
    /\ Runs(WDisp) /\ wpc[WDisp] = "back" /\ slot.set
    /\ wpc' = [wpc EXCEPT ![WDisp] = "ret"]
    /\ world' = "ns" /\ nsCall' = NoCall
    /\ UNCHANGED <<calls, params, valid, toResume, slot, retFlag, wready, wcpu, evVars>>

DispatchBack ==
    /\ Runs(WDisp) /\ wpc[WDisp] = "back" /\ ~slot.set
    /\ wpc' = [wpc EXCEPT ![WDisp] = "loop"]
    /\ UNCHANGED <<world, nsVars, slot, retFlag, wready, wcpu, evVars>>

\* Defect: secure_api_set keeps its value.
DispatchAgain_keep ==
    /\ Runs(WDisp) /\ wpc[WDisp] = "ret"
    /\ wpc' = [wpc EXCEPT ![WDisp] = "loop"]
    /\ UNCHANGED <<world, nsVars, slot, retFlag, wready, wcpu, evVars>>

\* The dispatcher runs again after its SMC and clears secure_api_set.
DispatchAgain ==
    /\ Runs(WDisp) /\ wpc[WDisp] = "ret"
    /\ slot' = [slot EXCEPT !.set = FALSE]
    /\ wpc' = [wpc EXCEPT ![WDisp] = "loop"]
    /\ UNCHANGED <<world, nsVars, retFlag, wready, wcpu, evVars>>

----------------------------------------------------------------------------
(* The Linux task.                                                         *)

\* non_secure_return_path: Linux goes on with the registers it had.  The
\* code does not look at what Linux was doing: a call would be over without
\* an answer.
return_non_secure_kernel ==
    /\ Runs(Linux) /\ wpc[Linux] = "run"
    /\ wpc' = [wpc EXCEPT ![Linux] = "ret"]
    /\ world' = "ns" /\ nsCall' = NoCall
    /\ retFlag' = FALSE
    /\ UNCHANGED <<calls, params, valid, toResume, slot, wready, wcpu, evVars>>

\* task_exit: suspended; its params are zero, so no answer is set.
LinuxExit ==
    /\ Runs(Linux) /\ wpc[Linux] = "ret"
    /\ wpc' = [wpc EXCEPT ![Linux] = "off"]
    /\ wschedule(Linux, wready, FALSE)
    /\ UNCHANGED <<world, nsVars, slot, retFlag, evVars>>

----------------------------------------------------------------------------
(* A service task.                                                         *)

\* Defect: a task that gave its pending answer sets none when it ends.
Finish_silent(t) ==
    /\ Runs(t) /\ wpc[t] \in {"run", "woken"}
    /\ wpc' = [wpc EXCEPT ![t] = "off"]
    /\ IF wpc[t] = "woken" THEN UNCHANGED slot ELSE set_secure_api_ret("done")
    /\ wschedule(t, wready, FALSE)
    /\ UNCHANGED <<world, nsVars, retFlag, evVars>>

\* task_exit: exit_task suspends the task, sets the answer and yields.
Finish(t) ==
    /\ Runs(t) /\ wpc[t] \in {"run", "woken"}
    /\ wpc' = [wpc EXCEPT ![t] = "off"]
    /\ set_secure_api_ret("done")
    /\ wschedule(t, wready, FALSE)
    /\ UNCHANGED <<world, nsVars, retFlag, evVars>>

\* process_otz_test_suite_async without data: the timer event is started.
StartEvent(t) ==
    /\ Runs(t) /\ wpc[t] = "run" /\ ~avail[t] /\ t \notin event
    /\ event' = event \cup {t}
    /\ wpc' = [wpc EXCEPT ![t] = "armed"]
    /\ UNCHANGED <<world, nsVars, slot, retFlag, wready, wcpu, avail, notify, sgi>>

\* sw_wait_event_async: the condition is read first; SMC_PENDING is the
\* answer only on the first turn of the loop.
sw_wait_event_async(t) ==
    /\ Runs(t) /\ wpc[t] \in {"armed", "wait"}
    /\ IF avail[t]
       THEN wpc' = [wpc EXCEPT ![t] = "woken"] /\ UNCHANGED <<slot, wcpu, wready>>
       ELSE /\ wpc' = [wpc EXCEPT ![t] = "wait"]
            /\ IF wpc[t] = "armed" THEN set_secure_api_ret("pending") ELSE UNCHANGED slot
            /\ wschedule(t, wready, FALSE)
    /\ UNCHANGED <<world, nsVars, retFlag, evVars>>

\* sw_sleep inside a call: the timer makes the task ready again.
Sleep(t) ==
    /\ Runs(t) /\ wpc[t] = "run" /\ t \notin event
    /\ event' = event \cup {t}
    /\ wpc' = [wpc EXCEPT ![t] = "sleep"]
    /\ wschedule(t, wready, FALSE)
    /\ UNCHANGED <<world, nsVars, slot, retFlag, avail, notify, sgi>>

Awake(t) ==
    /\ Runs(t) /\ wpc[t] = "sleep"
    /\ wpc' = [wpc EXCEPT ![t] = "woken"]
    /\ UNCHANGED <<world, nsVars, slot, retFlag, wready, wcpu, evVars>>

----------------------------------------------------------------------------
Dispatch == DispatchReturn \/ DispatchCall \/ DispatchNothing \/ DispatchBack
            \/ return_secure_api \/ DispatchAgain
LinuxTask == return_non_secure_kernel \/ LinuxExit
Service(t) == Finish(t) \/ StartEvent(t) \/ sw_wait_event_async(t) \/ Sleep(t) \/ Awake(t)
SecureStep == Dispatch \/ LinuxTask \/ \E t \in Svc : Service(t)

WorldNext ==
    \/ CallGlobal \/ TakeNotify
    \/ \E t \in Svc : CallService(t) \/ CallResume(t)
    \/ FiqSecure \/ ns_fiq_handler
    \/ SecureStep

WorldSpec == WorldInit /\ [][WorldNext]_wvars

----------------------------------------------------------------------------
\* Linux gets back what it waits for: the value written into r0 was set while
\* the call Linux is inside was being processed, never while Linux was only
\* interrupted and never for an earlier call (dispatcher_task.c: one slot,
\* cleared after the SMC that used it), and Linux returns without an answer
\* only when it made no call.
AnswersMatch ==
    [][world = "s" /\ world' = "ns" =>
          IF wcpu = WDisp THEN nsCall # NoCall /\ slot.for = nsCall
          ELSE nsCall = NoCall]_wvars

\* What makes it inductive.  A call is in one place at a time: in params_stack,
\* with the one service that works on it, or answered in the slot; Linux is
\* either inside a call or interrupted.
Linked == Range(wready) \cup {wcpu}
Busy(t) == wpc[t] \in {"run", "armed", "sleep", "woken"} \/ (wpc[t] = "wait" /\ t \in Linked)
Answered == slot.set /\ wpc[WDisp] # "ret"

WPlace == {"off", "run", "armed", "sleep", "woken", "wait", "loop", "back", "ret"}

WorldTypeOK ==
    /\ world \in {"ns", "s"} /\ nsCall \in Nat /\ calls \in Nat
    /\ valid \in BOOLEAN /\ retFlag \in BOOLEAN
    /\ slot \in [set : BOOLEAN, val : {"none", "done", "pending"}, for : Nat]
    /\ params \in [kind : {"none", "global", "invoke", "resume"}, svc : Svc \cup {WDisp}]
    /\ wpc \in [Svc \cup {WDisp, Linux} -> WPlace]
    /\ wready \in Seq(Svc \cup {WDisp, Linux}) /\ IsInjective(wready)
    /\ wcpu \in Svc \cup {WDisp, Linux} /\ wcpu \notin Range(wready)

CoreHeld ==
    /\ WDisp \in Linked /\ wpc[WDisp] \in {"loop", "back", "ret"}
    /\ wpc[WDisp] = "ret" => wcpu = WDisp
    /\ Linux \in Linked => wpc[Linux] \in {"run", "ret"}
    /\ wpc[Linux] = "ret" => wcpu = Linux
    /\ wpc[Linux] = "run" => retFlag
    /\ \A t \in Svc : /\ t \in Linked => Busy(t)
                      /\ t \in event /\ wpc[t] = "sleep" => t \notin Linked

CallInOnePlace ==
    /\ world = "ns" => nsCall = NoCall /\ ~retFlag /\ wpc[wcpu] = "ret"
    /\ retFlag => nsCall = NoCall
    /\ valid => /\ nsCall # NoCall /\ ~Answered /\ \A t \in Svc : ~Busy(t)
               /\ params.kind # "none" /\ (params.kind # "global" => params.svc \in Svc)
    /\ Answered => nsCall # NoCall /\ slot.for = nsCall /\ \A t \in Svc : ~Busy(t)
    /\ \A t, u \in Svc : Busy(t) /\ Busy(u) => t = u /\ nsCall # NoCall

WorldInv == WorldTypeOK /\ CoreHeld /\ CallInOnePlace

\* Every SMC is answered, whatever interrupts arrive and however often the
\* services sleep or answer SMC_PENDING.
CallAnswered ==
    \A c \in 1 .. MaxCalls : nsCall = c ~> nsCall # c
=============================================================================
