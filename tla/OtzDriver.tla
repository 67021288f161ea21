----------------------------- MODULE OtzDriver -----------------------------
(***************************************************************************)
(* The Linux driver's path to the secure world: otz_smc_call, the ioctls   *)
(* that reach it, the asynchronous (SMC_PENDING) round trip and the        *)
(* notification interrupt (otz_driver/otz_client_main.c).                  *)
(*                                                                         *)
(* Client threads run preemptively.  Each ioctl takes the mutex of its own *)
(* kind; smc_lock only covers the SMC instruction.  The command structure  *)
(* is reached through a function-local static pointer, shared by all.      *)
(* The secure world is external: it answers an SMC, perhaps with           *)
(* SMC_PENDING, and later posts one notification for the pending session.  *)
(***************************************************************************)
EXTENDS Naturals, Sequences, FiniteSets, SequencesExt

CONSTANTS
    Thread,    \* client threads; thread t drives the session named t
    Dev,       \* open device files
    DevOf,     \* the device file each thread uses
    Cmd,       \* the blocks kmalloc can return for a struct otz_smc_cmd
    Ops,       \* the ioctls each thread issues
    Async,     \* may the secure world answer SMC_PENDING
    Signals,   \* may a signal interrupt wait_event_interruptible
    NoThread, NoCmd

ASSUME DriverAssumption ==
    /\ IsFiniteSet(Thread)
    /\ DevOf \in [Thread -> Dev]
    /\ Ops \in [Thread -> SUBSET {"send", "open", "close"}]
    /\ Async \in BOOLEAN /\ Signals \in BOOLEAN
    /\ NoThread \notin Thread /\ NoCmd \notin Cmd

VARIABLES
    pc,        \* where each thread stands in otz_smc_call
    op,        \* the ioctl it is executing
    phys,      \* smc_cmd_phys, a local of otz_smc_call
    holder,    \* owner of send_cmd_lock, ses_open_lock, ses_close_lock
    smcHolder, \* owner of smc_lock
    heap,      \* command structures allocated and not freed
    content,   \* src_context and id stored in each structure
    smc_cmd,   \* the static pointer
    sessions,  \* sessions_list of the service, per device file
    flag,      \* send_wait_flag of each session's encode context
    secure,    \* what the secure world is doing for each session
    slot,      \* the session named in notify_data, its interrupt pending
    fault,     \* the first bad use of a command structure
    mixed,     \* smc_cmd was set while another call was using it (history)
    intr       \* a wait was interrupted (history)

vars == <<pc, op, phys, holder, smcHolder, heap, content, smc_cmd, sessions,
          flag, secure, slot, fault, mixed, intr>>

PCs == {"idle", "alloc", "fill", "lock", "secure", "drop", "wait", "relock",
        "resume", "lock2", "secure2", "resp", "done", "free"}

Faults == {"none", "bad access", "double free"}

Contents == [from : Thread \cup {NoThread}, id : {"none", "cmd", "resume"}]

Blank == [from |-> NoThread, id |-> "none"]

Goto(t, l) == pc' = [pc EXCEPT ![t] = l]

\* A store or load through smc_cmd that hits no allocated structure.
Usable == smc_cmd \in heap

Misuse(why) == fault' = IF fault = "none" THEN why ELSE fault

\* The lookups of otz_client_kernel_send_cmd and ipi_secure_notify leave the
\* loop over sessions_list after its first element, matching or not.
found(t) == LET l == sessions[DevOf[t]] IN l # <<>> /\ Head(l) = t

Init ==
    /\ pc = [t \in Thread |-> "idle"]
    /\ op = [t \in Thread |-> "send"]
    /\ phys = [t \in Thread |-> NoCmd]
    /\ holder = [o \in {"send", "open", "close"} |-> NoThread]
    /\ smcHolder = NoThread
    /\ heap = {}
    /\ content = [c \in Cmd |-> Blank]
    /\ smc_cmd = NoCmd
    /\ sessions = [d \in Dev |->
                     SetToSeq({t \in Thread : DevOf[t] = d /\ "open" \notin Ops[t]})]
    /\ flag = [t \in Thread |-> FALSE]
    /\ secure = [t \in Thread |-> "idle"]
    /\ slot = NoThread
    /\ fault = "none"
    /\ mixed = FALSE /\ intr = FALSE

----------------------------------------------------------------------------
(* The ioctls, up to the call of otz_smc_call.                             *)

\* A send whose session is not found, and a close of a session that is not
\* in the list, return before otz_smc_call and change nothing.
Begin(t, o) ==
    /\ pc[t] = "idle" /\ o \in Ops[t]
    /\ holder[o] = NoThread
    /\ CASE o = "send"  -> found(t)
         [] o = "open"  -> t \notin Range(sessions[DevOf[t]])
         [] o = "close" -> t \in Range(sessions[DevOf[t]])
    /\ holder' = [holder EXCEPT ![o] = t]
    /\ op' = [op EXCEPT ![t] = o]
    /\ Goto(t, "alloc")
    /\ UNCHANGED <<phys, smcHolder, heap, content, smc_cmd, sessions, flag,
                   secure, slot, fault, mixed, intr>>

----------------------------------------------------------------------------
(* otz_smc_call.                                                           *)

\* Another thread is past the allocation in otz_smc_call, waiting ones too.
Overlap(t) == \E u \in Thread \ {t} : pc[u] \notin {"idle", "alloc"}

Alloc(t) ==
    /\ pc[t] = "alloc"
    /\ mixed' = (mixed \/ Overlap(t))
    /\ \E c \in Cmd \ heap :
          /\ heap' = heap \cup {c}
          /\ smc_cmd' = c
    /\ Goto(t, "fill")
    /\ UNCHANGED <<op, phys, holder, smcHolder, content, sessions, flag,
                   secure, slot, fault, intr>>

\* kmalloc fails: -ENOMEM, and the shared pointer is left NULL.
AllocFails(t) ==
    /\ pc[t] = "alloc"
    /\ mixed' = (mixed \/ Overlap(t))
    /\ smc_cmd' = NoCmd
    /\ Goto(t, "free")
    /\ UNCHANGED <<op, phys, holder, smcHolder, heap, content, sessions, flag,
                   secure, slot, fault, intr>>

\* The stores go wherever the static pointer points by now.
Fill(t) ==
    /\ pc[t] = "fill"
    /\ IF Usable
       THEN /\ content' = [content EXCEPT ![smc_cmd] = [from |-> t, id |-> "cmd"]]
            /\ UNCHANGED fault
       ELSE Misuse("bad access") /\ UNCHANGED content
    /\ phys' = [phys EXCEPT ![t] = smc_cmd]
    /\ Goto(t, "lock")
    /\ UNCHANGED <<op, holder, smcHolder, heap, smc_cmd, sessions, flag,
                   secure, slot, mixed, intr>>

EnterSecure(t) ==
    /\ pc[t] \in {"lock", "lock2"}
    /\ smcHolder = NoThread
    /\ smcHolder' = t
    /\ Goto(t, IF pc[t] = "lock" THEN "secure" ELSE "secure2")
    /\ UNCHANGED <<op, phys, holder, heap, content, smc_cmd, sessions, flag,
                   secure, slot, fault, mixed, intr>>

\* The secure world answers the first SMC: success, an error, or pending.
\* A command sent again after an interrupted wait restarts the task.
LeaveSecure(t) ==
    /\ pc[t] = "secure"
    /\ smcHolder' = NoThread
    /\ \/ Goto(t, "resp") /\ UNCHANGED secure
       \/ Goto(t, "free") /\ UNCHANGED secure
       \/ /\ Async /\ op[t] = "send"
          /\ secure' = [secure EXCEPT ![t] = "pending"]
          /\ Goto(t, "drop")
    /\ UNCHANGED <<op, phys, holder, heap, content, smc_cmd, sessions, flag,
                   slot, fault, mixed, intr>>

\* arg_lock is released while the thread waits.
DropLock(t) ==
    /\ pc[t] = "drop"
    /\ holder' = [holder EXCEPT ![op[t]] = NoThread]
    /\ Goto(t, "wait")
    /\ UNCHANGED <<op, phys, smcHolder, heap, content, smc_cmd, sessions, flag,
                   secure, slot, fault, mixed, intr>>

\* Defect: send_wait_flag is not cleared after the wait.
WaitOver_keep(t) ==
    /\ pc[t] = "wait" /\ flag[t]
    /\ Goto(t, "relock")
    /\ UNCHANGED <<op, phys, holder, smcHolder, heap, content, smc_cmd,
                   sessions, flag, secure, slot, fault, mixed, intr>>

\* wait_event_interruptible returns 0.
WaitOver(t) ==
    /\ pc[t] = "wait" /\ flag[t]
    /\ flag' = [flag EXCEPT ![t] = FALSE]
    /\ Goto(t, "relock")
    /\ UNCHANGED <<op, phys, holder, smcHolder, heap, content, smc_cmd,
                   sessions, secure, slot, fault, mixed, intr>>

\* -ERESTARTSYS: out, without taking arg_lock back.
Interrupted(t) ==
    /\ pc[t] = "wait" /\ Signals
    /\ intr' = TRUE
    /\ Goto(t, "free")
    /\ UNCHANGED <<op, phys, holder, smcHolder, heap, content, smc_cmd,
                   sessions, flag, secure, slot, fault, mixed>>

\* Defect: arg_lock is not taken back.
Relock_free(t) ==
    /\ pc[t] = "relock"
    /\ Goto(t, "resume")
    /\ UNCHANGED <<op, phys, holder, smcHolder, heap, content, smc_cmd,
                   sessions, flag, secure, slot, fault, mixed, intr>>

Relock(t) ==
    /\ pc[t] = "relock" /\ holder[op[t]] = NoThread
    /\ holder' = [holder EXCEPT ![op[t]] = t]
    /\ Goto(t, "resume")
    /\ UNCHANGED <<op, phys, smcHolder, heap, content, smc_cmd, sessions, flag,
                   secure, slot, fault, mixed, intr>>

\* Defect: the id of the first command is left in place.
Resume_skip(t) ==
    /\ pc[t] = "resume"
    /\ Goto(t, "lock2")
    /\ UNCHANGED <<op, phys, holder, smcHolder, heap, content, smc_cmd,
                   sessions, flag, secure, slot, fault, mixed, intr>>

\* The id becomes RESUME_ASYNC_TASK, in the structure smc_cmd points to.
Resume(t) ==
    /\ pc[t] = "resume"
    /\ IF Usable
       THEN content' = [content EXCEPT ![smc_cmd].id = "resume"] /\ UNCHANGED fault
       ELSE Misuse("bad access") /\ UNCHANGED content
    /\ Goto(t, "lock2")
    /\ UNCHANGED <<op, phys, holder, smcHolder, heap, smc_cmd, sessions, flag,
                   secure, slot, mixed, intr>>

\* The answer to the second SMC; a resume ends the pending operation.
LeaveResumed(t) ==
    /\ pc[t] = "secure2"
    /\ smcHolder' = NoThread
    /\ secure' = IF phys[t] \in heap /\ content[phys[t]] = [from |-> t, id |-> "resume"]
                 THEN [secure EXCEPT ![t] = "idle"] ELSE secure
    /\ Goto(t, "resp") \/ Goto(t, "free")
    /\ UNCHANGED <<op, phys, holder, heap, content, smc_cmd, sessions, flag,
                   slot, fault, mixed, intr>>

\* *ret_resp_len = smc_cmd->ret_resp_buf_len; close passes no ret_resp_len.
ReadResponse(t) ==
    /\ pc[t] = "resp"
    /\ IF Usable \/ op[t] = "close" THEN UNCHANGED fault ELSE Misuse("bad access")
    /\ Goto(t, "done")
    /\ UNCHANGED <<op, phys, holder, smcHolder, heap, content, smc_cmd,
                   sessions, flag, secure, slot, mixed, intr>>

\* otz_smc_call and the ioctl return, and their locals are forgotten.
Return(t) ==
    /\ holder' = [holder EXCEPT ![op[t]] = NoThread]
    /\ op' = [op EXCEPT ![t] = "send"]
    /\ phys' = [phys EXCEPT ![t] = NoCmd]
    /\ Goto(t, "idle")

\* Defect: a return that skips kfree.
Free_skip(t) ==
    /\ pc[t] \in {"done", "free"}
    /\ Return(t)
    /\ UNCHANGED <<smcHolder, heap, content, smc_cmd, sessions, flag,
                   secure, slot, fault, mixed, intr>>

\* out: kfree(smc_cmd) if it is not NULL; then the ioctl finishes.  A session
\* is linked when the secure world opened it and the copies to the client
\* succeed; one being closed is unlinked, with its encode contexts, whatever
\* the SMC answered; the mutex is released, whoever holds it.
Free(t) ==
    /\ pc[t] \in {"done", "free"}
    /\ IF smc_cmd = NoCmd THEN UNCHANGED <<heap, content, fault>>
       ELSE /\ heap' = heap \ {smc_cmd}
            /\ content' = [content EXCEPT ![smc_cmd] = Blank]
            /\ IF Usable THEN UNCHANGED fault ELSE Misuse("double free")
    /\ LET d == DevOf[t] IN
       \/ /\ op[t] = "open" /\ pc[t] = "done"
          /\ sessions' = [sessions EXCEPT ![d] = Append(@, t)]
          /\ UNCHANGED flag
       \/ /\ op[t] = "close"
          /\ sessions' = [sessions EXCEPT ![d] = RemoveFirst(@, t)]
          /\ flag' = [flag EXCEPT ![t] = FALSE]
       \/ op[t] # "close" /\ UNCHANGED <<sessions, flag>>
    /\ Return(t)
    /\ UNCHANGED <<smcHolder, smc_cmd, secure, slot, mixed, intr>>

----------------------------------------------------------------------------
(* Notifications.                                                          *)

\* External: the secure task finishes and notify_ns fills notify_data, over
\* whatever it still holds, and raises the interrupt.
Notify(t) ==
    /\ secure[t] = "pending"
    /\ secure' = [secure EXCEPT ![t] = "ready"]
    /\ slot' = t
    /\ UNCHANGED <<pc, op, phys, holder, smcHolder, heap, content, smc_cmd,
                   sessions, flag, fault, mixed, intr>>

\* Defect: the handler returns early, and the interrupt is raised again.
ipi_secure_notify_early == slot # NoThread /\ UNCHANGED vars

\* The handler sets send_wait_flag of the session it finds.
ipi_secure_notify ==
    /\ slot # NoThread
    /\ flag' = IF found(slot) THEN [flag EXCEPT ![slot] = TRUE] ELSE flag
    /\ slot' = NoThread
    /\ UNCHANGED <<pc, op, phys, holder, smcHolder, heap, content, smc_cmd,
                   sessions, secure, fault, mixed, intr>>

----------------------------------------------------------------------------
\* Bound: the threads are followed up to a bad use of a command structure,
\* and until calls have overlapped and a wait was interrupted as well.
Followed == fault = "none" /\ ~(mixed /\ intr)

SmcStep(t) ==
    /\ Followed
    /\ \/ Alloc(t) \/ AllocFails(t) \/ Fill(t) \/ EnterSecure(t) \/ LeaveSecure(t)
       \/ DropLock(t) \/ WaitOver(t) \/ Relock(t) \/ Resume(t) \/ LeaveResumed(t)
       \/ ReadResponse(t) \/ Free(t)

Next ==
    \/ \E t \in Thread :
          \/ SmcStep(t) \/ Notify(t)
          \/ Followed /\ Interrupted(t)
          \/ Followed /\ \E o \in Ops[t] : Begin(t, o)
    \/ ipi_secure_notify

Spec == Init /\ [][Next]_vars

\* Every thread inside the driver is scheduled, mutexes are handed out
\* fairly, interrupts are taken, and the secure world finishes what it left
\* pending.  Nothing obliges a client to issue an ioctl or a signal to come.
FairSpec ==
    /\ Spec
    /\ \A t \in Thread : WF_vars(SmcStep(t)) /\ WF_vars(Notify(t))
    /\ WF_vars(ipi_secure_notify)
----------------------------------------------------------------------------
TypeOK ==
    /\ pc \in [Thread -> PCs]
    /\ op \in [Thread -> {"send", "open", "close"}]
    /\ phys \in [Thread -> Cmd \cup {NoCmd}]
    /\ holder \in [{"send", "open", "close"} -> Thread \cup {NoThread}]
    /\ smcHolder \in Thread \cup {NoThread}
    /\ heap \subseteq Cmd
    /\ content \in [Cmd -> Contents]
    /\ smc_cmd \in Cmd \cup {NoCmd}
    /\ sessions \in [Dev -> Seq(Thread)]
    /\ \A d \in Dev : IsInjective(sessions[d])
    /\ flag \in [Thread -> BOOLEAN]
    /\ secure \in [Thread -> {"idle", "pending", "ready"}]
    /\ slot \in Thread \cup {NoThread}
    /\ fault \in Faults
    /\ mixed \in BOOLEAN /\ intr \in BOOLEAN

\* What the secure world reads during an SMC is the command of the thread
\* that issued it, in a structure that is still allocated: the first time
\* the command itself, the second time the request to resume it.
CommandDelivered ==
    \A t \in Thread :
        /\ pc[t] = "secure" => /\ phys[t] \in heap
                               /\ content[phys[t]] = [from |-> t, id |-> "cmd"]
        /\ pc[t] = "secure2" => /\ phys[t] \in heap
                                /\ content[phys[t]] = [from |-> t, id |-> "resume"]

\* It is so as long as no call of otz_smc_call overlaps another: through
\* failed allocations, errors of the secure world, pending operations and
\* interrupted waits, with any other thread on its way to the call.
DeliveredAlone == ~mixed => CommandDelivered

\* Under the same condition command structures are used while allocated,
\* freed once, and none is left when no call is in progress.  (The types hold
\* whether calls overlap or not.)
HeapSafe ==
    /\ TypeOK
    /\ ~mixed => /\ fault = "none"
                 /\ (\A t \in Thread : pc[t] = "idle") => heap = {}

\* "Only one client allowed here at a time": the ioctl of each kind is
\* executed by one thread at a time, waiting threads aside, although the
\* mutex is given up and taken back in the middle; unless a wait was
\* interrupted, after which the ioctl unlocks a mutex it does not hold.
OneClient ==
    \A t, u \in Thread :
        /\ ~intr
        /\ pc[t] \notin {"idle", "wait", "relock"}
        /\ pc[u] \notin {"idle", "wait", "relock"}
        /\ op[t] = op[u]
        => t = u

\* A notification the secure world posted reaches the thread that waits for
\* it, even when the interrupt comes before the thread starts to wait: an
\* operation left pending always ends.  With two operations pending, or one
\* that an interrupted wait abandoned, one notification may replace the other
\* in notify_data.
PendingEnds ==
    \A t \in Thread :
        secure[t] # "idle" /\ pc[t] = "wait" ~> pc[t] = "idle" \/ mixed \/ intr

\* A thread that wakes up finds the operation it waits for finished: no flag
\* is left over from an earlier operation, unless its wait was interrupted.
WokenWhenReady ==
    \A t \in Thread :
        ~mixed /\ ~intr /\ pc[t] \in {"relock", "resume", "lock2"}
            => secure[t] = "ready"

----------------------------------------------------------------------------
(* What makes the four inductive.                                          *)

\* A mutex protects its ioctl, except while the thread waits.
MutexHeld ==
    ~intr => \A t \in Thread :
                pc[t] \notin {"idle", "wait", "relock"} => holder[op[t]] = t

\* A session being opened is not linked yet.
OpensNew == \A t \in Thread : op[t] = "open" => t \notin Range(sessions[DevOf[t]])

\* While calls do not overlap, the one past the allocation owns the only
\* structure, which smc_cmd points to ...
CallsApart ==
    \A t, u \in Thread :
        pc[t] \notin {"idle", "alloc"} /\ pc[u] \notin {"idle", "alloc"} => t = u

HeapOwned ==
    /\ \A t \in Thread :
          /\ pc[t] \notin {"idle", "alloc", "free"} => smc_cmd # NoCmd /\ heap = {smc_cmd}
          /\ pc[t] = "free" => heap = {smc_cmd} \ {NoCmd}
    /\ (\A t \in Thread : pc[t] \in {"idle", "alloc"}) => heap = {}

\* ... and which holds its command from Fill on.
CommandKept ==
    \A t \in Thread :
        /\ pc[t] \in {"lock", "secure", "drop", "wait", "relock", "resume"}
              => phys[t] = smc_cmd /\ content[smc_cmd] = [from |-> t, id |-> "cmd"]
        /\ pc[t] \in {"lock2", "secure2"}
              => phys[t] = smc_cmd /\ content[smc_cmd] = [from |-> t, id |-> "resume"]

\* The secure world, notify_data and send_wait_flag know of an operation only
\* between its SMC_PENDING and its end, and of each stage in one place.
PendingStages ==
    \A t \in Thread :
        /\ pc[t] \in {"drop", "wait"}
              => /\ secure[t] \in {"pending", "ready"}
                 /\ secure[t] = "pending" => ~flag[t] /\ slot # t
                 /\ flag[t] => slot # t
        /\ pc[t] \in {"relock", "resume", "lock2", "secure2"}
              => secure[t] = "ready" /\ ~flag[t] /\ slot # t
        /\ pc[t] \notin {"drop", "wait", "relock", "resume", "lock2", "secure2"}
              => secure[t] = "idle" /\ ~flag[t] /\ slot # t

DriverInv ==
    /\ TypeOK /\ OpensNew /\ MutexHeld
    /\ ~mixed => fault = "none" /\ CallsApart /\ HeapOwned /\ CommandKept
    /\ ~mixed /\ ~intr => PendingStages
=============================================================================
