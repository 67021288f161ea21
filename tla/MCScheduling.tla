---------------------------- MODULE MCScheduling ----------------------------
(* A TLC instance of who gets the core: a behaviour is one of the scheduler,  *)
(* the semaphore on top of it, or the calls between the two worlds.           *)
EXTENDS TaskSched, SwSemaphore, WorldSwitch

CONSTANTS a, b, c

MCId == 1 .. 3
ThreeOf == {a, b, c}
TwoOf == {a, b}

VARIABLE part

coreVars == <<part, vars, semvars, wvars>>

CoreInit ==
    /\ part \in {"scheduler", "semaphore", "worlds"}
    /\ Init /\ SemInit /\ WorldInit
    /\ part # "semaphore" => sem_ready = SetToSeq(SemTask)

SchedPart == part = "scheduler" /\ Next /\ UNCHANGED <<part, semvars, wvars>>
SemPart == part = "semaphore" /\ SemNext /\ UNCHANGED <<part, vars, wvars>>
WorldPart == part = "worlds" /\ WorldNext /\ UNCHANGED <<part, vars, semvars>>

CoreNext == SchedPart \/ SemPart \/ WorldPart

\* A task that runs gives the core up or goes on with its wait, and the
\* scheduler's own code proceeds; nothing obliges a client or a timer to do
\* anything.  The secure world executes its code, and a timer event that was
\* started fires while the secure world waits for it.
CoreSpec ==
    /\ CoreInit /\ [][CoreNext]_coreVars
    /\ WF_vars(part = "scheduler" /\ SchedulerStep)
    /\ WF_semvars(part = "semaphore" /\ SchedStep)
    /\ WF_wvars(part = "worlds" /\ SecureStep)
    /\ WF_wvars(part = "worlds" /\ FiqSecure)
----------------------------------------------------------------------------
\* The scheduler's promises: the dispatcher keeps getting the core, and so
\* does every task put in the ready list, in spite of insertions at the head.
CoreShared == part = "scheduler" => DispatcherRuns /\ ReadyRuns
=============================================================================
