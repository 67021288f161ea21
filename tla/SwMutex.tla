------------------------------ MODULE SwMutex ------------------------------
(***************************************************************************)
(* The mutex of the secure kernel (lib/kernel/sw_semaphores.c) with its    *)
(* ldrex/strex primitives (sw_semaphores_asm.S), under the cooperative     *)
(* scheduler.  A FIQ between ldrex and strex clears the exclusive monitor, *)
(* so the strex fails: the only step of another actor a call can meet.     *)
(***************************************************************************)
EXTENDS Naturals, Sequences, FiniteSets

CONSTANTS
    MutexTask,       \* the tasks that use the mutex
    MutexDisp,       \* the dispatcher, which only yields
    Fiqs        \* may a FIQ arrive between ldrex and strex

ASSUME MutexAssumption ==
    /\ IsFiniteSet(MutexTask) /\ MutexDisp \notin MutexTask
    /\ Fiqs \in BOOLEAN

VARIABLES
    exists,   \* the structure is linked in mutex_list
    lock,     \* lock_param
    owner,    \* owner_id (0, here MutexDisp, when nobody owns it)
    holders,     \* tasks whose acquire returned SW_OK, not yet released (history)
    torn,     \* a store of cpu_release_mutex has failed (history)
    mutex_pc,       \* "run", or "acquire" inside the loop of _sw_acquire_mutex
    mutex_ready, mutex_cpu

mutexvars == <<exists, lock, owner, holders, torn, mutex_pc, mutex_ready, mutex_cpu>>

OTZ_FREE == 0
OTZ_LOCKED == 1

MutexInit ==
    /\ exists = TRUE
    /\ lock = OTZ_FREE
    /\ owner = MutexDisp
    /\ holders = {}
    /\ torn = FALSE
    /\ mutex_pc = [t \in MutexTask \cup {MutexDisp} |-> "run"]
    /\ mutex_ready \in {s \in [1 .. Cardinality(MutexTask) -> MutexTask] :
                     \A i, j \in DOMAIN s : s[i] = s[j] => i = j}
    /\ mutex_cpu = MutexDisp

MutexRuns(t) == mutex_cpu = t /\ mutex_pc[t] = "run"

\* schedule(): round robin.
MutexYield ==
    /\ mutex_pc[mutex_cpu] = "run"
    /\ mutex_cpu' = Head(Append(mutex_ready, mutex_cpu))
    /\ mutex_ready' = Tail(Append(mutex_ready, mutex_cpu))
    /\ UNCHANGED <<exists, lock, owner, holders, torn, mutex_pc>>

\* _sw_mutex_init: a mutex with this name is returned as it is; a new one is
\* free and unowned.
sw_mutex_init(t) ==
    /\ MutexRuns(t)
    /\ exists' = TRUE
    /\ IF exists THEN UNCHANGED <<lock, owner>>
       ELSE lock' = OTZ_FREE /\ owner' = MutexDisp
    /\ UNCHANGED <<holders, torn, mutex_pc, mutex_ready, mutex_cpu>>

\* _sw_mutex_destroy: EBUSY unless the lock is free.
sw_mutex_destroy(t) ==
    /\ MutexRuns(t) /\ exists /\ lock = OTZ_FREE
    /\ exists' = FALSE
    /\ owner' = MutexDisp
    /\ UNCHANGED <<lock, holders, torn, mutex_pc, mutex_ready, mutex_cpu>>

\* cpu_acquire_mutex took the lock (a failed strex starts over).
Locked(t) ==
    /\ lock = OTZ_FREE
    /\ lock' = OTZ_LOCKED
    /\ owner' = t
    /\ holders' = holders \cup {t}

\* _sw_acquire_mutex: EPERM for the owner; otherwise the loop.
sw_acquire_mutex(t) ==
    /\ MutexRuns(t) /\ exists /\ owner # t
    /\ \/ Locked(t) /\ UNCHANGED mutex_pc
       \/ /\ lock # OTZ_FREE
          /\ mutex_pc' = [mutex_pc EXCEPT ![t] = "acquire"]
          /\ UNCHANGED <<lock, owner, holders>>
    /\ UNCHANGED <<exists, torn, mutex_ready, mutex_cpu>>

\* The loop: sw_wait_event is given lock_param as the condition to wait for.
\* It is not zero, so sw_wait_event returns without waiting and without
\* calling schedule().
MutexAcquireAgain(t) ==
    /\ mutex_cpu = t /\ mutex_pc[t] = "acquire"
    /\ \/ Locked(t) /\ mutex_pc' = [mutex_pc EXCEPT ![t] = "run"]
       \/ lock # OTZ_FREE /\ UNCHANGED <<lock, owner, holders, mutex_pc>>
    /\ UNCHANGED <<exists, torn, mutex_ready, mutex_cpu>>

\* _sw_acquire_mutex_nowait: EBUSY when locked, or when strex fails.  Nothing
\* asks whether the caller owns it.
sw_acquire_mutex_nowait(t) ==
    /\ MutexRuns(t) /\ exists
    /\ Locked(t)
    /\ UNCHANGED <<exists, torn, mutex_pc, mutex_ready, mutex_cpu>>

\* Defect: any task may release.
sw_release_mutex_any(t) ==
    /\ MutexRuns(t) /\ exists
    /\ lock' = OTZ_FREE
    /\ owner' = MutexDisp
    /\ holders' = holders \ {t}
    /\ UNCHANGED <<exists, torn, mutex_pc, mutex_ready, mutex_cpu>>

\* _sw_release_mutex: nothing unless the caller owns it.  The queue is always
\* empty, so sw_wakeup wakes nobody.  cpu_release_mutex takes a failed strex
\* for success: the lock stays set, and owner_id is cleared all the same.
sw_release_mutex(t) ==
    /\ MutexRuns(t) /\ exists /\ owner = t
    /\ \/ lock' = OTZ_FREE /\ UNCHANGED torn
       \/ Fiqs /\ torn' = TRUE /\ UNCHANGED lock
    /\ owner' = MutexDisp
    /\ holders' = holders \ {t}
    /\ UNCHANGED <<exists, mutex_pc, mutex_ready, mutex_cpu>>

----------------------------------------------------------------------------
MutexTaskStep(t) ==
    \/ sw_mutex_init(t)
    \/ sw_mutex_destroy(t)
    \/ sw_acquire_mutex(t)
    \/ MutexAcquireAgain(t)
    \/ sw_acquire_mutex_nowait(t)
    \/ sw_release_mutex(t)

MutexNext == MutexYield \/ \E t \in MutexTask : MutexTaskStep(t)

MutexSpec == MutexInit /\ [][MutexNext]_mutexvars

\* The running task eventually gives the core up or goes on with its loop,
\* and a holder that keeps being given the core releases in the end.
MutexFairSpec ==
    /\ MutexSpec
    /\ WF_mutexvars(MutexYield)
    /\ \A t \in MutexTask : WF_mutexvars(MutexAcquireAgain(t)) /\ SF_mutexvars(sw_release_mutex(t))
----------------------------------------------------------------------------
MutexTypeOK ==
    /\ exists \in BOOLEAN /\ torn \in BOOLEAN
    /\ lock \in {OTZ_FREE, OTZ_LOCKED}
    /\ owner \in MutexTask \cup {MutexDisp}
    /\ holders \subseteq MutexTask
    /\ mutex_pc \in [MutexTask \cup {MutexDisp} -> {"run", "acquire"}]
    /\ mutex_ready \in Seq(MutexTask \cup {MutexDisp})
    /\ mutex_cpu \in MutexTask \cup {MutexDisp}

\* No two tasks hold the mutex, and the holder is the recorded owner of a
\* mutex that is locked and not destroyed: a release by another task, a
\* destroy or a try-lock never takes it from the holder.
MutualExclusion ==
    \A t \in holders : holders = {t} /\ owner = t /\ lock = OTZ_LOCKED /\ exists

\* A mutex nobody holds is not locked, through any sequence of acquires,
\* try-locks, releases, destructions and initialisations in which no store of
\* cpu_release_mutex failed.
ReleaseUnlocks == ~torn /\ exists /\ holders = {} => lock = OTZ_FREE

\* Both, whatever tasks the core is given to between the calls.
MutexSafe == MutexTypeOK /\ MutualExclusion /\ ReleaseUnlocks

\* What makes both inductive: the recorded owner is a holder, and a task inside
\* the loop of _sw_acquire_mutex keeps the core, so that nobody can destroy the
\* mutex it is about to lock.
MutexInv ==
    /\ MutexSafe
    /\ owner # MutexDisp => owner \in holders
    /\ \A t \in MutexTask : mutex_pc[t] = "acquire" => mutex_cpu = t /\ exists

\* "start from first in case of failure": the same however the FIQs fall.
ReleaseRetries == exists /\ holders = {} => lock = OTZ_FREE

\* A task that finds the mutex locked gets it once the holder releases it.
AcquireReturns == \A t \in MutexTask : mutex_pc[t] = "acquire" ~> mutex_pc[t] = "run"
=============================================================================
