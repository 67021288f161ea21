---------------------------- MODULE KernelProofs ----------------------------
(***************************************************************************)
(* Proofs about the kernel objects: the mutex and the semaphore of          *)
(* lib/kernel/sw_semaphores.c, for every number of tasks, every initial     *)
(* count and every order of calls, and the clock and the timer events of    *)
(* core/sw_timer.c, for every length of a lap, every number of events and   *)
(* all durations, and the arithmetic of times, for all times.               *)
(***************************************************************************)
EXTENDS SwMutex, SwSemaphore, ClockCount, SwTimer, TimeMath, ListLemmas

----------------------------------------------------------------------------
(* The mutex.                                                              *)

\* Taking a free mutex that exists makes the caller its only holder.
LEMMA LockedAlone ==
    ASSUME MutexInv, NEW t \in MutexTask, exists, Locked(t)
    PROVE  /\ holders = {} /\ holders' = {t}
           /\ owner' = t /\ lock' = OTZ_LOCKED
<1>1. holders = {}
  BY DEF MutexInv, MutexSafe, MutualExclusion, Locked, OTZ_FREE, OTZ_LOCKED
<1> QED
  BY <1>1 DEF Locked

LEMMA MutexInitInv == MutexInit => MutexInv
<1> SUFFICES ASSUME MutexInit PROVE MutexInv
  OBVIOUS
<1>1. Cardinality(MutexTask) \in Nat
  BY MutexAssumption, FS_CardinalityType
<1>2. mutex_ready \in Seq(MutexTask \cup {MutexDisp})
  BY <1>1 DEF MutexInit
<1>3. MutexTypeOK
  BY <1>2 DEF MutexInit, MutexTypeOK, OTZ_FREE, OTZ_LOCKED
<1> QED
  BY <1>3 DEF MutexInit, MutexInv, MutexSafe, MutualExclusion, ReleaseUnlocks

\* Every call, and every yield, keeps the invariant.
LEMMA MutexStepInv == MutexInv /\ [MutexNext]_mutexvars => MutexInv'
<1> SUFFICES ASSUME MutexInv, [MutexNext]_mutexvars PROVE MutexInv'
  OBVIOUS
<1> USE MutexAssumption
<1>1. CASE MutexYield
  <2>1. mutex_cpu' \in MutexTask \cup {MutexDisp}
        /\ mutex_ready' \in Seq(MutexTask \cup {MutexDisp})
    BY <1>1 DEF MutexYield, MutexInv, MutexSafe, MutexTypeOK
  <2> QED
    BY <1>1, <2>1 DEF MutexYield, MutexInv, MutexSafe, MutexTypeOK, MutualExclusion, ReleaseUnlocks
<1>2. ASSUME NEW t \in MutexTask, sw_mutex_init(t) PROVE MutexInv'
  BY <1>2 DEF sw_mutex_init, MutexRuns, MutexInv, MutexSafe, MutexTypeOK, MutualExclusion,
              ReleaseUnlocks, OTZ_FREE, OTZ_LOCKED
<1>3. ASSUME NEW t \in MutexTask, sw_mutex_destroy(t) PROVE MutexInv'
  <2>1. holders = {}
    BY <1>3 DEF sw_mutex_destroy, MutexInv, MutexSafe, MutualExclusion, OTZ_FREE, OTZ_LOCKED
  <2>2. \A u \in MutexTask : mutex_pc'[u] # "acquire"
    BY <1>3 DEF sw_mutex_destroy, MutexRuns, MutexInv
  <2> QED
    BY <1>3, <2>1, <2>2 DEF sw_mutex_destroy, MutexRuns, MutexInv, MutexSafe, MutexTypeOK, MutualExclusion,
              ReleaseUnlocks, OTZ_FREE, OTZ_LOCKED
<1>4. ASSUME NEW t \in MutexTask, sw_acquire_mutex(t) PROVE MutexInv'
  <2>1. CASE Locked(t) /\ UNCHANGED mutex_pc
    BY ZenonT(40), <1>4, <2>1, LockedAlone
       DEF sw_acquire_mutex, MutexRuns, MutexInv, MutexSafe, MutexTypeOK, MutualExclusion, ReleaseUnlocks
  <2>2. CASE /\ lock # OTZ_FREE
             /\ mutex_pc' = [mutex_pc EXCEPT ![t] = "acquire"]
             /\ UNCHANGED <<lock, owner, holders>>
    BY <1>4, <2>2
       DEF sw_acquire_mutex, MutexRuns, MutexInv, MutexSafe, MutexTypeOK, MutualExclusion, ReleaseUnlocks
  <2> QED
    BY <1>4, <2>1, <2>2 DEF sw_acquire_mutex
<1>5. ASSUME NEW t \in MutexTask, MutexAcquireAgain(t) PROVE MutexInv'
  <2>1. exists
    BY <1>5 DEF MutexAcquireAgain, MutexInv
  <2>2. CASE Locked(t) /\ mutex_pc' = [mutex_pc EXCEPT ![t] = "run"]
    BY <1>5, <2>1, <2>2, LockedAlone
       DEF MutexAcquireAgain, MutexInv, MutexSafe, MutexTypeOK, MutualExclusion, ReleaseUnlocks
  <2>3. CASE UNCHANGED <<lock, owner, holders, mutex_pc>>
    BY <1>5, <2>3
       DEF MutexAcquireAgain, MutexInv, MutexSafe, MutexTypeOK, MutualExclusion, ReleaseUnlocks
  <2> QED
    BY <1>5, <2>2, <2>3 DEF MutexAcquireAgain
<1>6. ASSUME NEW t \in MutexTask, sw_acquire_mutex_nowait(t) PROVE MutexInv'
  BY <1>6, LockedAlone
     DEF sw_acquire_mutex_nowait, MutexRuns, MutexInv, MutexSafe, MutexTypeOK, MutualExclusion, ReleaseUnlocks
<1>7. ASSUME NEW t \in MutexTask, sw_release_mutex(t) PROVE MutexInv'
  <2>1. holders' = {}
    BY <1>7 DEF sw_release_mutex, MutexInv, MutexSafe, MutualExclusion
  <2> QED
    BY <1>7, <2>1
       DEF sw_release_mutex, MutexRuns, MutexInv, MutexSafe, MutexTypeOK, MutualExclusion,
           ReleaseUnlocks, OTZ_FREE, OTZ_LOCKED
<1>8. CASE UNCHANGED mutexvars
  BY <1>8 DEF mutexvars, MutexInv, MutexSafe, MutexTypeOK, MutualExclusion, ReleaseUnlocks
<1> QED
  BY <1>1, <1>2, <1>3, <1>4, <1>5, <1>6, <1>7, <1>8 DEF MutexNext, MutexTaskStep

\* The mutex of sw_semaphores.c has at most one holder, who is the recorded
\* owner of a locked, existing mutex, and one nobody holds is free unless a
\* strex of cpu_release_mutex failed: for any tasks, in any order of calls.
THEOREM MutexExcludes == MutexSpec => []MutexSafe
<1>1. MutexInv => MutexSafe
  BY DEF MutexInv
<1> QED
  BY <1>1, MutexInitInv, MutexStepInv, PTL DEF MutexSpec

----------------------------------------------------------------------------
(* The semaphore: the units held.                                          *)

LEMMA HeldFinite == IsFiniteSet(Held) /\ Cardinality(Held) \in Nat
<1>1. IsFiniteSet(SemTask \X (1 .. Count))
  <2>1. IsFiniteSet(1 .. Count)
    BY SemAssumption, FS_Interval
  <2> QED
    BY <2>1, SemAssumption, FS_Product
<1>2. Held \in SUBSET (SemTask \X (1 .. Count))
  BY DEF Held
<1> QED
  BY <1>1, <1>2, FS_Subset, FS_CardinalityType

\* A task holds no more than all hold together.
LEMMA UnitsBound ==
    ASSUME SemTypeOK, NEW t \in SemTask
    PROVE  units[t] <= Cardinality(Held)
<1> DEFINE mine == {t} \X (1 .. units[t])
<1>1. units[t] \in Nat /\ units[t] <= Count
  BY SemAssumption DEF SemTypeOK
<1>2. mine \in SUBSET Held
  BY <1>1, SemAssumption DEF Held
<1>3. IsFiniteSet(1 .. units[t]) /\ Cardinality(1 .. units[t]) = units[t]
  BY SMTT(30), <1>1, FS_Interval
<1>4. IsFiniteSet({t}) /\ Cardinality({t}) = 1
  BY FS_Singleton
<1>5. Cardinality(mine) = 1 * units[t]
  BY ZenonT(40), <1>3, <1>4, FS_Product
<1>6. Cardinality(mine) <= Cardinality(Held)
  BY <1>2, HeldFinite, FS_Subset
<1> QED
  BY <1>1, <1>5, <1>6

\* A unit more, or less, in the hands of one task is one more, or less, held.
LEMMA HeldMore ==
    ASSUME SemTypeOK, NEW t \in SemTask, units[t] < Count,
           units' = [units EXCEPT ![t] = units[t] + 1]
    PROVE  Cardinality(Held') = Cardinality(Held) + 1
<1> DEFINE x == <<t, units[t] + 1>>
<1>1. units[t] \in Nat /\ units \in [SemTask -> 0 .. Count] /\ Count \in Nat
  BY SemAssumption DEF SemTypeOK
<1>2. x \in SemTask \X (1 .. Count) /\ x \notin Held
  BY <1>1 DEF Held
<1>3. ASSUME NEW y \in SemTask \X (1 .. Count)
      PROVE  y[2] <= units'[y[1]] <=> (y[2] <= units[y[1]] \/ y = x)
  <2>1. PICK u \in SemTask, n \in 1 .. Count : y = <<u, n>>
    OBVIOUS
  <2>2. CASE u = t
    BY <1>1, <2>1, <2>2
  <2>3. CASE u # t
    BY <1>1, <2>1, <2>3
  <2> QED
    BY <2>2, <2>3
<1>4. Held' = Held \cup {x}
  BY <1>2, <1>3 DEF Held
<1> QED
  BY <1>2, <1>4, HeldFinite, FS_AddElement

LEMMA HeldLess ==
    ASSUME SemTypeOK, NEW t \in SemTask, units[t] > 0,
           units' = [units EXCEPT ![t] = units[t] - 1]
    PROVE  Cardinality(Held') = Cardinality(Held) - 1
<1> DEFINE x == <<t, units[t]>>
<1>1. units[t] \in Nat /\ units[t] <= Count /\ units \in [SemTask -> 0 .. Count] /\ Count \in Nat
  BY SemAssumption DEF SemTypeOK
<1>2. x \in Held
  BY <1>1 DEF Held
<1>3. ASSUME NEW y \in SemTask \X (1 .. Count)
      PROVE  y[2] <= units'[y[1]] <=> (y[2] <= units[y[1]] /\ y # x)
  <2>1. PICK u \in SemTask, n \in 1 .. Count : y = <<u, n>>
    OBVIOUS
  <2>2. CASE u = t
    BY <1>1, <2>1, <2>2
  <2>3. CASE u # t
    BY <1>1, <2>1, <2>3
  <2> QED
    BY <2>2, <2>3
<1>4. Held' = Held \ {x}
  BY <1>3 DEF Held
<1> QED
  BY <1>2, <1>4, HeldFinite, FS_RemoveElement

----------------------------------------------------------------------------
(* The semaphore: the wait queue and the ready list.                       *)

LEMMA ScheduleFacts ==
    ASSUME NEW S, NEW r \in Seq(S), NEW t \in S
    PROVE  /\ sem_schedule_task(r, t) \in Seq(S) /\ sem_schedule_task(r, t) # <<>>
           /\ Range(sem_schedule_task(r, t)) = Range(r) \cup {t}
           /\ IsInjective(r) => IsInjective(sem_schedule_task(r, t))
<1>1. CASE t \in Range(r)
  BY <1>1, EmptyFacts DEF sem_schedule_task
<1>2. CASE t \notin Range(r)
  BY <1>2, AppendFacts DEF sem_schedule_task
<1> QED
  BY <1>1, <1>2

LEMMA ScheduleRange ==
    \A r \in Seq(SemTask \cup {SemDisp}), t \in SemTask \cup {SemDisp} :
        /\ sem_schedule_task(r, t) \in Seq(SemTask \cup {SemDisp})
        /\ sem_schedule_task(r, t) # <<>>
        /\ Range(sem_schedule_task(r, t)) = Range(r) \cup {t}
BY ScheduleFacts

\* The parts of the invariant about the lists.
SemLists ==
    /\ waitq \in Seq(SemTask) /\ sem_ready \in Seq(SemTask \cup {SemDisp})
    /\ sem_cpu \in SemTask \cup {SemDisp}
    /\ waits \in [SemTask \cup {SemDisp} -> {"no", "unit", "room"}]
    /\ WaitersExact
    /\ SemDisp \in Range(sem_ready) \cup {sem_cpu}

\* A task that waits is linked once, and the core goes to the next task, which
\* there is, because the dispatcher is ready.
LEMMA WaitEventFacts ==
    ASSUME SemLists, NEW t \in SemTask, sem_cpu = t, NEW what \in {"unit", "room"},
           NEW q \in Seq(SemTask), IsInjective(q), Range(q) \cup {t} = Range(waitq) \cup {t},
           sw_wait_event(t, what, q)
    PROVE  SemLists'
<1>1. sem_ready # <<>>
  BY SemAssumption, EmptyFacts DEF SemLists
<1>2. /\ sem_cpu' \in SemTask \cup {SemDisp} /\ sem_ready' \in Seq(SemTask \cup {SemDisp})
      /\ Range(sem_ready) = {sem_cpu'} \cup Range(sem_ready')
  BY <1>1, HeadTailFacts DEF SemLists, sw_wait_event
<1>3. SemDisp \in Range(sem_ready') \cup {sem_cpu'}
  BY <1>2, SemAssumption DEF SemLists
<1>4. waitq' \in Seq(SemTask) /\ IsInjective(waitq') /\ Range(waitq') = Range(waitq) \cup {t}
  <2>1. sem_schedule_task(q, t) \in Seq(SemTask)
    BY ScheduleFacts
  <2>2. Range(sem_schedule_task(q, t)) = Range(q) \cup {t}
    <3>1. q \in Seq(SemTask \cup {SemDisp})
      OBVIOUS
    <3> QED
      BY <3>1, ScheduleRange
  <2>3. IsInjective(sem_schedule_task(q, t))
    BY ScheduleFacts
  <2> QED
    BY <2>1, <2>2, <2>3 DEF sw_wait_event
<1>5. waits' = [waits EXCEPT ![t] = what]
  BY DEF sw_wait_event
<1>6. waits' \in [SemTask \cup {SemDisp} -> {"no", "unit", "room"}]
  BY <1>5 DEF SemLists
<1>7. \A u \in SemTask : u \in Range(waitq') <=> waits'[u] # "no"
  BY <1>4, <1>5 DEF SemLists, WaitersExact
<1> QED
  BY <1>2, <1>3, <1>4, <1>6, <1>7 DEF SemLists, WaitersExact

\* A task that got what it asked for leaves the queue q to the others, the
\* first of which is woken.
LEMMA WakeupFacts ==
    ASSUME SemLists, NEW t \in SemTask, sem_cpu = t,
           NEW q \in Seq(SemTask), IsInjective(q), Range(q) = Range(waitq) \ {t},
           waits' = [waits EXCEPT ![t] = "no"], waitq' = q,
           sem_ready' = sw_wakeup(q), sem_cpu' = sem_cpu
    PROVE  /\ SemLists'
           /\ waitq' # <<>> => Head(waitq') \in Range(sem_ready') \cup {sem_cpu'}
<1>1. /\ sem_ready' \in Seq(SemTask \cup {SemDisp})
      /\ Range(sem_ready) \subseteq Range(sem_ready')
      /\ q # <<>> => Head(q) \in Range(sem_ready')
  <2>1. CASE q = <<>>
    BY <2>1 DEF sw_wakeup, SemLists
  <2>2. CASE q # <<>>
    <3>1. Head(q) \in SemTask \cup {SemDisp}
      BY <2>2, HeadInRange
    <3>2. sem_schedule_task(sem_ready, Head(q)) \in Seq(SemTask \cup {SemDisp})
      BY <3>1, ScheduleFacts DEF SemLists
    <3>3. Range(sem_schedule_task(sem_ready, Head(q))) = Range(sem_ready) \cup {Head(q)}
      BY <3>1, ScheduleRange DEF SemLists
    <3> QED
      BY <2>2, <3>2, <3>3 DEF sw_wakeup
  <2> QED
    BY <2>1, <2>2
<1>2. \A u \in SemTask : u \in Range(waitq') <=> waits'[u] # "no"
  BY DEF SemLists, WaitersExact
<1>3. waits' \in [SemTask \cup {SemDisp} -> {"no", "unit", "room"}]
  BY DEF SemLists
<1> QED
  BY <1>1, <1>2, <1>3 DEF SemLists, WaitersExact

\* The two queues a call goes on with: as it is, for a task that does not
\* wait, and without the task.
LEMMA QueueFacts ==
    ASSUME SemLists, NEW t \in SemTask
    PROVE  /\ waits[t] = "no" => Range(waitq) = Range(waitq) \ {t}
           /\ sw_wait_done(t) \in Seq(SemTask) /\ IsInjective(sw_wait_done(t))
           /\ Range(sw_wait_done(t)) = Range(waitq) \ {t}
<1>1. waits[t] = "no" => t \notin Range(waitq)
  BY DEF SemLists, WaitersExact
<1>2. waitq \in Seq(SemTask) /\ IsInjective(waitq)
  BY DEF SemLists, WaitersExact
<1> QED
  BY <1>1, <1>2, RemoveFirstFacts DEF sw_wait_done

----------------------------------------------------------------------------
(* The semaphore: its invariant.                                           *)

\* The parts about the units.
SemUnits ==
    /\ counter \in 0 .. Count /\ units \in [SemTask -> 0 .. Count]
    /\ condition \in BOOLEAN /\ deleted \in BOOLEAN /\ over \in BOOLEAN
    /\ UnitsConserved /\ NoLostWakeup
    /\ Disciplined => \A t \in SemTask : waits[t] # "room"

LEMMA SemInvSplit == SemInv <=> SemLists /\ SemUnits
BY DEF SemInv, SemaphoreSafe, SemTypeOK, SemLists, SemUnits

LEMMA SemInitInv == SemInit => SemInv
<1> SUFFICES ASSUME SemInit PROVE SemInv
  OBVIOUS
<1>1. Cardinality(SemTask) \in Nat
  BY SemAssumption, FS_CardinalityType
<1>2. sem_ready \in Seq(SemTask \cup {SemDisp})
  <2>1. PICK order \in SetToSeqs(SemTask) : sem_ready = order
    BY DEF SemInit
  <2>2. order \in [1 .. Cardinality(SemTask) -> SemTask]
    BY DEF SetToSeqs
  <2> QED
    BY <1>1, <2>1, <2>2
<1>3. SemLists
  BY <1>2, EmptyFacts DEF SemInit, SemLists, WaitersExact
<1>4. Held = {}
  BY SemAssumption DEF SemInit, Held
<1>5. Cardinality(Held) = 0
  BY <1>4, FS_EmptySet
<1>6. UnitsConserved
  BY <1>5, SemAssumption DEF SemInit, UnitsConserved
<1>7. counter \in 0 .. Count /\ units \in [SemTask -> 0 .. Count]
  BY SemAssumption DEF SemInit
<1>8. condition \in BOOLEAN /\ deleted \in BOOLEAN /\ over \in BOOLEAN
  BY DEF SemInit
<1>9. NoLostWakeup /\ \A t \in SemTask : waits[t] # "room"
  BY DEF SemInit, NoLostWakeup
<1> QED
  BY <1>3, <1>6, <1>7, <1>8, <1>9, SemInvSplit DEF SemUnits

\* A unit is taken: what the counter loses the task gains.
LEMMA AcquiredInv ==
    ASSUME SemInv, NEW t \in SemTask, sem_cpu = t, counter > 0,
           NEW q \in Seq(SemTask), IsInjective(q), Range(q) = Range(waitq) \ {t},
           Acquired(t, q), UNCHANGED <<deleted, over>>
    PROVE  SemInv'
<1> USE SemAssumption
<1>0. SemLists /\ SemUnits /\ SemTypeOK
  BY SemInvSplit DEF SemInv, SemaphoreSafe
<1>1. /\ SemLists'
      /\ waitq' # <<>> => Head(waitq') \in Range(sem_ready') \cup {sem_cpu'}
  BY <1>0, WakeupFacts DEF Acquired
<1>2. counter' = counter - 1 /\ counter \in Nat /\ counter <= Count /\ counter' \in 0 .. Count
  BY <1>0 DEF Acquired, SemUnits
<1>3. units[t] \in 0 .. Count /\ Plus1(units[t]) \in 0 .. Count
      /\ units' = [units EXCEPT ![t] = Plus1(units[t])]
  BY <1>0 DEF Acquired, SemUnits, Plus1
<1>4. ASSUME Disciplined' PROVE counter' + Cardinality(Held') = Count
  <2>1. counter + Cardinality(Held) = Count
    BY <1>0, <1>4 DEF SemUnits, UnitsConserved, Disciplined
  <2>2. units[t] <= Cardinality(Held) /\ Cardinality(Held) \in Nat
    BY <1>0, UnitsBound, HeldFinite
  <2>3. units[t] < Count
    BY <1>2, <1>3, <2>1, <2>2
  <2>4. units' = [units EXCEPT ![t] = units[t] + 1]
    BY <1>3, <2>3 DEF Plus1
  <2>5. Cardinality(Held') = Cardinality(Held) + 1
    BY <1>0, <2>3, <2>4, HeldMore
  <2> QED
    BY <1>2, <2>1, <2>2, <2>5
<1>5. units' \in [SemTask -> 0 .. Count]
  BY <1>0, <1>3 DEF SemUnits
<1>6. condition' \in BOOLEAN /\ deleted' \in BOOLEAN /\ over' \in BOOLEAN
  BY <1>0 DEF Acquired, SemUnits
<1>7. Disciplined' => \A u \in SemTask : waits'[u] # "room"
  BY <1>0 DEF Acquired, SemUnits, SemLists, Disciplined
<1>8. SemUnits'
  BY <1>1, <1>2, <1>4, <1>5, <1>6, <1>7 DEF SemUnits, UnitsConserved, NoLostWakeup
<1> QED
  BY <1>1, <1>8 DEF SemInv, SemaphoreSafe, SemTypeOK, SemLists, SemUnits

\* A task that finds no unit waits, and no wake-up is owed to anybody.
LEMMA WaitUnitInv ==
    ASSUME SemInv, NEW t \in SemTask, sem_cpu = t, ~(counter > 0),
           sw_wait_event(t, "unit", waitq),
           UNCHANGED <<counter, condition, units, deleted, over>>
    PROVE  SemInv'
<1> USE SemAssumption
<1>0. SemLists /\ SemUnits
  BY SemInvSplit
<1>1. SemLists'
  BY <1>0, WaitEventFacts DEF SemLists, WaitersExact
<1>2. Held' = Held
  BY DEF Held
<1>3. waits' = [waits EXCEPT ![t] = "unit"]
  BY DEF sw_wait_event
<1>4. Disciplined' => \A u \in SemTask : waits'[u] # "room"
  BY <1>0, <1>3 DEF SemUnits, SemLists, Disciplined
<1>5. SemUnits'
  BY <1>0, <1>2, <1>4 DEF SemUnits, UnitsConserved, NoLostWakeup, Disciplined
<1> QED
  BY <1>1, <1>5 DEF SemInv, SemaphoreSafe, SemTypeOK, SemLists, SemUnits

\* A unit is given back, or the release refused: the latter only when a task
\* releases what it did not acquire.
LEMMA ReleaseInv ==
    ASSUME SemInv, NEW t \in SemTask, sem_cpu = t,
           NEW q \in Seq(SemTask), IsInjective(q), Range(q) = Range(waitq) \ {t},
           Release(t, q), UNCHANGED deleted, over' \in BOOLEAN, over => over',
           Disciplined' => units[t] > 0
    PROVE  SemInv'
<1> USE SemAssumption
<1>0. SemLists /\ SemUnits /\ SemTypeOK
  BY SemInvSplit DEF SemInv, SemaphoreSafe
<1>1. Disciplined' => Disciplined
  BY DEF Disciplined
<1>2. deleted' \in BOOLEAN /\ units[t] \in 0 .. Count /\ counter \in 0 .. Count
  BY <1>0 DEF SemUnits
<1>3. CASE counter # Count
  <2>1. /\ SemLists'
        /\ waitq' # <<>> => Head(waitq') \in Range(sem_ready') \cup {sem_cpu'}
    BY <1>0, <1>3, WakeupFacts DEF Release
  <2>2. counter' = counter + 1 /\ counter' \in 0 .. Count /\ condition' \in BOOLEAN
    BY <1>0, <1>2, <1>3 DEF Release, SemUnits
  <2>3. units' = [units EXCEPT ![t] = IF units[t] = 0 THEN 0 ELSE units[t] - 1]
    BY <1>3 DEF Release
  <2>4. units' \in [SemTask -> 0 .. Count]
    BY <1>0, <1>2, <2>3 DEF SemUnits
  <2>5. ASSUME Disciplined' PROVE counter' + Cardinality(Held') = Count
    <3>0. units[t] > 0
      BY <2>5
    <3>a. (IF units[t] = 0 THEN 0 ELSE units[t] - 1) = units[t] - 1
      BY <1>2, <3>0
    <3>1. units[t] > 0 /\ units' = [units EXCEPT ![t] = units[t] - 1]
      BY <2>3, <3>0, <3>a, Zenon
    <3>2. Cardinality(Held') = Cardinality(Held) - 1
      BY <1>0, <3>1, HeldLess
    <3>3. counter + Cardinality(Held) = Count
      BY <1>0, <1>1, <2>5 DEF SemUnits, UnitsConserved
    <3> QED
      BY <1>2, <2>2, <3>2, <3>3, HeldFinite
  <2>6. Disciplined' => \A u \in SemTask : waits'[u] # "room"
    BY <1>0, <1>1, <1>3 DEF Release, SemUnits, SemLists
  <2>7. SemUnits'
    BY <1>2, <2>1, <2>2, <2>4, <2>5, <2>6 DEF SemUnits, UnitsConserved, NoLostWakeup
  <2> QED
    BY <2>1, <2>7 DEF SemInv, SemaphoreSafe, SemTypeOK, SemLists, SemUnits
<1>4. CASE counter = Count
  <2>1. ~Disciplined'
    <3>1. ASSUME Disciplined' PROVE FALSE
      <4>1. units[t] > 0
        BY <3>1
      <4>2. counter + Cardinality(Held) = Count
        BY <1>0, <1>1, <3>1 DEF SemUnits, UnitsConserved
      <4>3. units[t] <= Cardinality(Held) /\ Cardinality(Held) \in Nat
        BY <1>0, UnitsBound, HeldFinite
      <4> QED
        BY <1>2, <1>4, <4>1, <4>2, <4>3
    <3> QED
      BY <3>1
  <2>2. SemLists'
    BY <1>0, <1>4, WaitEventFacts DEF Release
  <2>3. SemUnits'
    BY <1>0, <1>2, <1>4, <2>1 DEF Release, SemUnits, UnitsConserved, NoLostWakeup
  <2> QED
    BY <2>2, <2>3 DEF SemInv, SemaphoreSafe, SemTypeOK, SemLists, SemUnits
<1> QED
  BY <1>3, <1>4

\* Every call, and every yield, keeps the invariant.
LEMMA SemStepInv == SemInv /\ [SemNext]_semvars => SemInv'
<1> SUFFICES ASSUME SemInv, [SemNext]_semvars PROVE SemInv'
  OBVIOUS
<1> USE SemAssumption
<1>0. SemLists /\ SemUnits
  BY SemInvSplit
<1>1. CASE SemYield
  <2> DEFINE r == sem_schedule_task(sem_ready, sem_cpu)
  <2>1. r \in Seq(SemTask \cup {SemDisp}) /\ r # <<>>
    BY <1>0, ScheduleRange DEF SemLists
  <2>2. Range(r) = Range(sem_ready) \cup {sem_cpu}
    BY <1>0, ScheduleRange DEF SemLists
  <2>3. sem_cpu' = Head(r) /\ sem_ready' = Tail(r)
    BY <1>1 DEF SemYield
  <2> HIDE DEF r
  <2>4. /\ sem_cpu' \in SemTask \cup {SemDisp} /\ sem_ready' \in Seq(SemTask \cup {SemDisp})
        /\ Range(sem_ready') \cup {sem_cpu'} = Range(sem_ready) \cup {sem_cpu}
    BY <2>1, <2>2, <2>3, HeadTailFacts
  <2>5. SemLists'
    BY <1>0, <1>1, <2>4 DEF SemYield, SemLists, WaitersExact
  <2>6. Held' = Held
    BY <1>1 DEF SemYield, Held
  <2>7. SemUnits'
    BY <1>0, <1>1, <2>4, <2>6 DEF SemYield, SemUnits, UnitsConserved, NoLostWakeup, Disciplined
  <2> QED
    BY <2>5, <2>7 DEF SemInv, SemaphoreSafe, SemTypeOK, SemLists, SemUnits
<1>2. ASSUME NEW t \in SemTask, sw_acquire_semaphore(t) PROVE SemInv'
  <2>1. CASE counter > 0
    <3>1. waitq \in Seq(SemTask) /\ IsInjective(waitq) /\ Range(waitq) = Range(waitq) \ {t}
      BY <1>0, <1>2, QueueFacts DEF sw_acquire_semaphore, SemLists, WaitersExact
    <3> QED
      BY <1>2, <2>1, <3>1, AcquiredInv DEF sw_acquire_semaphore, SemRuns
  <2>2. CASE ~(counter > 0)
    BY <1>2, <2>2, WaitUnitInv DEF sw_acquire_semaphore, SemRuns
  <2> QED
    BY <2>1, <2>2
<1>3. ASSUME NEW t \in SemTask, SemAcquireAgain(t) PROVE SemInv'
  <2>1. CASE counter > 0
    <3>1. sw_wait_done(t) \in Seq(SemTask) /\ IsInjective(sw_wait_done(t))
          /\ Range(sw_wait_done(t)) = Range(waitq) \ {t}
      BY <1>0, QueueFacts
    <3> QED
      BY <1>3, <2>1, <3>1, AcquiredInv DEF SemAcquireAgain, SemRuns
  <2>2. CASE ~(counter > 0)
    BY <1>3, <2>2, WaitUnitInv DEF SemAcquireAgain, SemRuns
  <2> QED
    BY <2>1, <2>2
<1>4. ASSUME NEW t \in SemTask, sw_release_semaphore(t) PROVE SemInv'
  <2>1. waitq \in Seq(SemTask) /\ IsInjective(waitq) /\ Range(waitq) = Range(waitq) \ {t}
    BY <1>0, <1>4, QueueFacts DEF sw_release_semaphore, SemLists, WaitersExact
  <2>2. over' \in BOOLEAN /\ (over => over')
    BY <1>0, <1>4 DEF sw_release_semaphore, SemUnits
  <2>3. Disciplined' => units[t] > 0
    <3>1. Disciplined' => units[t] # 0
      BY <1>4, Zenon DEF sw_release_semaphore, Disciplined
    <3>2. units[t] \in 0 .. Count
      BY <1>0 DEF SemUnits
    <3> QED
      BY <3>1, <3>2
  <2> QED
    BY <1>4, <2>1, <2>2, <2>3, ReleaseInv DEF sw_release_semaphore, SemRuns
<1>5. ASSUME NEW t \in SemTask, ReleaseAgain(t) PROVE SemInv'
  <2>1. ~Disciplined' /\ over' = over /\ deleted' = deleted
    BY <1>0, <1>5 DEF ReleaseAgain, SemUnits, Disciplined
  <2>2. CASE condition
    <3>1. sw_wait_done(t) \in Seq(SemTask) /\ IsInjective(sw_wait_done(t))
          /\ Range(sw_wait_done(t)) = Range(waitq) \ {t}
      BY <1>0, QueueFacts
    <3>2. over' \in BOOLEAN /\ (over => over')
      BY <1>0, <2>1 DEF SemUnits
    <3> QED
      BY <1>5, <2>1, <2>2, <3>1, <3>2, ReleaseInv DEF ReleaseAgain, SemRuns
  <2>3. CASE ~condition
    <3>1. SemLists'
      BY <1>0, <1>5, <2>3, WaitEventFacts DEF ReleaseAgain, SemRuns, SemLists, WaitersExact
    <3>2. SemUnits'
      BY <1>0, <1>5, <2>1, <2>3 DEF ReleaseAgain, SemUnits, UnitsConserved, NoLostWakeup
    <3> QED
      BY <3>1, <3>2 DEF SemInv, SemaphoreSafe, SemTypeOK, SemLists, SemUnits
  <2> QED
    BY <2>2, <2>3
<1>6. ASSUME NEW t \in SemTask, sw_delete_semaphore(t) PROVE SemInv'
  <2>1. ~Disciplined' /\ counter' \in 0 .. Count
    BY <1>6 DEF sw_delete_semaphore, Disciplined
  <2>2. SemLists' /\ SemUnits'
    BY <1>0, <1>6, <2>1
       DEF sw_delete_semaphore, SemLists, WaitersExact, SemUnits, UnitsConserved, NoLostWakeup
  <2> QED
    BY <2>2 DEF SemInv, SemaphoreSafe, SemTypeOK, SemLists, SemUnits
<1>7. CASE UNCHANGED semvars
  <2>1. Held' = Held
    BY <1>7 DEF semvars, Held
  <2> QED
    BY <1>7, <2>1 DEF semvars, SemInv, SemaphoreSafe, SemTypeOK, WaitersExact, UnitsConserved,
                      NoLostWakeup, Disciplined
<1> QED
  BY <1>1, <1>2, <1>3, <1>4, <1>5, <1>6, <1>7 DEF SemNext, SemTaskStep

\* The semaphore of sw_semaphores.c: the queue links exactly the waiting tasks,
\* no unit is lost or taken twice, and the first waiter is awake whenever there
\* is a unit, for any number of tasks and units, through every order of calls,
\* yields, wake-ups and the deletion.
THEOREM SemaphoreKeepsUnits == SemSpec => []SemaphoreSafe
<1>1. SemInv => SemaphoreSafe
  BY DEF SemInv
<1> QED
  BY <1>1, SemInitInv, SemStepInv, PTL DEF SemSpec

----------------------------------------------------------------------------
(* The clock.                                                              *)

\* The whole laps in the account.
LapCycles == (laps - (IF overflow THEN 1 ELSE 0)) * TIMER_COUNT_MAX

LEMMA LapCyclesInt == ClockInv => LapCycles \in Int
BY ClockAssumption DEF ClockInv, LapCycles

LEMMA LapCyclesKept == UNCHANGED <<laps, overflow>> => LapCycles' = LapCycles
BY DEF LapCycles

\* An overflow adds a lap that is not accounted for yet, and its interrupt
\* accounts for it.
LEMMA LapCyclesOverflow ==
    ClockInv /\ ~overflow /\ overflow' = TRUE /\ laps' = laps + 1 => LapCycles' = LapCycles
<1> SUFFICES ASSUME ClockInv, ~overflow, overflow' = TRUE, laps' = laps + 1
             PROVE  LapCycles' = LapCycles
  OBVIOUS
<1>1. laps' - 1 = laps /\ laps - 0 = laps
  BY DEF ClockInv
<1>2. LapCycles' = (laps' - 1) * TIMER_COUNT_MAX /\ LapCycles = (laps - 0) * TIMER_COUNT_MAX
  BY DEF LapCycles
<1> QED
  BY <1>1, <1>2

LEMMA LapCyclesInterrupt ==
    ClockInv /\ overflow /\ overflow' = FALSE /\ laps' = laps
        => LapCycles' = LapCycles + TIMER_COUNT_MAX
<1> SUFFICES ASSUME ClockInv, overflow, overflow' = FALSE, laps' = laps
             PROVE  LapCycles' = LapCycles + TIMER_COUNT_MAX
  OBVIOUS
<1>1. laps - 0 = laps /\ laps \in Int /\ TIMER_COUNT_MAX \in Int
  BY ClockAssumption DEF ClockInv
<1>2. LapCycles' = (laps - 0) * TIMER_COUNT_MAX /\ LapCycles = (laps - 1) * TIMER_COUNT_MAX
  BY DEF LapCycles
<1>3. \A l, m \in Int : l * m = (l - 1) * m + m
  OBVIOUS
<1> QED
  BY <1>1, <1>2, <1>3

LEMMA AccountedIs == Accounted = LapCycles + old_count
BY DEF Accounted, LapCycles

LEMMA ClockInitInv == ClockInit => ClockInv
<1> SUFFICES ASSUME ClockInit PROVE ClockInv
  OBVIOUS
<1>1. TIMER_COUNT_MAX \in Nat /\ 0 - 0 = 0
  BY ClockAssumption
<1>2. LapCycles = 0
  BY <1>1 DEF ClockInit, LapCycles
<1>3. Accounted = 0
  BY <1>2, AccountedIs DEF ClockInit
<1> QED
  <2>1. overflow \in BOOLEAN /\ late \in BOOLEAN /\ mixed \in BOOLEAN
    BY DEF ClockInit
  <2> QED
    BY <1>1, <1>3, <2>1 DEF ClockInit, ClockInv

\* Every step of the counter, of the FIQs and of a task's reading.
LEMMA ClockStepInv == ClockInv /\ [ClockNext]_clockvars => ClockInv'
<1> SUFFICES ASSUME ClockInv, [ClockNext]_clockvars PROVE ClockInv'
  OBVIOUS
<1> USE ClockAssumption
<1>a. LapCycles \in Int /\ Accounted = LapCycles + old_count
  BY LapCyclesInt, AccountedIs
<1>b. Accounted' = LapCycles' + old_count'
  BY DEF Accounted, LapCycles
<1>1. CASE ~mixed /\ Counts
  <2>1. LapCycles' = LapCycles
    BY <1>1, LapCyclesKept, LapCyclesOverflow DEF Counts
  <2>2. CASE count < TIMER_COUNT_MAX
    BY <1>a, <1>b, <1>1, <2>1, <2>2 DEF Counts, ClockInv
  <2>3. CASE ~(count < TIMER_COUNT_MAX)
    BY <1>a, <1>b, <1>1, <2>1, <2>3 DEF Counts, ClockInv
  <2> QED
    BY <2>2, <2>3
<1>2. CASE ~mixed /\ free_running_cntr_intr
  <2>1. LapCycles' = LapCycles + TIMER_COUNT_MAX
    BY <1>2, LapCyclesInterrupt DEF free_running_cntr_intr
  <2>2. Converted(TIMER_COUNT_MAX - old_count) = TIMER_COUNT_MAX - old_count
    BY DEF Converted, ClockInv
  <2>3. mixed' \in BOOLEAN /\ (~mixed' => reading = "no")
    BY <1>2, Zenon DEF free_running_cntr_intr
  <2>4. ~mixed' => /\ abs_cycles' = Accounted'
                   /\ ~late' => timestamp' = Accounted'
    BY <1>a, <1>b, <1>2, <2>1, <2>2, <2>3 DEF free_running_cntr_intr, ClockInv
  <2>5. abs_cycles' \in Int /\ timestamp' \in Int
    BY <1>2, <2>2 DEF free_running_cntr_intr, ClockInv
  <2>6. overflow' \in BOOLEAN /\ late' \in BOOLEAN
    BY <1>2 DEF free_running_cntr_intr, ClockInv
  <2>7. CASE mixed'
    BY <1>2, <2>3, <2>5, <2>6, <2>7 DEF free_running_cntr_intr, ClockInv
  <2>8. CASE ~mixed'
    BY <1>2, <2>3, <2>4, <2>5, <2>6, <2>8 DEF free_running_cntr_intr, ClockInv
  <2> QED
    BY <2>3, <2>7, <2>8
<1>3. CASE ~mixed /\ timer_interrupt_reads
  <2>1. LapCycles' = LapCycles
    BY <1>3, LapCyclesKept DEF timer_interrupt_reads
  <2>2. mixed' \in BOOLEAN /\ (~mixed' => reading \in {"no", "subtract"})
    BY <1>3, Zenon DEF timer_interrupt_reads
  <2>3. late' \in BOOLEAN /\ (~late' => ~late /\ ~overflow)
    BY <1>3, Zenon DEF timer_interrupt_reads
  <2>4. Converted(count - old_count) \in Int
        /\ (~late' => Converted(count - old_count) = count - old_count)
    BY <1>3, <2>3 DEF Converted, ClockInv
  <2>5. ~mixed' => /\ abs_cycles' = Accounted'
                   /\ ~late' => timestamp' = Accounted'
    BY <1>a, <1>b, <1>3, <2>1, <2>2, <2>3, <2>4 DEF timer_interrupt_reads, ClockInv
  <2>6. timestamp' \in Int /\ abs_cycles' \in Int
    BY <1>3, <2>4 DEF timer_interrupt_reads, ClockInv
  <2> QED
    BY <1>3, <2>2, <2>3, <2>5, <2>6 DEF timer_interrupt_reads, ClockInv
<1>4. CASE ~mixed /\ read_timestamp
  <2>1. LapCycles' = LapCycles
    BY <1>4, LapCyclesKept DEF read_timestamp
  <2> QED
    BY <1>a, <1>b, <1>4, <2>1 DEF read_timestamp, ClockInv
<1>5. CASE ~mixed /\ Subtract
  <2>1. LapCycles' = LapCycles
    BY <1>5, LapCyclesKept DEF Subtract
  <2> QED
    BY <1>a, <1>b, <1>5, <2>1 DEF Subtract, ClockInv
<1>6. CASE ~mixed /\ AddCycles
  <2>1. LapCycles' = LapCycles
    BY <1>6, LapCyclesKept DEF AddCycles
  <2> QED
    BY <1>a, <1>b, <1>6, <2>1 DEF AddCycles, ClockInv
<1>7. CASE ~mixed /\ StoreOld
  <2>1. LapCycles' = LapCycles
    BY <1>7, LapCyclesKept DEF StoreOld
  <2> QED
    BY <1>a, <1>b, <1>7, <2>1 DEF StoreOld, ClockInv
<1>8. CASE ~mixed /\ AddTime
  <2>1. LapCycles' = LapCycles
    BY <1>8, LapCyclesKept DEF AddTime
  <2> QED
    BY <1>a, <1>b, <1>8, <2>1 DEF AddTime, ClockInv, Converted
<1>9. CASE UNCHANGED clockvars
  <2>1. Accounted' = Accounted
    BY <1>9 DEF clockvars, Accounted
  <2> QED
    BY <1>9, <2>1 DEF clockvars, ClockInv
<1> QED
  BY <1>1, <1>2, <1>3, <1>4, <1>5, <1>6, <1>7, <1>8, <1>9 DEF ClockNext

\* The clock of sw_timer.c loses exactly one cycle a lap, also when a reading
\* meets an overflow whose interrupt is still to come, and the timestamp is
\* exact as long as none did: for every size of the counter and any number of
\* laps, until a FIQ falls inside a task's reading.
THEOREM ClockCountsCycles == ClockSpec => []ClockExact
<1>1. ClockInv => ClockExact
  <2> SUFFICES ASSUME ClockInv, ~mixed, reading = "no"
               PROVE  abs_cycles = Accounted /\ (~late => timestamp = Accounted)
    BY DEF ClockExact
  <2>1. LapCycles \in Int /\ Accounted = LapCycles + old_count
    BY LapCyclesInt, AccountedIs
  <2> QED
    BY <2>1, ClockAssumption DEF ClockInv
<1> QED
  BY <1>1, ClockInitInv, ClockStepInv, PTL DEF ClockSpec

----------------------------------------------------------------------------
(* Timer events: times.                                                    *)

LEMMA LongestFacts == Longest \in Nat /\ \A d \in Durations : d \in Nat /\ d <= Longest
<1>1. \E d \in Durations : \A e \in Durations : e <= d
  BY TimerAssumption
<1>2. Longest \in Durations /\ \A e \in Durations : e <= Longest
  BY <1>1 DEF Longest
<1> QED
  BY <1>2, TimerAssumption

LEMMA TimesFacts ==
    /\ TIMEVAL_MAX \in Nat /\ Times \subseteq Int /\ TIMEVAL_MAX \notin Times
    /\ \A x \in Times : -MaxLate <= x /\ x < TIMEVAL_MAX
    /\ Durations \subseteq Times
BY LongestFacts, TimerAssumption DEF TIMEVAL_MAX, Times

\* A clock cycle brings every expiry nearer and keeps their order.
LEMMA ElapseFacts ==
    /\ \A x \in Times \cup {TIMEVAL_MAX} :
          /\ Elapse(x) \in Times \cup {TIMEVAL_MAX}
          /\ Elapse(x) = TIMEVAL_MAX <=> x = TIMEVAL_MAX
    /\ \A x, y \in Times \cup {TIMEVAL_MAX} : x <= y => Elapse(x) <= Elapse(y)
<1>0. Longest + Period \in Nat /\ MaxLate \in Nat
  BY LongestFacts, TimerAssumption
<1>1. ASSUME NEW x \in Times \cup {TIMEVAL_MAX}
      PROVE  /\ Elapse(x) \in Times \cup {TIMEVAL_MAX}
             /\ Elapse(x) = TIMEVAL_MAX <=> x = TIMEVAL_MAX
  <2>1. CASE x = TIMEVAL_MAX
    BY <2>1 DEF Elapse
  <2>2. CASE x \in Times
    <3>1. Elapse(x) \in Times
      BY <1>0, <2>2 DEF Elapse, Times
    <3> QED
      BY <2>2, <3>1, TimesFacts
  <2> QED
    BY <2>1, <2>2
<1>2. ASSUME NEW x \in Times \cup {TIMEVAL_MAX}, NEW y \in Times \cup {TIMEVAL_MAX}, x <= y
      PROVE  Elapse(x) <= Elapse(y)
  BY <1>0, <1>2, TimesFacts DEF Elapse
<1> QED
  BY <1>1, <1>2

\* What the timer is set to is at least a cycle and no more than it can hold.
LEMMA CyclesFacts ==
    /\ \A x \in Times \cup {TIMEVAL_MAX} : ClockCycles(x) \in 1 .. TIMEVAL_MAX
    /\ \A n \in 1 .. TIMEVAL_MAX : trigger_tick(n) \in 1 .. CountMax
    /\ Off \notin 1 .. CountMax
<1>0. Longest \in Nat /\ Period \in Nat /\ Period > 0 /\ CountMax \in Nat /\ CountMax > 0
      /\ MaxLate \in Nat
  BY LongestFacts, TimerAssumption
<1>1. \A x \in Times \cup {TIMEVAL_MAX} : ClockCycles(x) \in 1 .. TIMEVAL_MAX
  BY <1>0 DEF ClockCycles, Times, TIMEVAL_MAX
<1>2. \A n \in 1 .. TIMEVAL_MAX : trigger_tick(n) \in 1 .. CountMax
  BY <1>0, TimesFacts DEF trigger_tick
<1>3. Off \notin 1 .. CountMax
  BY <1>0 DEF Off
<1> QED
  BY <1>1, <1>2, <1>3

----------------------------------------------------------------------------
(* Timer events: the queue.                                                *)

\* The parts of the invariant.
InOrder == \A i, j \in DOMAIN queue : i < j => timelen[queue[i]] <= timelen[queue[j]]

LinkedActive == IsInjective(queue) /\ \A e \in Event : e \in Range(queue) <=> state[e] = "active"

Calls ==
    /\ pc # "idle" => cur \in Event
    /\ pc \in {"expire", "add"} => state[cur] = "inactive"
    /\ pc \in {"add", "compare", "program", "trigger"} => timelen[cur] # TIMEVAL_MAX
    /\ pc = "trigger" => cycles > 0

Programmed ==
    /\ next # TIMEVAL_MAX /\ pc # "trigger" => isr \/ hw # Off
    /\ queue # <<>> /\ pc \notin {"compare", "program", "trigger"} => isr \/ hw # Off

LEMMA TimerInvSplit ==
    TimerInv <=> TimerTypeOK /\ InOrder /\ LinkedActive /\ Calls /\ Programmed
BY DEF TimerInv, QueueExact, InOrder, LinkedActive, Calls, Programmed

LEMMA TimelenInt ==
    ASSUME TimerTypeOK
    PROVE  /\ queue \in Seq(Event) /\ DOMAIN queue = 1 .. Len(queue) /\ Len(queue) \in Nat
           /\ \A i \in DOMAIN queue : queue[i] \in Event
           /\ \A e \in Event : timelen[e] \in Times \cup {TIMEVAL_MAX} /\ timelen[e] \in Int
<1>1. \A e \in Event : timelen[e] \in Times \cup {TIMEVAL_MAX}
  BY DEF TimerTypeOK
<1>2. Times \cup {TIMEVAL_MAX} \subseteq Int
  BY TimesFacts
<1>3. queue \in Seq(Event)
  BY DEF TimerTypeOK
<1> QED
  BY <1>1, <1>2, <1>3

\* timer_queue_add links the event where the order stays.
LEMMA QueueAddFacts ==
    ASSUME TimerTypeOK, InOrder, cur \in Event
    PROVE  /\ timer_queue_add \in Seq(Event)
           /\ Len(timer_queue_add) = Len(queue) + 1
           /\ \E k \in 1 .. (Len(queue) + 1) :
                /\ timer_queue_add = InsertAt(queue, k, cur)
                /\ \A i \in 1 .. (k - 1) : timelen[queue[i]] <= timelen[cur]
                /\ \A i \in k .. Len(queue) : timelen[cur] <= timelen[queue[i]]
<1> DEFINE later == {i \in DOMAIN queue : timelen[cur] < timelen[queue[i]]}
           at == IF later = {} THEN Len(queue) + 1 ELSE CHOOSE i \in later : \A j \in later : i <= j
<1>1. queue \in Seq(Event) /\ DOMAIN queue = 1 .. Len(queue) /\ Len(queue) \in Nat
  BY TimelenInt
<1>2. timelen[cur] \in Int /\ \A i \in DOMAIN queue : timelen[queue[i]] \in Int
  BY TimelenInt
<1>3. at \in 1 .. (Len(queue) + 1) /\ (later # {} => at \in later /\ \A j \in later : at <= j)
      /\ (later = {} => at = Len(queue) + 1)
  <2>1. CASE later = {}
    BY <1>1, <2>1
  <2>2. CASE later # {}
    <3>1. later \in SUBSET Nat
      BY <1>1
    <3>2. \E m \in later : \A y \in later : m <= y
      BY <2>2, <3>1, LeastNat
    <3>3. at \in later /\ \A j \in later : at <= j
      BY <2>2, <3>2
    <3> QED
      BY <1>1, <2>2, <3>3
  <2> QED
    BY <2>1, <2>2
<1>4. timer_queue_add = InsertAt(queue, at, cur)
  BY DEF timer_queue_add
<1> HIDE DEF at
<1>5. \A i \in 1 .. (at - 1) : timelen[queue[i]] <= timelen[cur]
  <2> SUFFICES ASSUME NEW i \in 1 .. (at - 1) PROVE timelen[queue[i]] <= timelen[cur]
    OBVIOUS
  <2>1. i \in DOMAIN queue /\ i \notin later
    BY <1>1, <1>3
  <2> QED
    BY <1>2, <2>1
<1>6. \A i \in at .. Len(queue) : timelen[cur] <= timelen[queue[i]]
  <2> SUFFICES ASSUME NEW i \in at .. Len(queue) PROVE timelen[cur] <= timelen[queue[i]]
    OBVIOUS
  <2>1. later # {} /\ at \in later /\ i \in DOMAIN queue /\ at \in DOMAIN queue
    BY <1>1, <1>3
  <2>2. timelen[cur] < timelen[queue[at]]
    BY <2>1
  <2>3. timelen[queue[at]] <= timelen[queue[i]]
    BY SMTT(30), <1>1, <1>2, <1>3, <2>1 DEF InOrder
  <2> QED
    BY <1>2, <2>1, <2>2, <2>3
<1> HIDE DEF later
<1>7. InsertAt(queue, at, cur) \in Seq(Event) /\ Len(InsertAt(queue, at, cur)) = Len(queue) + 1
  BY <1>1, <1>3, InsertAtFacts
<1> QED
  BY <1>3, <1>4, <1>5, <1>6, <1>7

\* The expired events are a prefix of the queue.
LEMMA ExpiredFacts ==
    ASSUME TimerTypeOK
    PROVE  /\ Expired \in 0 .. Len(queue)
           /\ \A i \in 1 .. Expired : timelen[queue[i]] <= 0
           /\ Expired < Len(queue) => timelen[queue[Expired + 1]] > 0
<1> DEFINE P(k) == /\ \A i \in 1 .. k : timelen[queue[i]] <= 0
                   /\ k < Len(queue) => timelen[queue[k + 1]] > 0
           Left == {i \in DOMAIN queue : timelen[queue[i]] > 0}
<1>1. DOMAIN queue = 1 .. Len(queue) /\ Len(queue) \in Nat
      /\ \A i \in DOMAIN queue : timelen[queue[i]] \in Int
  BY TimelenInt
<1>2. \E k \in 0 .. Len(queue) : P(k)
  <2>1. CASE Left = {}
    <3>1. P(Len(queue)) /\ Len(queue) \in 0 .. Len(queue)
      BY <1>1, <2>1
    <3> QED
      BY <3>1
  <2>2. CASE Left # {}
    <3>1. Left \in SUBSET Nat
      BY <1>1
    <3>2. PICK m \in Left : \A y \in Left : m <= y
      BY <2>2, <3>1, LeastNat
    <3>3. m - 1 \in 0 .. Len(queue) /\ (m - 1) + 1 = m /\ timelen[queue[m]] > 0
      BY <1>1, <3>2
    <3>4. ASSUME NEW i \in 1 .. (m - 1) PROVE timelen[queue[i]] <= 0
      <4>1. i \in DOMAIN queue /\ i \notin Left
        BY <1>1, <3>2
      <4> QED
        BY <1>1, <4>1
    <3>5. P(m - 1)
      BY <3>3, <3>4
    <3> QED
      BY <3>3, <3>5
  <2> QED
    BY <2>1, <2>2
<1>3. Expired = CHOOSE k \in 0 .. Len(queue) : P(k)
  BY DEF Expired
<1> HIDE DEF P
<1>4. Expired \in 0 .. Len(queue) /\ P(Expired)
  BY <1>2, <1>3
<1> QED
  BY <1>4 DEF P

----------------------------------------------------------------------------
(* Timer events: the steps.                                                *)

LEMMA TimerInitInv == TimerInit => TimerInv
<1> SUFFICES ASSUME TimerInit PROVE TimerInv
  OBVIOUS
<1>1. TimerTypeOK
  <2>1. next \in Times \cup {TIMEVAL_MAX} /\ cycles \in 0 .. TIMEVAL_MAX
    BY TimesFacts DEF TimerInit
  <2>2. queue \in Seq(Event)
    BY DEF TimerInit
  <2>3. isr \in BOOLEAN /\ pc \in PCs
    BY DEF TimerInit, PCs
  <2> QED
    BY <2>1, <2>2, <2>3 DEF TimerInit, TimerTypeOK
<1>2. InOrder /\ LinkedActive
  BY EmptyFacts DEF TimerInit, InOrder, LinkedActive
<1>3. Calls /\ Programmed
  BY DEF TimerInit, Calls, Programmed
<1> QED
  BY <1>1, <1>2, <1>3, TimerInvSplit

LEMMA TickInv == TimerInv /\ Tick => TimerInv'
<1> SUFFICES ASSUME TimerInv, Tick PROVE TimerInv'
  OBVIOUS
<1>0. TimerTypeOK /\ InOrder /\ LinkedActive /\ Calls /\ Programmed
  BY TimerInvSplit
<1>1. \A e \in Event : timelen'[e] = IF Timed(e) THEN Elapse(timelen[e]) ELSE TIMEVAL_MAX
  BY DEF Tick
<1>2. timelen' \in [Event -> Times \cup {TIMEVAL_MAX}]
  <2>1. \A e \in Event : Elapse(timelen[e]) \in Times \cup {TIMEVAL_MAX}
    BY <1>0, TimelenInt, ElapseFacts
  <2> QED
    BY <2>1 DEF Tick
<1>3. next' \in Times \cup {TIMEVAL_MAX} /\ (next' = TIMEVAL_MAX <=> next = TIMEVAL_MAX)
  BY <1>0, ElapseFacts DEF Tick, TimerTypeOK
<1>4. hw' \in {Off} \cup 1 .. CountMax /\ isr' \in BOOLEAN
      /\ (hw # Off => isr' \/ hw' # Off) /\ ~isr
  <2>1. hw \in {Off} \cup 1 .. CountMax /\ CountMax \in Nat
    BY <1>0, TimerAssumption DEF TimerTypeOK
  <2>2. isr' = (hw = 1) /\ ~isr /\ hw' = IF hw \in {Off, 1} THEN Off ELSE hw - 1
    BY DEF Tick
  <2>3. CASE hw = Off
    BY <2>2, <2>3
  <2>4. CASE hw = 1
    BY <2>2, <2>4
  <2>5. CASE hw \in 1 .. CountMax /\ hw # 1 /\ hw # Off
    <3>1. hw' = hw - 1
      BY <2>2, <2>5
    <3>2. hw - 1 \in 1 .. CountMax /\ hw - 1 # Off
      BY <2>1, <2>5 DEF Off
    <3> QED
      BY <2>2, <3>1, <3>2
  <2> QED
    BY <2>1, <2>3, <2>4, <2>5
<1>5. TimerTypeOK'
  BY <1>0, <1>2, <1>3, <1>4 DEF Tick, TimerTypeOK
<1>6. InOrder'
  <2>1. \A i \in DOMAIN queue : queue[i] \in Event /\ Timed(queue[i])
    BY <1>0, TimelenInt DEF LinkedActive, Timed, Range
  <2>2. \A i \in DOMAIN queue : timelen'[queue[i]] = Elapse(timelen[queue[i]])
    BY <1>1, <2>1
  <2>3. \A i, j \in DOMAIN queue : i < j => Elapse(timelen[queue[i]]) <= Elapse(timelen[queue[j]])
    BY <1>0, <2>1, ElapseFacts, TimelenInt DEF InOrder
  <2>4. queue' = queue
    BY DEF Tick
  <2> QED
    BY <2>2, <2>3, <2>4 DEF InOrder
<1>7. LinkedActive'
  BY <1>0 DEF Tick, LinkedActive
<1>8. Calls'
  <2>1. cur \in Event => timelen'[cur] = Elapse(timelen[cur])
    BY <1>1 DEF Timed
  <2>2. cur \in Event /\ timelen[cur] # TIMEVAL_MAX => timelen'[cur] # TIMEVAL_MAX
    BY <1>0, <2>1, ElapseFacts, TimelenInt
  <2> QED
    BY <1>0, <2>2 DEF Tick, Calls
<1>9. Programmed'
  BY <1>0, <1>3, <1>4 DEF Tick, Programmed
<1> QED
  BY <1>5, <1>6, <1>7, <1>8, <1>9
     DEF TimerInv, QueueExact, InOrder, LinkedActive, Calls, Programmed

\* The tick FIQ takes the expired events off the queue, frees them and sets
\* the timer for the first that is left.
LEMMA InterruptInv == TimerInv /\ timer_interrupt => TimerInv'
<1> SUFFICES ASSUME TimerInv, timer_interrupt PROVE TimerInv'
  OBVIOUS
<1>0. TimerTypeOK /\ InOrder /\ LinkedActive /\ Calls /\ Programmed
  BY TimerInvSplit
<1>1. PICK k \in 0 .. Len(queue) : k = Expired
  BY <1>0, ExpiredFacts
<1>2. queue \in Seq(Event) /\ DOMAIN queue = 1 .. Len(queue) /\ Len(queue) \in Nat
      /\ \A i \in DOMAIN queue : queue[i] \in Event
  BY <1>0, TimelenInt
<1>3. /\ queue' = SubSeq(queue, k + 1, Len(queue)) /\ isr' = FALSE /\ next' = TIMEVAL_MAX
      /\ hw' = IF k = Len(queue) THEN Off ELSE trigger_tick(ClockCycles(timelen[queue[k + 1]]))
      /\ state' = [e \in Event |-> IF \E i \in 1 .. k : queue[i] = e THEN "free" ELSE state[e]]
      /\ UNCHANGED <<timelen, pc, cur, cycles>>
  BY <1>1 DEF timer_interrupt
<1>4. queue' \in Seq(Event) /\ Len(queue') = Len(queue) - k /\ DOMAIN queue' = 1 .. (Len(queue) - k)
      /\ \A i \in 1 .. (Len(queue) - k) : queue'[i] = queue[k + i]
  <2>1. Len(queue) \in Nat /\ queue \in Seq(Event)
    BY <1>2
  <2>2. queue' = SubSeq(queue, k + 1, Len(queue))
    BY <1>3
  <2>3. queue' \in Seq(Event) /\ Len(queue') = Len(queue) - k
        /\ \A i \in 1 .. (Len(queue) - k) : queue'[i] = queue[k + i]
    BY <2>1, <2>2, SuffixFacts
  <2> QED
    BY <2>1, <2>3
<1>5. hw' \in {Off} \cup 1 .. CountMax /\ (k # Len(queue) => hw' # Off)
  <2>1. CASE k = Len(queue)
    BY <1>3, <2>1
  <2>2. CASE k # Len(queue)
    <3>0. Len(queue) \in Nat /\ DOMAIN queue = 1 .. Len(queue)
      BY <1>2
    <3>a. k \in Nat /\ k <= Len(queue)
      BY <3>0
    <3>b. k < Len(queue)
      <4>1. \A x, y \in Nat : x <= y /\ x # y => x < y
        OBVIOUS
      <4> QED
        BY <2>2, <3>0, <3>a, <4>1, Zenon
    <3>c. k + 1 \in 1 .. Len(queue)
      BY <3>0, <3>a, <3>b
    <3>1. k + 1 \in DOMAIN queue
      BY <3>0, <3>c
    <3>2. timelen[queue[k + 1]] \in Times \cup {TIMEVAL_MAX}
      BY <1>0, <3>1, TimelenInt
    <3> QED
      BY <1>3, <2>2, <3>2, CyclesFacts
  <2> QED
    BY <2>1, <2>2
<1>6. state' \in [Event -> {"free", "inactive", "active"}]
  BY <1>0, <1>3 DEF TimerTypeOK
<1>7. TimerTypeOK'
  BY <1>0, <1>3, <1>4, <1>5, <1>6 DEF TimerTypeOK
<1>8. InOrder'
  <2> SUFFICES ASSUME NEW i \in DOMAIN queue', NEW j \in DOMAIN queue', i < j
               PROVE  timelen'[queue'[i]] <= timelen'[queue'[j]]
    BY DEF InOrder
  <2>1. k + i \in DOMAIN queue /\ k + j \in DOMAIN queue /\ k + i < k + j
    BY <1>1, <1>2, <1>4
  <2> QED
    BY <1>0, <1>3, <1>4, <2>1 DEF InOrder
<1>9. IsInjective(queue')
  <2> SUFFICES ASSUME NEW i \in DOMAIN queue', NEW j \in DOMAIN queue', queue'[i] = queue'[j]
               PROVE  i = j
    BY DEF IsInjective
  <2>1. k + i \in DOMAIN queue /\ k + j \in DOMAIN queue
    BY <1>1, <1>2, <1>4
  <2>2. k + i = k + j
    BY <1>0, <1>4, <2>1 DEF LinkedActive, IsInjective
  <2> QED
    BY <1>1, <1>4, <2>2
<1>10. ASSUME NEW e \in Event PROVE e \in Range(queue') <=> state'[e] = "active"
  <2>1. CASE \E i \in 1 .. k : queue[i] = e
    <3>1. state'[e] = "free"
      BY <1>3, <2>1
    <3>2. PICK i \in 1 .. k : queue[i] = e
      BY <2>1
    <3>3. ASSUME NEW j \in DOMAIN queue', queue'[j] = e PROVE FALSE
      <4>1. k + j \in DOMAIN queue /\ i \in DOMAIN queue /\ k + j # i
        BY <1>2, <1>4
      <4>2. queue[k + j] = e
        BY <1>4, <3>3
      <4> QED
        BY <1>0, <3>2, <4>1, <4>2 DEF LinkedActive, IsInjective
    <3> QED
      BY <3>1, <3>3 DEF Range
  <2>2. CASE ~ \E i \in 1 .. k : queue[i] = e
    <3>1. state'[e] = state[e]
      BY <1>3, <2>2
    <3>2. ASSUME NEW i \in DOMAIN queue, queue[i] = e PROVE e \in Range(queue')
      <4>1. i - k \in DOMAIN queue' /\ k + (i - k) = i
        BY <1>1, <1>2, <1>4, <2>2, <3>2
      <4>2. queue'[i - k] = e
        BY <1>4, <3>2, <4>1
      <4> QED
        BY <4>1, <4>2 DEF Range
    <3>3. ASSUME NEW j \in DOMAIN queue', queue'[j] = e PROVE e \in Range(queue)
      <4>1. k + j \in DOMAIN queue /\ queue[k + j] = e
        BY <1>1, <1>2, <1>4, <3>3
      <4> QED
        BY <4>1 DEF Range
    <3>4. e \in Range(queue') <=> e \in Range(queue)
      BY <3>2, <3>3 DEF Range
    <3> QED
      BY <1>0, <3>1, <3>4 DEF LinkedActive
  <2> QED
    BY <2>1, <2>2
<1>11. Calls'
  <2>1. ASSUME NEW e \in Event, state[e] = "inactive" PROVE state'[e] = "inactive"
    <3>1. e \notin Range(queue)
      BY <1>0, <2>1 DEF LinkedActive
    <3>2. ~ \E i \in 1 .. k : queue[i] = e
      BY <1>1, <1>2, <3>1 DEF Range
    <3> QED
      BY <1>3, <2>1, <3>2
  <2> QED
    BY <1>0, <1>3, <2>1 DEF Calls
<1>12. Programmed'
  <2>1. k = Len(queue) => queue' = <<>>
    BY <1>2, <1>4
  <2> QED
    BY <1>3, <1>5, <2>1 DEF Programmed
<1> QED
  BY <1>7, <1>8, <1>9, <1>10, <1>11, <1>12
     DEF TimerInv, QueueExact, InOrder, LinkedActive, Calls, Programmed

\* The critical section of timer_event_start.
LEMMA AddInv == TimerInv /\ Add => TimerInv'
<1> SUFFICES ASSUME TimerInv, Add PROVE TimerInv'
  OBVIOUS
<1>0. TimerTypeOK /\ InOrder /\ LinkedActive /\ Calls /\ Programmed
  BY TimerInvSplit
<1>1. /\ pc = "add" /\ pc' = "compare" /\ queue' = timer_queue_add
      /\ state' = [state EXCEPT ![cur] = "active"]
      /\ UNCHANGED <<timelen, next, hw, isr, cur, cycles>>
  BY DEF Add
<1>2. cur \in Event /\ state[cur] = "inactive" /\ timelen[cur] # TIMEVAL_MAX
  BY <1>0, <1>1 DEF Calls
<1>3. PICK k \in 1 .. (Len(queue) + 1) :
        /\ timer_queue_add = InsertAt(queue, k, cur)
        /\ \A i \in 1 .. (k - 1) : timelen[queue[i]] <= timelen[cur]
        /\ \A i \in k .. Len(queue) : timelen[cur] <= timelen[queue[i]]
  BY <1>0, <1>2, QueueAddFacts
<1>4. queue \in Seq(Event) /\ DOMAIN queue = 1 .. Len(queue) /\ Len(queue) \in Nat
      /\ \A i \in DOMAIN queue : queue[i] \in Event /\ timelen[queue[i]] \in Int
  BY <1>0, TimelenInt
<1>5. queue' \in Seq(Event) /\ Len(queue') = Len(queue) + 1
      /\ \A i \in 1 .. (Len(queue) + 1) :
            queue'[i] = IF i < k THEN queue[i] ELSE IF i = k THEN cur ELSE queue[i - 1]
  <2>1. queue' = InsertAt(queue, k, cur)
    BY <1>1, <1>3
  <2>2. queue' \in Seq(Event) /\ Len(queue') = Len(queue) + 1
    BY <1>2, <1>3, <1>4, <2>1, InsertAtFacts
  <2>3. \A i \in 1 .. (Len(queue) + 1) :
          InsertAt(queue, k, cur)[i]
            = IF i < k THEN queue[i] ELSE IF i = k THEN cur ELSE queue[i - 1]
    <3>1. cur \in Event /\ queue \in Seq(Event)
      BY <1>2, <1>4
    <3>2. TAKE i \in 1 .. (Len(queue) + 1)
    <3> QED
      BY <3>1, InsertAtElement
  <2> QED
    BY <2>1, <2>2, <2>3
<1>6. DOMAIN queue' = 1 .. (Len(queue) + 1)
  BY <1>4, <1>5
<1>7. TimerTypeOK'
  BY <1>0, <1>1, <1>2, <1>5 DEF TimerTypeOK, PCs
<1>8. InOrder'
  <2> SUFFICES ASSUME NEW i \in 1 .. (Len(queue) + 1), NEW j \in 1 .. (Len(queue) + 1), i < j
               PROVE  timelen[queue'[i]] <= timelen[queue'[j]]
    BY <1>1, <1>6 DEF InOrder
  <2>1. CASE j < k
    <3>1. i \in DOMAIN queue /\ j \in DOMAIN queue /\ queue'[i] = queue[i] /\ queue'[j] = queue[j]
      BY <1>4, <1>5, <2>1
    <3> QED
      BY <1>0, <3>1 DEF InOrder
  <2>2. CASE j = k
    <3>1. i \in 1 .. (k - 1) /\ queue'[i] = queue[i] /\ queue'[j] = cur
      BY <1>4, <1>5, <2>2
    <3> QED
      BY <1>3, <3>1
  <2>3. CASE i = k
    <3>1. j - 1 \in k .. Len(queue) /\ queue'[i] = cur /\ queue'[j] = queue[j - 1]
      BY <1>4, <1>5, <2>3
    <3> QED
      BY <1>3, <3>1
  <2>4. CASE i < k /\ j > k
    <3>1. i \in 1 .. (k - 1) /\ j - 1 \in k .. Len(queue)
          /\ queue'[i] = queue[i] /\ queue'[j] = queue[j - 1]
          /\ i \in DOMAIN queue /\ j - 1 \in DOMAIN queue
      BY <1>4, <1>5, <2>4
    <3>2. timelen[queue[i]] <= timelen[cur] /\ timelen[cur] <= timelen[queue[j - 1]]
      BY <1>3, <3>1
    <3>3. timelen[cur] \in Int
      BY <1>0, <1>2, TimelenInt
    <3> QED
      BY SMTT(30), <1>4, <3>1, <3>2, <3>3
  <2>5. CASE i > k
    <3>1. i - 1 \in DOMAIN queue /\ j - 1 \in DOMAIN queue /\ i - 1 < j - 1
          /\ queue'[i] = queue[i - 1] /\ queue'[j] = queue[j - 1]
      BY <1>4, <1>5, <2>5
    <3> QED
      BY <1>0, <3>1 DEF InOrder
  <2>6. j < k \/ j = k \/ i = k \/ (i < k /\ j > k) \/ i > k
    BY <1>4
  <2> QED
    BY <2>1, <2>2, <2>3, <2>4, <2>5, <2>6
<1>9. cur \notin Range(queue)
  BY <1>0, <1>2 DEF LinkedActive
<1>10. IsInjective(queue')
  <2> DEFINE o(i) == IF i < k THEN i ELSE i - 1
  <2>1. \A i \in 1 .. (Len(queue) + 1) : i # k => o(i) \in DOMAIN queue /\ queue'[i] = queue[o(i)]
    BY <1>4, <1>5
  <2>2. \A i, j \in 1 .. (Len(queue) + 1) : i # k /\ j # k /\ o(i) = o(j) => i = j
    BY <1>4
  <2>3. queue'[k] = cur
    BY <1>4, <1>5
  <2>4. \A i \in 1 .. (Len(queue) + 1) : i # k => queue'[i] # cur
    BY <1>9, <2>1 DEF Range
  <2> HIDE DEF o
  <2> QED
    BY <1>0, <1>6, <2>1, <2>2, <2>3, <2>4 DEF LinkedActive, IsInjective
<1>11. Range(queue') = Range(queue) \cup {cur}
  <2>1. ASSUME NEW i \in DOMAIN queue' PROVE queue'[i] \in Range(queue) \cup {cur}
    <3>1. CASE i < k
      <4>1. i \in DOMAIN queue /\ queue'[i] = queue[i]
        BY <1>4, <1>5, <1>6, <3>1
      <4> QED
        BY <4>1 DEF Range
    <3>2. CASE i = k
      BY <1>4, <1>5, <1>6, <3>2
    <3>3. CASE i > k
      <4>1. i - 1 \in DOMAIN queue /\ queue'[i] = queue[i - 1]
        BY <1>4, <1>5, <1>6, <3>3
      <4> QED
        BY <4>1 DEF Range
    <3> QED
      BY <1>4, <1>6, <3>1, <3>2, <3>3
  <2>2. cur \in Range(queue')
    <3>1. k \in DOMAIN queue' /\ queue'[k] = cur
      BY <1>4, <1>5, <1>6
    <3> QED
      BY <3>1 DEF Range
  <2>3. ASSUME NEW i \in DOMAIN queue PROVE queue[i] \in Range(queue')
    <3>1. CASE i < k
      <4>1. i \in DOMAIN queue' /\ queue'[i] = queue[i]
        BY <1>4, <1>5, <1>6, <3>1
      <4> QED
        BY <4>1 DEF Range
    <3>2. CASE ~(i < k)
      <4>1. i + 1 \in DOMAIN queue' /\ (i + 1) - 1 = i /\ queue'[i + 1] = queue[(i + 1) - 1]
        BY <1>4, <1>5, <1>6, <3>2
      <4> QED
        BY <4>1 DEF Range
    <3> QED
      BY <3>1, <3>2
  <2> QED
    BY <2>1, <2>2, <2>3 DEF Range
<1>12. LinkedActive'
  <2>1. \A e \in Event : e \in Range(queue') <=> state'[e] = "active"
    BY <1>0, <1>1, <1>2, <1>11 DEF LinkedActive, TimerTypeOK
  <2> QED
    BY <1>10, <2>1 DEF LinkedActive
<1>13. Calls' /\ Programmed'
  BY <1>0, <1>1, <1>2 DEF Calls, Programmed
<1> QED
  BY <1>7, <1>8, <1>12, <1>13
     DEF TimerInv, QueueExact, InOrder, LinkedActive, Calls, Programmed

\* A stopped event is unlinked once, or the call aborts.
LEMMA UnlinkInv == TimerInv /\ StopUnlink => TimerInv'
<1> SUFFICES ASSUME TimerInv, StopUnlink PROVE TimerInv'
  OBVIOUS
<1>0. TimerTypeOK /\ InOrder /\ LinkedActive /\ Calls /\ Programmed
  BY TimerInvSplit
<1>1. pc = "unlink" /\ cur \in Event /\ UNCHANGED <<timelen, next, hw, isr, cycles>>
  BY <1>0 DEF StopUnlink, Calls
<1>2. CASE cur \notin Range(queue)
  <2>1. pc' = "aborted" /\ UNCHANGED <<queue, state, cur>>
    BY <1>2 DEF StopUnlink
  <2>2. TimerTypeOK' /\ InOrder' /\ LinkedActive' /\ Calls' /\ Programmed'
    BY <1>0, <1>1, <2>1 DEF TimerTypeOK, PCs, InOrder, LinkedActive, Calls, Programmed
  <2> QED
    BY <2>2 DEF TimerInv, QueueExact, InOrder, LinkedActive, Calls, Programmed
<1>3. CASE cur \in Range(queue)
  <2>1. queue' = RemoveFirst(queue, cur) /\ state' = [state EXCEPT ![cur] = "inactive"]
        /\ pc' = "idle" /\ cur' = NoEvent
    BY <1>3 DEF StopUnlink, Return
  <2>2. queue \in Seq(Event) /\ IsInjective(queue)
    BY <1>0 DEF TimerTypeOK, LinkedActive
  <2>3. queue' \in Seq(Event) /\ IsInjective(queue') /\ Range(queue') = Range(queue) \ {cur}
    BY <2>1, <2>2, RemoveFirstFacts
  <2>4. \A i, j \in DOMAIN queue' : i < j =>
           \E x, y \in DOMAIN queue : x < y /\ queue'[i] = queue[x] /\ queue'[j] = queue[y]
    BY <2>1, <2>2, RemoveFirstFacts
  <2>5. InOrder'
    BY <1>0, <1>1, <2>4 DEF InOrder
  <2>6. LinkedActive'
    <3>1. \A e \in Event : e \in Range(queue') <=> state'[e] = "active"
      BY <1>0, <1>1, <2>1, <2>3 DEF LinkedActive, TimerTypeOK
    <3> QED
      BY <2>3, <3>1 DEF LinkedActive
  <2>7. TimerTypeOK'
    BY <1>0, <1>1, <2>1, <2>3 DEF TimerTypeOK, PCs
  <2>8. Calls' /\ Programmed'
    <3>1. queue # <<>>
      BY <1>3, EmptyFacts
    <3> QED
      BY <1>0, <1>1, <2>1, <3>1 DEF Calls, Programmed
  <2> QED
    BY <2>5, <2>6, <2>7, <2>8
       DEF TimerInv, QueueExact, InOrder, LinkedActive, Calls, Programmed
<1> QED
  BY <1>2, <1>3

\* timer_event_start sets the expiry of an event that is not linked.
LEMMA ExpireInv == TimerInv /\ timer_event_set_expire => TimerInv'
<1> SUFFICES ASSUME TimerInv, timer_event_set_expire PROVE TimerInv'
  OBVIOUS
<1>0. TimerTypeOK /\ InOrder /\ LinkedActive /\ Calls /\ Programmed
  BY TimerInvSplit
<1>1. PICK d \in Durations : timelen' = [timelen EXCEPT ![cur] = d]
  BY DEF timer_event_set_expire
<1>2. pc = "expire" /\ pc' = "add" /\ UNCHANGED <<queue, state, next, hw, isr, cur, cycles>>
  BY DEF timer_event_set_expire
<1>3. cur \in Event /\ state[cur] = "inactive"
  BY <1>0, <1>2 DEF Calls
<1>4. d \in Times /\ d # TIMEVAL_MAX
  BY LongestFacts, TimesFacts, TimerAssumption DEF Times, TIMEVAL_MAX
<1>5. TimerTypeOK'
  BY <1>0, <1>1, <1>2, <1>3, <1>4 DEF TimerTypeOK, PCs
<1>6. \A i \in DOMAIN queue : queue[i] # cur /\ timelen'[queue[i]] = timelen[queue[i]]
  <2>1. cur \notin Range(queue)
    BY <1>0, <1>3 DEF LinkedActive
  <2>2. \A i \in DOMAIN queue : queue[i] \in Event
    BY <1>0, TimelenInt
  <2> QED
    BY <1>0, <1>1, <2>1, <2>2 DEF Range, TimerTypeOK
<1>7. InOrder' /\ LinkedActive'
  BY <1>0, <1>2, <1>6 DEF InOrder, LinkedActive
<1>8. timelen'[cur] = d
  BY <1>0, <1>1, <1>3 DEF TimerTypeOK
<1>9. Calls' /\ Programmed'
  BY <1>0, <1>2, <1>3, <1>4, <1>8 DEF Calls, Programmed
<1> QED
  BY <1>5, <1>7, <1>9 DEF TimerInv, QueueExact, InOrder, LinkedActive, Calls, Programmed

\* The end of timer_event_start: next_timelen and the timer.
LEMMA StartTailInv == TimerInv /\ (Compare \/ Program \/ Trigger) => TimerInv'
<1> SUFFICES ASSUME TimerInv, Compare \/ Program \/ Trigger PROVE TimerInv'
  OBVIOUS
<1>0. TimerTypeOK /\ InOrder /\ LinkedActive /\ Calls /\ Programmed
  BY TimerInvSplit
<1>1. InOrder' /\ LinkedActive'
  BY <1>0 DEF Compare, Program, Trigger, InOrder, LinkedActive
<1>2. CASE Compare
  <2>1. pc = "compare" /\ cur \in Event /\ timelen[cur] # TIMEVAL_MAX
    BY <1>0, <1>2 DEF Compare, Calls
  <2>2. TimerTypeOK'
    BY <1>0, <1>2 DEF Compare, Return, TimerTypeOK, PCs
  <2>3. CASE next > timelen[cur]
    <3>1. pc' = "program" /\ UNCHANGED <<queue, timelen, state, next, hw, isr, cycles, cur>>
      BY <1>2, <2>3 DEF Compare
    <3> QED
      BY <1>0, <1>1, <2>1, <2>2, <3>1
         DEF TimerInv, QueueExact, InOrder, LinkedActive, Calls, Programmed
  <2>4. CASE ~(next > timelen[cur])
    <3>1. pc' = "idle" /\ UNCHANGED <<queue, timelen, state, next, hw, isr, cycles>>
      BY <1>2, <2>4 DEF Compare, Return
    <3>2. next # TIMEVAL_MAX
      <4>1. timelen[cur] \in Times \cup {TIMEVAL_MAX}
        BY <1>0, <2>1 DEF TimerTypeOK
      <4>2. timelen[cur] \in Int /\ timelen[cur] < TIMEVAL_MAX
        BY <2>1, <4>1, TimesFacts DEF Times
      <4> QED
        BY <2>4, <4>2, TimesFacts
    <3> QED
      BY <1>0, <1>1, <2>1, <2>2, <3>1, <3>2
         DEF TimerInv, QueueExact, InOrder, LinkedActive, Calls, Programmed
  <2> QED
    BY <2>3, <2>4
<1>3. CASE Program
  <2>1. pc = "program" /\ cur \in Event /\ timelen[cur] # TIMEVAL_MAX
        /\ timelen[cur] \in Times \cup {TIMEVAL_MAX}
    BY <1>0, <1>3 DEF Program, Calls, TimerTypeOK
  <2>2. ClockCycles(timelen[cur]) \in 0 .. TIMEVAL_MAX /\ ClockCycles(timelen[cur]) > 0
    BY <2>1, CyclesFacts
  <2>3. TimerTypeOK'
    BY <1>0, <1>3, <2>1, <2>2 DEF Program, TimerTypeOK, PCs
  <2>4. Calls' /\ Programmed'
    BY <1>0, <1>3, <2>1, <2>2 DEF Program, Calls, Programmed
  <2> QED
    BY <1>1, <2>3, <2>4 DEF TimerInv, QueueExact, InOrder, LinkedActive, Calls, Programmed
<1>4. CASE Trigger
  <2>1. pc = "trigger" /\ cycles \in 0 .. TIMEVAL_MAX /\ cycles > 0
    BY <1>0, <1>4 DEF Trigger, Calls, TimerTypeOK
  <2>2. trigger_tick(cycles) \in 1 .. CountMax /\ trigger_tick(cycles) # Off
    BY <2>1, TimesFacts, TimerAssumption DEF trigger_tick, Off
  <2>3. 0 \in 0 .. TIMEVAL_MAX
    BY TimesFacts
  <2>4. TimerTypeOK'
    BY <1>0, <1>4, <2>2, <2>3 DEF Trigger, Return, TimerTypeOK, PCs
  <2>5. Calls' /\ Programmed'
    BY <1>0, <1>4, <2>2 DEF Trigger, Return, Calls, Programmed
  <2> QED
    BY <1>1, <2>4, <2>5 DEF TimerInv, QueueExact, InOrder, LinkedActive, Calls, Programmed
<1> QED
  BY <1>2, <1>3, <1>4

\* timer_event_stop up to the unlinking.
LEMMA StopInv == TimerInv /\ (StopFirst \/ StopProgram) => TimerInv'
<1> SUFFICES ASSUME TimerInv, StopFirst \/ StopProgram PROVE TimerInv'
  OBVIOUS
<1>0. TimerTypeOK /\ InOrder /\ LinkedActive /\ Calls /\ Programmed
  BY TimerInvSplit
<1>1. InOrder' /\ LinkedActive'
  BY <1>0 DEF StopFirst, StopProgram, InOrder, LinkedActive
<1>2. CASE StopFirst
  <2>1. pc = "stop" /\ pc' \in {"unlocked", "unlink"}
        /\ UNCHANGED <<queue, timelen, state, next, hw, isr, cur, cycles>>
    BY <1>2 DEF StopFirst
  <2>2. TimerTypeOK' /\ Calls' /\ Programmed'
    BY <1>0, <2>1 DEF TimerTypeOK, PCs, Calls, Programmed
  <2> QED
    BY <1>1, <2>2 DEF TimerInv, QueueExact, InOrder, LinkedActive, Calls, Programmed
<1>3. CASE StopProgram
  <2> DEFINE after == IF Len(queue) > 1 THEN timelen[queue[2]] ELSE TIMEVAL_MAX
  <2>1. pc = "unlocked" /\ pc' \in {"unlink", "aborted"}
        /\ UNCHANGED <<queue, timelen, state, isr, cur, cycles>>
        /\ \/ next' = after /\ hw' = trigger_tick(ClockCycles(after))
           \/ UNCHANGED <<next, hw>>
    BY <1>3 DEF StopProgram
  <2>2. after \in Times \cup {TIMEVAL_MAX}
    <3>1. Len(queue) > 1 => 2 \in DOMAIN queue
      BY <1>0, TimelenInt
    <3> QED
      BY <1>0, <3>1, TimelenInt
  <2> HIDE DEF after
  <2>3. trigger_tick(ClockCycles(after)) \in 1 .. CountMax
        /\ trigger_tick(ClockCycles(after)) # Off
    <3>1. ClockCycles(after) \in 1 .. TIMEVAL_MAX
      BY <2>2, CyclesFacts
    <3> QED
      BY <3>1, CyclesFacts
  <2>4. TimerTypeOK'
    BY <1>0, <2>1, <2>2, <2>3 DEF TimerTypeOK, PCs
  <2>5. Calls' /\ Programmed'
    BY <1>0, <2>1, <2>3 DEF Calls, Programmed
  <2> QED
    BY <1>1, <2>4, <2>5 DEF TimerInv, QueueExact, InOrder, LinkedActive, Calls, Programmed
<1> QED
  BY <1>2, <1>3

\* The calls of tasks.
LEMMA CallInv == TimerInv /\ (\E e \in Event : Call(e)) => TimerInv'
<1> SUFFICES ASSUME TimerInv, NEW e \in Event, Call(e) PROVE TimerInv'
  OBVIOUS
<1>0. TimerTypeOK /\ InOrder /\ LinkedActive /\ Calls /\ Programmed
  BY TimerInvSplit
<1>1. CASE timer_event_create(e)
  <2>1. pc = "idle" /\ state[e] = "free" /\ state' = [state EXCEPT ![e] = "inactive"]
        /\ timelen' = [timelen EXCEPT ![e] = TIMEVAL_MAX]
        /\ UNCHANGED <<queue, next, hw, isr, pc, cur, cycles>>
    BY <1>1 DEF timer_event_create
  <2>2. \A i \in DOMAIN queue : timelen'[queue[i]] = timelen[queue[i]]
    <3>1. e \notin Range(queue)
      BY <1>0, <2>1 DEF LinkedActive
    <3>2. \A i \in DOMAIN queue : queue[i] \in Event
      BY <1>0, TimelenInt
    <3> QED
      BY <1>0, <2>1, <3>1, <3>2 DEF Range, TimerTypeOK
  <2>3. TimerTypeOK'
    BY <1>0, <2>1 DEF TimerTypeOK
  <2>4. InOrder'
    BY <1>0, <2>1, <2>2 DEF InOrder
  <2>5. LinkedActive'
    BY <1>0, <2>1 DEF LinkedActive, TimerTypeOK
  <2>6. Calls' /\ Programmed'
    BY <1>0, <2>1 DEF Calls, Programmed
  <2> QED
    BY <2>3, <2>4, <2>5, <2>6 DEF TimerInv, QueueExact, InOrder, LinkedActive, Calls, Programmed
<1>2. CASE timer_event_start(e) \/ timer_event_stop(e)
  <2>1. /\ pc = "idle" /\ cur' = e /\ pc' \in {"expire", "stop"}
        /\ pc' = "expire" => state[e] = "inactive"
        /\ UNCHANGED <<queue, timelen, state, next, hw, isr, cycles>>
    BY <1>2 DEF timer_event_start, timer_event_stop
  <2>2. TimerTypeOK' /\ InOrder' /\ LinkedActive'
    BY <1>0, <2>1 DEF TimerTypeOK, PCs, InOrder, LinkedActive
  <2>3. Calls' /\ Programmed'
    BY <1>0, <2>1 DEF Calls, Programmed
  <2> QED
    BY <2>2, <2>3 DEF TimerInv, QueueExact, InOrder, LinkedActive, Calls, Programmed
<1>3. CASE timer_event_destroy(e)
  <2>1. pc = "idle" /\ state[e] = "inactive" /\ state' = [state EXCEPT ![e] = "free"]
        /\ UNCHANGED <<queue, timelen, next, hw, isr, pc, cur, cycles>>
    BY <1>3 DEF timer_event_destroy
  <2>2. TimerTypeOK' /\ InOrder' /\ LinkedActive'
    BY <1>0, <2>1 DEF TimerTypeOK, InOrder, LinkedActive
  <2>3. Calls' /\ Programmed'
    BY <1>0, <2>1 DEF Calls, Programmed
  <2> QED
    BY <2>2, <2>3 DEF TimerInv, QueueExact, InOrder, LinkedActive, Calls, Programmed
<1> QED
  BY <1>1, <1>2, <1>3 DEF Call

LEMMA TimerStepInv == TimerInv /\ [TimerNext]_timervars => TimerInv'
<1> SUFFICES ASSUME TimerInv, [TimerNext]_timervars PROVE TimerInv'
  OBVIOUS
<1>1. CASE UNCHANGED timervars
  BY <1>1 DEF timervars, TimerInv, QueueExact, TimerTypeOK
<1>2. CASE TimerNext
  BY <1>2, TickInv, InterruptInv, AddInv, UnlinkInv, ExpireInv, StartTailInv, StopInv, CallInv
     DEF TimerNext, ApiStep
<1> QED
  BY <1>1, <1>2

\* The tick clock's queue is in order of expiry and links exactly the active
\* events, once each; and while events wait and no call is under way the tick
\* timer runs or its interrupt is pending: no event is left behind without a
\* tick.  For any number of events and any durations, wherever the tick FIQ falls
\* between the critical sections of sw_timer.c.
THEOREM TimerQueueSafe == TimerSpec => []TimerSafe
<1>1. TimerInv => TimerSafe
  BY DEF TimerInv, TimerSafe, Armed
<1> QED
  BY <1>1, TimerInitInv, TimerStepInv, PTL DEF TimerSpec

----------------------------------------------------------------------------
(* The arithmetic of times.                                                 *)

Time == [sec : Int, nsec : Int]

\* What lies within a second.
LEMMA InRange ==
    ASSUME NEW m \in Int
    PROVE  \A x : x \in 0 .. m <=> x \in Int /\ 0 <= x /\ x <= m
OBVIOUS

LEMMA WithinSecond ==
    /\ \A x : x \in Within <=> x \in Int /\ 0 <= x /\ x < 1000000000
    /\ Within \subseteq Int
<1>1. NANO_SECONDS_PER_SECOND \in Int /\ NANO_SECONDS_PER_SECOND = 1000000000
  BY SMT DEF NANO_SECONDS_PER_SECOND
<1> DEFINE m == NANO_SECONDS_PER_SECOND - 1
<1>2. m \in Int
  BY <1>1
<1>3. Within = 0 .. m
  BY DEF Within
<1> HIDE DEF m
<1>4. \A x : x \in Within <=> x \in Int /\ 0 <= x /\ x <= m
  BY <1>2, <1>3, InRange
<1>5. \A x \in Int : x <= m <=> x < 1000000000
  BY SMT, <1>1 DEF m
<1>6. \A x : x \in Within <=> x \in Int /\ 0 <= x /\ x < 1000000000
  BY SMT, <1>4, <1>5
<1> QED BY SMT, <1>4, <1>6

LEMMA Shifted ==
    ASSUME NEW x \in Int, NEW k \in Int
    PROVE  (x + 1000 * k) \div 1000 = (x \div 1000) + k /\ (x + 1000 * k) % 1000 = x % 1000
BY SMT

\* Shifting loses something, and so never takes out more than was there.
LEMMA ShiftedDown ==
    ASSUME NEW x \in Nat
    PROVE  By1000(x) \in Nat /\ 1000 * By1000(x) <= x
<1> DEFINE y == x \div 1024
           p == (3 * y) \div 128
           q == (9 * y) \div 16384
<1>1. y \in Nat /\ 1024 * y <= x
  BY SMT
<1> HIDE DEF y
<1>2. p \in Nat /\ 128 * p <= 3 * y
  BY SMT, <1>1
<1>3. q \in Nat /\ 16384 * q <= 9 * y
  BY SMT, <1>1
<1> HIDE DEF p, q
<1>4. By1000(x) = y + p + q
  BY SMT DEF By1000, y, p, q
<1> QED BY SMT, <1>1, <1>2, <1>3, <1>4

LEMMA TimesExact == ASSUME NEW x \in Int PROVE Times1000(x) = 1000 * x /\ Times1000(x) \in Int
BY SMT DEF Times1000

\* The time v is c microseconds long.
Lasts(v, c) == v \in Time /\ v.nsec = 1000 * (c - 1000000 * v.sec)

LEMMA ElapsedIsNat == ASSUME NEW n \in Nat PROVE Elapsed(n) \in Nat
BY SMT DEF Elapsed, get_clock_period_us

LEMMA ConversionExact ==
    ASSUME NEW n \in Nat
    PROVE  Lasts(clockcycles_to_timeval(n), Elapsed(n)) /\ clockcycles_to_timeval(n).nsec >= 0
<1> DEFINE c == Elapsed(n)
           m == By1000(c)
           s == By1000(m)
<1>0. c \in Nat
  BY ElapsedIsNat
<1>3. clockcycles_to_timeval(n) = T(s, Times1000(c - Times1000(Times1000(s))))
  BY SMT DEF clockcycles_to_timeval
<1> HIDE DEF c
<1>1. m \in Nat /\ 1000 * m <= c
  BY SMT, <1>0, ShiftedDown
<1> HIDE DEF m
<1>2. s \in Nat /\ 1000 * s <= m
  BY SMT, <1>1, ShiftedDown
<1> HIDE DEF s
<1>4. Times1000(s) = 1000 * s /\ Times1000(1000 * s) = 1000000 * s /\ c - 1000000 * s \in Int
  BY SMT, <1>0, <1>2, TimesExact
<1>5. Times1000(c - Times1000(Times1000(s))) = 1000 * (c - 1000000 * s)
  BY SMT, <1>4, TimesExact
<1>6. 1000 * (c - 1000000 * s) >= 0
  BY SMT, <1>0, <1>1, <1>2
<1>7. Lasts(clockcycles_to_timeval(n), c)
  BY SMT, <1>2, <1>3, <1>4, <1>5 DEF T, Time, Lasts
<1> QED BY SMT, <1>2, <1>3, <1>5, <1>6, <1>7 DEF T, c

LEMMA UsleepExact ==
    ASSUME NEW c \in Nat
    PROVE  Lasts(UsleepTime(c), c)
<1> DEFINE s == (c \div 524288) - (c \div 1048576)
<1>1. s \in Int
  BY SMT
<1>2. UsleepTime(c) = T(s, Times1000(c - Times1000(Times1000(s))))
  BY SMT DEF UsleepTime
<1> HIDE DEF s
<1>3. Times1000(s) = 1000 * s /\ Times1000(1000 * s) = 1000000 * s /\ c - 1000000 * s \in Int
  BY SMT, <1>1, TimesExact
<1>4. Times1000(c - Times1000(Times1000(s))) = 1000 * (c - 1000000 * s)
  BY SMT, <1>3, TimesExact
<1> QED BY SMT, <1>1, <1>2, <1>3, <1>4 DEF T, Time, Lasts

\* A sum is exact although one second at most is carried, as long as what is
\* added does not count backwards.
LEMMA SumExact ==
    ASSUME NEW u \in Time, NEW v \in Time, NEW c \in Int, Lasts(v, c), v.nsec >= 0
    PROVE  LET w == add_time(u, v)
           IN  /\ w \in Time /\ w.nsec % 1000 = u.nsec % 1000
               /\ Microseconds(w) = Microseconds(u) + c
               /\ u.nsec \in Within /\ v.nsec \in Within => w.nsec \in Within
<1> DEFINE w == add_time(u, v)
           k == c - 1000000 * v.sec
           n == u.nsec + 1000 * k
<1>0. /\ u.sec \in Int /\ u.nsec \in Int /\ v.sec \in Int /\ v.nsec \in Int /\ k \in Int
      /\ v.nsec = 1000 * k /\ n \in Int
  BY SMT DEF Time, Lasts
<1>1. Plus(u, v) = T(u.sec + v.sec, n)
  BY SMT, <1>0 DEF Plus
<1>2. T(u.sec + v.sec, n).sec = u.sec + v.sec /\ T(u.sec + v.sec, n).nsec = n
  BY SMT DEF T
<1> HIDE DEF n
<1>3. w = IF n > 999999999 THEN T(u.sec + v.sec + 1, n - 1000000000) ELSE T(u.sec + v.sec, n)
  BY SMT, <1>0, <1>1, <1>2 DEF add_time, NANO_SECONDS_PER_SECOND
<1> HIDE DEF w
<1>4. n \div 1000 = (u.nsec \div 1000) + k /\ n % 1000 = u.nsec % 1000
  BY SMT, <1>0, Shifted DEF n
<1>5. CASE n > 999999999
  <2>1. w.sec = u.sec + v.sec + 1 /\ w.nsec = n + 1000 * (0 - 1000000) /\ w \in Time
    BY SMT, <1>0, <1>3, <1>5 DEF T, Time
  <2>2. w.nsec \div 1000 = (n \div 1000) - 1000000 /\ w.nsec % 1000 = n % 1000
    BY SMT, <1>0, <2>1, Shifted
  <2>3. Microseconds(w) = Microseconds(u) + c
    BY SMT, <1>0, <1>4, <2>1, <2>2 DEF Microseconds
  <2>4. u.nsec \in Within /\ v.nsec \in Within => w.nsec \in Within
    <3>1. ASSUME u.nsec \in Within, v.nsec \in Within PROVE n < 2000000000
      BY SMT, <1>0, <3>1, WithinSecond DEF n
    <3>2. n < 2000000000 => 0 <= w.nsec /\ w.nsec < 1000000000 /\ w.nsec \in Int
      BY SMT, <1>0, <1>5, <2>1
    <3> QED BY SMT, <3>1, <3>2, WithinSecond
  <2> QED BY SMT, <1>4, <2>1, <2>2, <2>3, <2>4 DEF w
<1>6. CASE ~ n > 999999999
  <2>1. w.sec = u.sec + v.sec /\ w.nsec = n /\ w \in Time
    BY SMT, <1>0, <1>3, <1>6 DEF T, Time
  <2>3. Microseconds(w) = Microseconds(u) + c
    BY SMT, <1>0, <1>4, <2>1 DEF Microseconds
  <2>4. u.nsec \in Within /\ v.nsec \in Within => w.nsec \in Within
    <3>1. ASSUME u.nsec \in Within, v.nsec \in Within PROVE n >= 0
      BY SMT, <1>0, <3>1, WithinSecond DEF n
    <3>2. n >= 0 => 0 <= w.nsec /\ w.nsec < 1000000000 /\ w.nsec \in Int
      BY SMT, <1>0, <1>6, <2>1
    <3> QED BY SMT, <3>1, <3>2, WithinSecond
  <2> QED BY SMT, <1>4, <2>1, <2>3, <2>4 DEF w
<1> QED BY SMT, <1>5, <1>6

SecondMicros == 1000000

\* A time within a second is so many microseconds and the rest of one.
LEMMA Microsecond ==
    ASSUME NEW x \in Within, NEW y, NEW z, y = x \div 1000, z = x % 1000
    PROVE  /\ y \in Int /\ 0 <= y /\ y < SecondMicros
           /\ z \in Int /\ 0 <= z /\ z < 1000 /\ x = 1000 * y + z
<1>1. x \in Int /\ 0 <= x /\ x < 1000000000
  BY SMT, WithinSecond
<1>2. z \in Int /\ 0 <= z /\ z < 1000 /\ x = 1000 * y + z /\ y \in Int
  BY SMT, <1>1
<1>3. 0 <= y /\ y < 1000000
  BY SMT, <1>1, <1>2
<1> QED BY SMT, <1>2, <1>3 DEF SecondMicros

Later(w) == w.sec > 0 \/ (w.sec = 0 /\ w.nsec > 1000)

\* The difference of two times that are apart by d microseconds, with its
\* borrow, is more than a microsecond exactly if d says so.
LEMMA DifferenceExact ==
    ASSUME NEW u \in Time, NEW v \in Time, NEW d \in Int,
           u.nsec \in Within, v.nsec \in Within, v.nsec % 1000 = u.nsec % 1000,
           Microseconds(v) - Microseconds(u) = d
    PROVE  Later(subtract_time(u, v)) <=> d + 1 < 0
<1> DEFINE i == v.nsec \div 1000
           j == u.nsec \div 1000
           r == v.nsec % 1000
           cs == v.sec
           es == u.sec
           m == Minus(u, v)
           w == subtract_time(u, v)
<1>1. /\ i \in Int /\ 0 <= i /\ i < SecondMicros /\ r \in Int /\ 0 <= r /\ r < 1000
      /\ v.nsec = 1000 * i + r
  BY Microsecond
<1>2. j \in Int /\ 0 <= j /\ j < SecondMicros /\ u.nsec = 1000 * j + r
  BY Microsecond
<1>3. v.sec = cs /\ u.sec = es /\ cs \in Int /\ es \in Int
  BY DEF Time
<1>4. (SecondMicros * cs + i) - (SecondMicros * es + j) = d
  BY SMT DEF Microseconds, SecondMicros
<1> HIDE DEF i, j, r, cs, es
<1>5. SecondMicros * (cs - es) + (i - j) = d
  BY SMT, <1>1, <1>2, <1>3, <1>4 DEF SecondMicros
<1>6. /\ m.sec = IF j < i THEN es - cs - 1 ELSE es - cs
      /\ m.nsec = 1000 * (j - i)
  BY SMT, <1>1, <1>2, <1>3 DEF Minus, T
<1>7. w = IF m.nsec < 0 THEN T(m.sec, m.nsec + 1000000000) ELSE m
  BY SMT DEF subtract_time, NANO_SECONDS_PER_SECOND
<1> HIDE DEF m, w
<1>8. CASE j < i
  <2>1. w.sec = es - cs - 1 /\ w.nsec = 1000 * (j - i) + 1000000000
    BY SMT, <1>1, <1>2, <1>3, <1>6, <1>7, <1>8 DEF T
  <2>2. Later(w) <=> d + 1 < 0
    BY SMT, <1>1, <1>2, <1>3, <1>5, <1>8, <2>1 DEF SecondMicros, Later
  <2> QED BY <2>2 DEF w
<1>9. CASE ~ j < i
  <2>1. w.sec = es - cs /\ w.nsec = 1000 * (j - i)
    BY SMT, <1>1, <1>2, <1>3, <1>6, <1>7, <1>9 DEF T
  <2>2. Later(w) <=> d + 1 < 0
    BY SMT, <1>1, <1>2, <1>3, <1>5, <1>9, <2>1 DEF SecondMicros, Later
  <2> QED BY <2>2 DEF w
<1> QED BY <1>8, <1>9

\* The clock and the event are apart by whole microseconds: the event is due
\* when at most one is left.
LEMMA DueExact ==
    ASSUME NEW d \in Int, clock \in Time, expiry \in Time,
           clock.nsec \in Within, expiry.nsec \in Within,
           clock.nsec % 1000 = expiry.nsec % 1000,
           Microseconds(clock) - Microseconds(expiry) = d
    PROVE  Due <=> d + 1 >= 0
<1>1. Due <=> ~ Later(subtract_time(expiry, clock))
  BY DEF Due, Later
<1>2. Later(subtract_time(expiry, clock)) <=> d + 1 < 0
  BY DifferenceExact
<1>3. ~ d + 1 < 0 <=> d + 1 >= 0
  OBVIOUS
<1> QED BY <1>1, <1>2, <1>3

LEMMA TimesAreNat == Usecs \subseteq Nat /\ Steps \subseteq Nat
BY SMT, TimeMathAssumption

LEMMA SleepInitially == ASSUME TimeMathInit PROVE SleepInv
<1>1. clock \in [sec : Nat, nsec : Within]
  BY SMT, TimeMathAssumption DEF TimeMathInit, Within
<1>2. clock.sec \in Int /\ clock.nsec \in Within /\ clock \in Time
  <2>1. Within \subseteq Int
    BY SMT, WithinSecond
  <2>2. clock.sec \in Nat /\ clock.nsec \in Within /\ clock = [sec |-> clock.sec, nsec |-> clock.nsec]
    BY <1>1
  <2> QED BY <2>1, <2>2 DEF Time
<1> QED BY SMT, <1>2, TimeMathAssumption DEF TimeMathInit, SleepInv, Time, Asleep, CountedExactly

LEMMA SleepStarts ==
    ASSUME SleepInv, NEW usecs \in Usecs, task_usleep(usecs)
    PROVE  SleepInv'
<1> DEFINE v == UsleepTime(usecs)
<1>1. usecs \in Nat /\ usecs # NotAsleep
  BY SMT, TimeMathAssumption DEF NotAsleep
<1>2. /\ asked = NotAsleep /\ expiry' = add_time(clock, v) /\ asked' = usecs
      /\ clock' = clock /\ slept' = slept
  BY SMT DEF task_usleep
<1>3. clock \in Time /\ clock.nsec \in Within /\ slept = 0
  BY SMT, <1>2 DEF SleepInv, Time
<1>4. Lasts(v, usecs) /\ v \in Time
  BY SMT, <1>1, UsleepExact DEF Lasts
<1> HIDE DEF v
<1>5. add_time(clock, v) \in Time
  <2>1. Plus(clock, v) \in Time
    BY SMT, <1>3, <1>4 DEF Plus, T, Time
  <2> QED BY SMT, <2>1 DEF add_time, T, Time, NANO_SECONDS_PER_SECOND
<1>6. Asleep' <=> v.nsec \in Within
  BY SMT, <1>1, <1>2 DEF Asleep, Within, v
<1>7. ASSUME v.nsec \in Within
      PROVE  /\ expiry'.nsec \in Within /\ clock'.nsec % 1000 = expiry'.nsec % 1000
             /\ Microseconds(clock') - Microseconds(expiry') = slept' - asked'
  <2>1. v.nsec >= 0
    BY SMT, <1>7 DEF Within
  <2>2. Microseconds(clock) \in Int
    BY SMT, <1>3 DEF Microseconds, Time
  <2>3. /\ expiry'.nsec % 1000 = clock.nsec % 1000 /\ expiry'.nsec \in Within
        /\ Microseconds(expiry') = Microseconds(clock) + usecs
    BY SMT, <1>1, <1>2, <1>3, <1>4, <1>7, <2>1, SumExact
  <2> QED BY SMT, <1>1, <1>2, <1>3, <2>2, <2>3
<1>8. CountedExactly'
  BY SMT, <1>6, <1>7 DEF CountedExactly, Microseconds
<1>9. asked' # NotAsleep /\ asked' \in Usecs /\ slept' \in Nat
  BY SMT, <1>1, <1>2, <1>3
<1> QED BY SMT, <1>2, <1>3, <1>5, <1>6, <1>7, <1>8, <1>9 DEF SleepInv, Time

LEMMA SleepGoesOn ==
    ASSUME SleepInv, NEW n \in Steps, ReadClock(n)
    PROVE  /\ SleepInv'
           /\ clock.nsec \in Within /\ clockcycles_to_timeval(n).nsec \in Within
                 => clock'.nsec \in Within
<1> DEFINE v == clockcycles_to_timeval(n)
           c == Elapsed(n)
<1>1. c \in Nat
  BY TimesAreNat, ElapsedIsNat
<1>2. /\ asked # NotAsleep /\ clock' = add_time(clock, v) /\ slept' = slept + c
      /\ asked' = asked /\ expiry' = expiry
  BY SMT DEF ReadClock
<1>3. clock \in Time /\ expiry \in Time /\ slept \in Nat /\ asked \in Usecs /\ asked \in Nat
  BY SMT, <1>2, TimeMathAssumption DEF SleepInv, Time
<1>4. Lasts(v, c) /\ v \in Time /\ v.nsec >= 0
  BY SMT, TimesAreNat, ConversionExact DEF Lasts
<1> HIDE DEF v, c
<1>5. /\ clock' \in Time /\ clock'.nsec % 1000 = clock.nsec % 1000
      /\ Microseconds(clock') = Microseconds(clock) + c
      /\ clock.nsec \in Within /\ v.nsec \in Within => clock'.nsec \in Within
  BY SMT, <1>1, <1>2, <1>3, <1>4, SumExact
<1>6. Asleep' <=> Asleep
  BY SMT, <1>2 DEF Asleep
<1>7. Microseconds(clock) \in Int /\ Microseconds(expiry) \in Int
  BY SMT, <1>3 DEF Microseconds, Time
<1>8. Asleep => Microseconds(clock') - Microseconds(expiry') = slept' - asked'
  BY SMT, <1>1, <1>2, <1>3, <1>5, <1>7 DEF SleepInv, CountedExactly
<1>9. CountedExactly'
  BY SMT, <1>6, <1>8 DEF CountedExactly, Microseconds
<1>10. Asleep' => clock'.nsec % 1000 = expiry'.nsec % 1000 /\ expiry'.nsec \in Within
  BY SMT, <1>2, <1>5, <1>6 DEF SleepInv
<1>11. slept' \in Nat
  BY SMT, <1>1, <1>2, <1>3
<1>12. SleepInv'
  BY SMT, <1>2, <1>3, <1>5, <1>9, <1>10, <1>11 DEF SleepInv, Time
<1> QED BY SMT, <1>5, <1>12 DEF v

LEMMA SleepStep ==
    ASSUME SleepInv, [TimeMathNext]_timevars
    PROVE  SleepInv'
<1>1. CASE UNCHANGED timevars
  BY SMT, <1>1 DEF timevars, SleepInv, Asleep, CountedExactly
<1> QED BY SMT, <1>1, SleepStarts, SleepGoesOn DEF TimeMathNext

\* Between close readings the clock never holds a second in its nanoseconds.
LEMMA ClockNormal ==
    ASSUME CloseReadings, SleepInv, clock.nsec \in Within, [TimeMathNext]_timevars
    PROVE  clock'.nsec \in Within
<1>1. ASSUME NEW usecs \in Usecs, task_usleep(usecs) PROVE clock'.nsec \in Within
  BY SMT, <1>1 DEF task_usleep
<1>2. ASSUME NEW n \in Steps, ReadClock(n) PROVE clock'.nsec \in Within
  BY SMT, <1>2, SleepGoesOn DEF CloseReadings
<1>3. CASE UNCHANGED timevars
  BY SMT, <1>3 DEF timevars
<1> QED BY SMT, <1>1, <1>2, <1>3 DEF TimeMathNext

\* While a task sleeps, for a duration that task_usleep does not round, each
\* reading of the clock adds exactly the time of the cycles that passed, 18
\* microseconds for each, for every number of cycles and every clock, whatever the shifts of clockcycles_to_timeval
\* round and however many seconds they leave in the nanoseconds.
THEOREM ReadingsAddUp == TimeMathSpec => []CountedExactly
<1>1. SleepInv => CountedExactly
  BY DEF SleepInv
<1> QED BY <1>1, SleepInitially, SleepStep, PTL DEF TimeMathSpec

\* A sleep ends when its microseconds are over and not before, for every
\* duration that task_usleep does not round, as long as the clock is read
\* so often that no reading leaves a second in the nanoseconds (every 55555
\* cycles, a lap of the counter being 65535).
THEOREM SleepsEndInTime == CloseReadings /\ TimeMathSpec => []SleepsIfExact
<1> DEFINE Inv == SleepInv /\ clock.nsec \in Within
<1>1. TimeMathInit => Inv
  <2>1. ASSUME TimeMathInit PROVE SleepInv /\ asked = NotAsleep
    BY <2>1, SleepInitially DEF TimeMathInit
  <2> QED BY <2>1 DEF SleepInv
<1>2. Inv => SleepsIfExact
  <2>1. ASSUME Inv, Asleep PROVE Due <=> slept + 1 >= asked
    <3>1. slept \in Int /\ asked \in Int /\ clock \in Time /\ expiry \in Time
      BY SMT, <2>1, TimeMathAssumption DEF SleepInv, Asleep, Time
    <3>2. /\ Microseconds(clock) - Microseconds(expiry) = slept - asked
          /\ clock.nsec % 1000 = expiry.nsec % 1000 /\ expiry.nsec \in Within
      BY <2>1 DEF SleepInv, CountedExactly
    <3>3. slept - asked \in Int
      BY <3>1
    <3>4. Due <=> (slept - asked) + 1 >= 0
      BY <2>1, <3>1, <3>2, <3>3, DueExact
    <3> QED BY <3>1, <3>4
  <2> QED BY <2>1 DEF SleepsIfExact, SleepInv
<1>3. CloseReadings /\ Inv /\ [TimeMathNext]_timevars => Inv'
  BY SleepStep, ClockNormal
<1>4. CASE CloseReadings
  <2>1. Inv /\ [TimeMathNext]_timevars => Inv'
    BY <1>3, <1>4
  <2> HIDE DEF Inv
  <2> QED BY <1>1, <1>2, <2>1, PTL DEF TimeMathSpec
<1>5. CASE ~ CloseReadings
  BY <1>5
<1> QED BY <1>4, <1>5
=============================================================================
