--------------------------- MODULE ServicesProofs ---------------------------
(***************************************************************************)
(* Proofs about the interrupt controller (Gic), the tasks of the services  *)
(* (Services) and the device files (SwDevices).                            *)
(***************************************************************************)
EXTENDS Services, Gic, SwDevices, ListLemmas, FiniteSetTheorems, TLAPS

----------------------------------------------------------------------------
(* The interrupt controller.                                               *)

\* sw_get_current_active_irq tells of an interrupt that asks for service.
LEMMA LowestAsks ==
    ASSUME NEW S \in SUBSET Nat, S # {}
    PROVE  Min(S) \in S
<1>1. \E x \in S : \A y \in S : x <= y
  BY LeastNat
<1> QED
  BY <1>1 DEF Min

\* The interrupts of each world among those that are ever enabled and raised.
Source == Timers \cup {KEY_PRESS_IRQ, LinuxDevice, NS_SGI_NOTIFY_INTERRUPT}
OfLinux == (0 .. 7) \cup (16 .. 31) \cup (Shared \ (Timers \cup {KEY_PRESS_IRQ}))

LEMMA WorldsApart ==
    /\ Source \subseteq Nat
    /\ Source \cap OfLinux = {NS_SGI_NOTIFY_INTERRUPT, LinuxDevice}
    /\ Source \ OfLinux = Timers \cup {KEY_PRESS_IRQ}
    /\ TICK_TIMER_IRQ \notin Private /\ TICK_TIMER_IRQ \notin 0 .. 15
    /\ TICK_TIMER_IRQ \notin {FREE_RUNNING_TIMER_IRQ, KEY_PRESS_IRQ, LinuxDevice}
BY DEF Source, OfLinux, Shared, Private, Timers, NS_SGI_NOTIFY_INTERRUPT, FREE_RUNNING_TIMER_IRQ,
       TICK_TIMER_IRQ, KEY_PRESS_IRQ, LinuxDevice

LEMMA GicInitInv == GicInit => GicInv
BY DEF GicInit, GicInv, InterruptsApart

\* The interrupt a world is told of is its own.
LEMMA AskingApart ==
    ASSUME GicInv, boot \notin {"reset", "distributor"}
    PROVE  /\ Asking(grp1) # {} => Min(Asking(grp1)) \in {NS_SGI_NOTIFY_INTERRUPT, LinuxDevice}
           /\ Asking((Private \cup Shared) \ grp1) # {} =>
                 Min(Asking((Private \cup Shared) \ grp1)) \in Timers \cup {KEY_PRESS_IRQ}
<1>1. level \subseteq Source /\ grp1 = OfLinux
  BY DEF GicInv, Source, OfLinux
<1>2. Asking(grp1) \subseteq {NS_SGI_NOTIFY_INTERRUPT, LinuxDevice}
      /\ Asking((Private \cup Shared) \ grp1) \subseteq Timers \cup {KEY_PRESS_IRQ}
  BY <1>1, WorldsApart DEF Asking
<1>3. Asking(grp1) \in SUBSET Nat /\ Asking((Private \cup Shared) \ grp1) \in SUBSET Nat
  BY <1>1, WorldsApart DEF Asking
<1> QED
  BY <1>2, <1>3, LowestAsks

LEMMA BootInv ==
    GicInv /\ (sw_gic_distributor_init \/ sw_gic_cpu_interface_init) => GicInv'
<1>1. ASSUME GicInv, sw_gic_distributor_init PROVE GicInv'
  <2>1. boot = "reset" /\ boot' = "distributor" /\ grp1 = {} /\ enabled = {} /\ counting = {}
    BY <1>1 DEF GicInv, sw_gic_distributor_init
  <2>2. grp1' = Shared \ (Timers \cup {KEY_PRESS_IRQ}) /\ enabled' = {}
    BY <1>1, <2>1 DEF sw_gic_distributor_init, sw_config_sec_non_sec_int
  <2>3. UNCHANGED <<level, active, fiq, cur, counting, handlers, taken>>
    BY <1>1 DEF sw_gic_distributor_init
  <2> QED
    BY <1>1, <2>1, <2>2, <2>3 DEF GicInv, InterruptsApart
<1>2. ASSUME GicInv, sw_gic_cpu_interface_init PROVE GicInv'
  <2>1. boot = "distributor" /\ boot' = "up" /\ enabled = {} /\ counting = {}
        /\ grp1 = Shared \ (Timers \cup {KEY_PRESS_IRQ})
    BY <1>2 DEF GicInv, sw_gic_cpu_interface_init
  <2>2. enabled' = 0 .. 15
    BY <1>2, <2>1 DEF sw_gic_cpu_interface_init
  <2>3. grp1' = OfLinux
    BY <1>2, <2>1 DEF sw_gic_cpu_interface_init, OfLinux, Shared, Private
  <2>4. UNCHANGED <<level, active, fiq, cur, counting, handlers, taken>>
    BY <1>2 DEF sw_gic_cpu_interface_init
  <2> QED
    BY <1>2, <2>1, <2>2, <2>3, <2>4, WorldsApart DEF GicInv, InterruptsApart, OfLinux
<1> QED
  BY <1>1, <1>2

LEMMA SecureInv ==
    GicInv /\ (enable_timer \/ StartTick \/ ShellUnmask \/ register_secure_irq_handler
               \/ NotifyLinux) => GicInv'
<1>1. ASSUME GicInv, enable_timer PROVE GicInv'
  BY <1>1, WorldsApart DEF enable_timer, sw_gic_unmask_interrupt, GicInv, InterruptsApart, Timers
<1>2. ASSUME GicInv, StartTick PROVE GicInv'
  BY <1>2, WorldsApart
     DEF StartTick, trigger_tick, sw_gic_unmask_interrupt, GicInv, InterruptsApart, Timers
<1>3. ASSUME GicInv, ShellUnmask \/ register_secure_irq_handler PROVE GicInv'
  BY <1>3, WorldsApart
     DEF ShellUnmask, register_secure_irq_handler, sw_gic_unmask_interrupt, GicInv, InterruptsApart
<1>4. ASSUME GicInv, NotifyLinux PROVE GicInv'
  <2>1. level' = level \/ level' = level \cup {NS_SGI_NOTIFY_INTERRUPT}
    BY <1>4 DEF NotifyLinux, sw_generate_soft_int
  <2> QED
    BY <1>4, <2>1 DEF NotifyLinux, GicInv, InterruptsApart
<1> QED
  BY <1>1, <1>2, <1>3, <1>4

LEMMA FiqInv == GicInv /\ FiqStep => GicInv'
<1>1. ASSUME GicInv, FiqEnter PROVE GicInv'
  <2>1. PICK n : n = Min(Asking((Private \cup Shared) \ grp1))
    OBVIOUS
  <2>2. n \in Timers \cup {KEY_PRESS_IRQ}
    BY <1>1, <2>1, AskingApart DEF FiqEnter
  <2>3. /\ cur' = n /\ active' = active \cup {n} /\ taken' = taken \cup {<<"secure", n>>}
        /\ fiq = "no" /\ fiq' = "acked" /\ UNCHANGED <<boot, grp1, enabled, level, counting>>
        /\ boot \notin {"reset", "distributor"}
    BY <1>1, <2>1 DEF FiqEnter
  <2>4. <<"secure", n>> \in {"secure"} \X (Timers \cup {KEY_PRESS_IRQ})
    BY <2>2
  <2> QED
    BY <1>1, <2>3, <2>4 DEF GicInv, InterruptsApart
<1>2. ASSUME GicInv, sw_gic_ack_irq PROVE GicInv'
  BY <1>2 DEF sw_gic_ack_irq, GicInv, InterruptsApart
<1>3. ASSUME GicInv, TickHandler PROVE GicInv'
  <2>1. /\ fiq = "handle" /\ fiq' = "clear" /\ UNCHANGED <<boot, grp1, level, active, cur, taken>>
        /\ \/ enabled' = enabled \ {TICK_TIMER_IRQ} /\ counting' = counting \ {TICK_TIMER_IRQ}
           \/ /\ enabled' = enabled \cup {TICK_TIMER_IRQ}
              /\ counting' = counting \cup {TICK_TIMER_IRQ}
    BY <1>3 DEF TickHandler, secure_timer_disable, trigger_tick, sw_gic_mask_interrupt,
                sw_gic_unmask_interrupt
  <2> QED
    BY <1>3, <2>1 DEF GicInv, InterruptsApart, Timers
<1>4. ASSUME GicInv, TickClear \/ OtherHandler PROVE GicInv'
  <2>1. level' \subseteq level /\ active' = active /\ fiq \in {"clear", "handle"} /\ fiq' = "no"
        /\ UNCHANGED <<boot, grp1, enabled, counting, taken>>
    BY <1>4 DEF TickClear, OtherHandler
  <2> QED
    BY <1>4, <2>1 DEF GicInv, InterruptsApart
<1> QED
  BY <1>1, <1>2, <1>3, <1>4 DEF FiqStep

LEMMA LinuxInv ==
    /\ GicInv /\ (LinuxEnables \/ LinuxServes) => GicInv'
    /\ \A n \in Timers \cup {KEY_PRESS_IRQ, LinuxDevice} : GicInv /\ Raise(n) => GicInv'
<1>1. ASSUME GicInv, LinuxEnables PROVE GicInv'
  BY <1>1, WorldsApart DEF LinuxEnables, GicInv, InterruptsApart
<1>2. ASSUME GicInv, LinuxServes PROVE GicInv'
  <2>1. PICK n : n = Min(Asking(grp1))
    OBVIOUS
  <2>2. n \in {NS_SGI_NOTIFY_INTERRUPT, LinuxDevice}
    BY <1>2, <2>1, AskingApart DEF LinuxServes
  <2>3. /\ level' = level \ {n} /\ taken' = taken \cup {<<"linux", n>>}
        /\ UNCHANGED <<boot, grp1, enabled, active, fiq, cur, counting>>
    BY <1>2, <2>1 DEF LinuxServes
  <2>4. <<"linux", n>> \in {"linux"} \X {NS_SGI_NOTIFY_INTERRUPT, LinuxDevice}
    BY <2>2
  <2> QED
    BY <1>2, <2>3, <2>4 DEF GicInv, InterruptsApart
<1>3. ASSUME GicInv, NEW n \in Timers \cup {KEY_PRESS_IRQ, LinuxDevice}, Raise(n) PROVE GicInv'
  BY <1>3 DEF Raise, GicInv, InterruptsApart
<1> QED
  BY <1>1, <1>2, <1>3

LEMMA GicStepInv == GicInv /\ [GicNext]_gicvars => GicInv'
<1>1. GicInv /\ UNCHANGED gicvars => GicInv'
  BY DEF gicvars, GicInv, InterruptsApart
<1> QED
  BY <1>1, BootInv, SecureInv, FiqInv, LinuxInv DEF GicNext

\* Each world is interrupted by its own interrupts only, none stays active
\* once fiq_c_handler is left, and a tick timer that counts is unmasked.
THEOREM WorldsInterruptedApart == GicSpec => []InterruptsApart
<1>1. GicInv => InterruptsApart
  BY DEF GicInv
<1> QED
  BY <1>1, GicInitInv, GicStepInv, PTL DEF GicSpec

----------------------------------------------------------------------------
(* The users of a section.                                                 *)

LEMMA RoleFinite == IsFiniteSet(Role)
<1>1. IsFiniteSet({"cmd"})
  BY FS_Singleton
<1>2. IsFiniteSet({"cmd"} \cup {"req"})
  BY <1>1, FS_AddElement
<1>3. IsFiniteSet(({"cmd"} \cup {"req"}) \cup {"res"})
  BY <1>2, FS_AddElement
<1>4. IsFiniteSet((({"cmd"} \cup {"req"}) \cup {"res"}) \cup {"meta"})
  BY <1>3, FS_AddElement
<1>5. IsFiniteSet(((({"cmd"} \cup {"req"}) \cup {"res"}) \cup {"meta"}) \cup {"data"})
  BY <1>4, FS_AddElement
<1>6. Role = ((({"cmd"} \cup {"req"}) \cup {"res"}) \cup {"meta"}) \cup {"data"}
  BY DEF Role
<1> QED
  BY <1>5, <1>6

LEMMA UsersFinite == \A q : IsFiniteSet(Users(q)) /\ Cardinality(Users(q)) \in Nat
<1>1. IsFiniteSet(Worker \X Role)
  BY ServicesAssumption, RoleFinite, FS_Product
<1> SUFFICES ASSUME NEW q PROVE IsFiniteSet(Users(q)) /\ Cardinality(Users(q)) \in Nat
  OBVIOUS
<1>2. Users(q) \in SUBSET (Worker \X Role)
  BY DEF Users
<1>3. IsFiniteSet(Users(q))
  BY <1>1, <1>2, FS_Subset
<1> QED
  BY <1>3, FS_CardinalityType

\* The type and what it says of one buffer.
LEMMA HaveType ==
    ASSUME SvcTypeOK, NEW t \in Worker
    PROVE  /\ have[t] \in [Role -> NsSec \cup {None}]
           /\ \A r \in Role : have[t][r] \in NsSec \cup {None}
           /\ None \notin NsSec
BY ServicesAssumption DEF SvcTypeOK

\* A buffer more ...
LEMMA HoldMore ==
    ASSUME SvcTypeOK, NEW t \in Worker, NEW r \in Role, NEW s \in NsSec,
           have[t][r] = None, Hold(t, r, s)
    PROVE  /\ Cardinality(Users(s)') = Cardinality(Users(s)) + 1
           /\ \A q \in NsSec : q # s => Users(q)' = Users(q)
<1>1. \A x \in Worker \X Role : have'[x[1]][x[2]] = IF x = <<t, r>> THEN s ELSE have[x[1]][x[2]]
  <2> SUFFICES ASSUME NEW w \in Worker, NEW o \in Role
               PROVE  have'[w][o] = IF <<w, o>> = <<t, r>> THEN s ELSE have[w][o]
    OBVIOUS
  <2>1. have \in [Worker -> [Role -> NsSec \cup {None}]]
    BY DEF SvcTypeOK
  <2>2. have' = [have EXCEPT ![t] = [have[t] EXCEPT ![r] = s]]
    BY DEF Hold
  <2>3. w # t => have'[w] = have[w]
    BY <2>1, <2>2
  <2>4. have'[t] = [have[t] EXCEPT ![r] = s] /\ have[t] \in [Role -> NsSec \cup {None}]
    BY <2>1, <2>2
  <2> QED
    BY <2>3, <2>4
<1>2. None \notin NsSec
  BY ServicesAssumption
<1>3. <<t, r>> \in Worker \X Role /\ <<t, r>> \notin Users(s)
  BY <1>2 DEF Users
<1>4. Users(s)' = Users(s) \cup {<<t, r>>}
  BY <1>1, <1>3 DEF Users
<1>5. \A q \in NsSec : q # s => Users(q)' = Users(q)
  BY <1>1, <1>2 DEF Users
<1> QED
  BY <1>3, <1>4, <1>5, UsersFinite, FS_AddElement

\* ... and one less.
LEMMA HoldLess ==
    ASSUME SvcTypeOK, NEW t \in Worker, NEW r \in Role, NEW s \in NsSec,
           have[t][r] = s, Hold(t, r, None)
    PROVE  /\ Cardinality(Users(s)') = Cardinality(Users(s)) - 1 /\ Cardinality(Users(s)) > 0
           /\ \A q \in NsSec : q # s => Users(q)' = Users(q)
<1>1. \A x \in Worker \X Role : have'[x[1]][x[2]] = IF x = <<t, r>> THEN None ELSE have[x[1]][x[2]]
  <2> SUFFICES ASSUME NEW w \in Worker, NEW o \in Role
               PROVE  have'[w][o] = IF <<w, o>> = <<t, r>> THEN None ELSE have[w][o]
    OBVIOUS
  <2>1. have \in [Worker -> [Role -> NsSec \cup {None}]]
    BY DEF SvcTypeOK
  <2>2. have' = [have EXCEPT ![t] = [have[t] EXCEPT ![r] = None]]
    BY DEF Hold
  <2>3. w # t => have'[w] = have[w]
    BY <2>1, <2>2
  <2>4. have'[t] = [have[t] EXCEPT ![r] = None] /\ have[t] \in [Role -> NsSec \cup {None}]
    BY <2>1, <2>2
  <2> QED
    BY <2>3, <2>4
<1>2. None \notin NsSec
  BY ServicesAssumption
<1>3. <<t, r>> \in Worker \X Role /\ <<t, r>> \in Users(s)
  BY DEF Users
<1>4. Users(s)' = Users(s) \ {<<t, r>>}
  BY <1>1, <1>2, <1>3 DEF Users
<1>5. \A q \in NsSec : q # s => Users(q)' = Users(q)
  BY <1>1, <1>2 DEF Users
<1>6. Cardinality(Users(s)) # 0
  BY <1>3, UsersFinite, FS_EmptySet
<1>7. Cardinality(Users(s)') = Cardinality(Users(s)) - 1
  BY <1>3, <1>4, UsersFinite, FS_RemoveElement
<1>8. Cardinality(Users(s)) \in Nat
  BY UsersFinite
<1> QED
  BY <1>5, <1>6, <1>7, <1>8

\* A command that is dropped leaves the references of all its buffers.
LEMMA HoldNone ==
    ASSUME SvcTypeOK, NEW t \in Worker, have' = [have EXCEPT ![t] = NoBuffers], NEW q \in NsSec
    PROVE  /\ HeldIn(t, q) \in Nat
           /\ Cardinality(Users(q)') = Cardinality(Users(q)) - HeldIn(t, q)
<1> DEFINE R == {r \in Role : have[t][r] = q}
           M == {x \in Users(q) : x[1] = t}
<1>0. None \notin NsSec
  BY ServicesAssumption
<1>1. IsFiniteSet(R)
  BY RoleFinite, FS_Subset
<1>2. IsFiniteSet(M) /\ M \in SUBSET Users(q)
  BY UsersFinite, FS_Subset
<1>3. Cardinality(M) = Cardinality(R)
  <2> DEFINE f == [r \in R |-> <<t, r>>]
  <2>1. \A r \in R : <<t, r>> \in M
    BY DEF Users
  <2>2. f \in Injection(R, M)
    BY <2>1 DEF Injection, IsInjective
  <2>3. \A x \in M : \E r \in R : f[r] = x
    <3> SUFFICES ASSUME NEW x \in M PROVE \E r \in R : f[r] = x
      OBVIOUS
    <3>1. x \in Worker \X Role /\ x[1] = t /\ have[x[1]][x[2]] = q
      BY DEF Users
    <3>2. x = <<t, x[2]>> /\ x[2] \in Role /\ x[2] \in R
      BY <3>1
    <3> QED
      BY <3>2
  <2>4. f \in Surjection(R, M)
    BY <2>2, <2>3 DEF Surjection, Injection
  <2> QED
    BY <1>2, <2>2, <2>4, FS_Injection
<1>4. Users(q)' = Users(q) \ M
  <2>1. \A w \in Worker : have'[w] = IF w = t THEN NoBuffers ELSE have[w]
    BY DEF SvcTypeOK
  <2>2. \A r \in Role : NoBuffers[r] = None
    BY DEF NoBuffers
  <2>3. ASSUME NEW w \in Worker, NEW o \in Role
        PROVE  (have'[w][o] = q) <=> (have[w][o] = q /\ w # t)
    BY <1>0, <2>1, <2>2
  <2> QED
    BY <2>3 DEF Users
<1>5. Users(q) = (Users(q) \ M) \cup M /\ (Users(q) \ M) \cap M = {}
  BY <1>2
<1>6. IsFiniteSet(Users(q) \ M)
  BY UsersFinite, FS_Subset
<1> HIDE DEF M, R
<1>7. Cardinality(Users(q)) = Cardinality(Users(q) \ M) + Cardinality(M) - 0
  BY <1>2, <1>5, <1>6, FS_Union, FS_EmptySet
<1>8. Cardinality(M) \in Nat /\ Cardinality(Users(q) \ M) \in Nat
  BY <1>2, <1>6, FS_CardinalityType
<1>9. HeldIn(t, q) = Cardinality(R)
  BY DEF HeldIn, R
<1> QED
  BY <1>3, <1>4, <1>7, <1>8, <1>9

----------------------------------------------------------------------------
(* The references of a section.                                            *)

LEMMA RefCountNat == ASSUME SvcTypeOK, NEW q \in NsSec PROVE RefCount(q) \in Nat
<1>1. stray[q] \in Nat /\ Cardinality(Users(q)) \in Nat
  BY UsersFinite DEF SvcTypeOK
<1> QED
  BY <1>1 DEF RefCount

\* Steps that leave the table alone.
LEMMA TableKept ==
    ASSUME ReferencesExact, UNCHANGED <<nsvars, robbed>>, \A q \in NsSec : RefCount(q)' = RefCount(q)
    PROVE  ReferencesExact'
BY DEF ReferencesExact, SectionCounted, nsvars

LEMMA MapExact ==
    ASSUME SvcTypeOK, ReferencesExact, NEW s \in NsSec, map_to_ns(s), robbed' = robbed,
           \A q \in NsSec : RefCount(q)' = IF q = s THEN RefCount(q) + 1 ELSE RefCount(q)
    PROVE  ReferencesExact'
<1> SUFFICES ASSUME ~ noref', NEW q \in NsSec PROVE SectionCounted(q)'
  BY DEF ReferencesExact
<1>1. nsent' = nsent \cup {s} /\ nsref' = [nsref EXCEPT ![s] = nsref[s] + 1] /\ noref' = noref
  BY DEF map_to_ns, map_ns_section_entry, page_ref_add
<1>2. SectionCounted(q) /\ nsref[q] \in Nat /\ RefCount(q) \in Nat
  BY <1>1, RefCountNat DEF ReferencesExact, SvcTypeOK
<1>3. nsref'[q] = IF q = s THEN nsref[q] + 1 ELSE nsref[q]
  BY <1>1 DEF SvcTypeOK
<1>4. CASE q = s
  <2>1. nsref'[q] = nsref[q] + 1 /\ nsref[q] + 1 > 0 /\ RefCount(q)' = RefCount(q) + 1
    BY <1>2, <1>3, <1>4
  <2>2. nsref[q] <= RefCount(q) => nsref[q] + 1 <= RefCount(q) + 1
    BY <1>2
  <2> QED
    BY <1>1, <1>2, <1>4, <2>1, <2>2 DEF SectionCounted
<1>5. CASE q # s
  BY <1>1, <1>2, <1>3, <1>5 DEF SectionCounted
<1> QED
  BY <1>4, <1>5

\* Releasing a reference of one's own, or one of others (robbed).
LEMMA UnmapExact ==
    ASSUME SvcTypeOK, ReferencesExact, NEW s \in NsSec, unmap_from_ns(s),
           \/ /\ RefCount(s) > 0 /\ robbed' = robbed
              /\ \A q \in NsSec : RefCount(q)' = IF q = s THEN RefCount(q) - 1 ELSE RefCount(q)
           \/ /\ robbed' = IF nsref[s] > 0 THEN robbed \cup {s} ELSE robbed
              /\ \A q \in NsSec : RefCount(q)' = RefCount(q)
    PROVE  ReferencesExact'
<1> SUFFICES ASSUME ~ noref', NEW q \in NsSec PROVE SectionCounted(q)'
  BY DEF ReferencesExact
<1>1. noref' = noref
  BY DEF unmap_from_ns, unmap_ns_section_entry
<1>2. SectionCounted(q) /\ SectionCounted(s) /\ {nsref[q], nsref[s], RefCount(q), RefCount(s)} \subseteq Nat
  BY <1>1, RefCountNat DEF ReferencesExact, SvcTypeOK
<1>3. /\ nsref' = IF nsref[s] > 0 THEN [nsref EXCEPT ![s] = nsref[s] - 1] ELSE nsref
      /\ nsent' = IF nsref[s] = 1 THEN nsent \ {s} ELSE nsent
  <2>1. s \in nsent <=> nsref[s] > 0
    BY <1>2 DEF SectionCounted
  <2>2. nsref[s] = 1 => nsref[s] > 0
    OBVIOUS
  <2> QED
    BY <2>1, <2>2 DEF unmap_from_ns, unmap_ns_section_entry, page_ref_release
<1>4. CASE q # s
  <2>1. nsref'[q] = nsref[q] /\ (q \in nsent' <=> q \in nsent) /\ RefCount(q)' = RefCount(q)
    BY <1>3, <1>4 DEF SvcTypeOK
  <2>2. q \in robbed' <=> q \in robbed
    BY <1>4
  <2> QED
    BY <1>2, <2>1, <2>2 DEF SectionCounted
<1>5. CASE q = s /\ nsref[s] > 0
  <2>1. nsref'[q] = nsref[q] - 1
    BY <1>3, <1>5 DEF SvcTypeOK
  <2>2. q \in nsent' <=> nsref'[q] > 0
    <3>1. nsref[q] = 1 <=> ~ nsref[q] - 1 > 0
      BY <1>2, <1>5
    <3>2. q \in nsent
      BY <1>2, <1>5 DEF SectionCounted
    <3> QED
      BY <1>3, <1>5, <2>1, <3>1, <3>2
  <2>3. CASE RefCount(q)' = RefCount(q) - 1 /\ robbed' = robbed
    <3>1. /\ nsref[q] <= RefCount(q) => nsref[q] - 1 <= RefCount(q) - 1
          /\ nsref[q] = RefCount(q) => nsref[q] - 1 = RefCount(q) - 1
      BY <1>2
    <3> QED
      BY <1>2, <2>1, <2>2, <2>3, <3>1 DEF SectionCounted
  <2>4. CASE RefCount(q)' = RefCount(q) /\ s \in robbed'
    <3>1. nsref[q] <= RefCount(q) => nsref[q] - 1 <= RefCount(q)
      BY <1>2
    <3> QED
      BY <1>2, <1>5, <2>1, <2>2, <2>4, <3>1 DEF SectionCounted
  <2> QED
    BY <1>5, <2>3, <2>4
<1>6. CASE q = s /\ ~ nsref[s] > 0
  <2>1. nsref'[q] = nsref[q] /\ nsref[q] = 0 /\ nsent' = nsent
    <3>1. nsref[s] # 1 /\ nsref[s] = 0
      BY <1>2, <1>6
    <3> QED
      BY <1>3, <1>6, <3>1
  <2>2. CASE RefCount(q)' = RefCount(q) - 1 /\ RefCount(s) > 0 /\ robbed' = robbed
    <3>1. 0 <= RefCount(q) - 1 /\ 0 # RefCount(q)
      BY <1>2, <1>6, <2>2
    <3> QED
      BY <1>2, <2>1, <2>2, <3>1 DEF SectionCounted
  <2>3. CASE RefCount(q)' = RefCount(q) /\ robbed' = robbed
    BY <1>2, <2>1, <2>3 DEF SectionCounted
  <2> QED
    BY <1>6, <2>2, <2>3
<1> QED
  BY <1>4, <1>5, <1>6

LEMMA MapTypes ==
    ASSUME SvcTypeOK, NEW s \in NsSec, map_to_ns(s) \/ unmap_from_ns(s)
    PROVE  nsent' \subseteq NsSec /\ nsref' \in [NsSec -> Nat] /\ noref' \in BOOLEAN
<1>0. nsref \in [NsSec -> Nat] /\ nsref[s] \in Nat
  BY DEF SvcTypeOK
<1>1. CASE map_to_ns(s)
  <2>1. nsref' = [nsref EXCEPT ![s] = nsref[s] + 1] \/ nsref' = nsref
    BY <1>1 DEF map_to_ns, map_ns_section_entry, page_ref_add
  <2>2. nsref' \in [NsSec -> Nat]
    BY <1>0, <2>1
  <2>3. noref' \in BOOLEAN /\ nsent' \subseteq NsSec
    BY <1>1 DEF map_to_ns, map_ns_section_entry, page_ref_add, SvcTypeOK
  <2> QED
    BY <2>2, <2>3
<1>2. CASE unmap_from_ns(s)
  <2>1. (nsref[s] > 0 /\ nsref' = [nsref EXCEPT ![s] = nsref[s] - 1]) \/ nsref' = nsref
    BY <1>2 DEF unmap_from_ns, unmap_ns_section_entry, page_ref_release
  <2>2. nsref' \in [NsSec -> Nat]
    BY <1>0, <2>1
  <2>3. noref' \in BOOLEAN /\ nsent' \subseteq NsSec
    BY <1>2 DEF unmap_from_ns, unmap_ns_section_entry, SvcTypeOK
  <2> QED
    BY <2>2, <2>3
<1> QED
  BY <1>1, <1>2

----------------------------------------------------------------------------
(* The tasks of the services.                                              *)

Places == {"idle", "cmd", "req", "res", "meta", "check", "malloc", "decode", "free", "out"}

\* What one task holds on its way.
Way(t) ==
    /\ at[t] \in {"idle", "cmd", "req", "res", "meta", "check", "out"}
          => blocks[t] = 0 /\ have[t].data = None
    /\ at[t] \in {"idle", "cmd"} => have[t] = NoBuffers
    /\ at[t] = "req" => have[t].req = None
    /\ at[t] \in {"req", "res"} => have[t].res = None
    /\ at[t] \in {"req", "res", "meta"} => have[t].meta = None

LEMMA WayKept ==
    ASSUME HeldOnTheWay, NEW t \in Worker, Way(t)',
           \A u \in Worker : u # t => at'[u] = at[u] /\ have'[u] = have[u] /\ blocks'[u] = blocks[u]
    PROVE  HeldOnTheWay'
<1> SUFFICES ASSUME NEW u \in Worker PROVE Way(u)'
  BY DEF HeldOnTheWay, Way
<1>1. CASE u = t
  BY <1>1
<1>2. CASE u # t
  BY <1>2 DEF HeldOnTheWay, Way
<1> QED
  BY <1>1, <1>2

LEMMA HoldFacts ==
    ASSUME SvcTypeOK, NEW t \in Worker, NEW r \in Role, NEW s \in NsSec \cup {None}, Hold(t, r, s)
    PROVE  /\ have' \in [Worker -> [Role -> NsSec \cup {None}]]
           /\ \A u \in Worker : u # t => have'[u] = have[u]
           /\ have'[t][r] = s /\ \A o \in Role : o # r => have'[t][o] = have[t][o]
           /\ have'[t] \in [Role -> NsSec \cup {None}]
<1>1. have \in [Worker -> [Role -> NsSec \cup {None}]]
  BY DEF SvcTypeOK
<1>2. have' = [have EXCEPT ![t] = [have[t] EXCEPT ![r] = s]]
  BY DEF Hold
<1>3. [have[t] EXCEPT ![r] = s] \in [Role -> NsSec \cup {None}]
  BY <1>1
<1>4. have'[t] = [have[t] EXCEPT ![r] = s]
  BY <1>1, <1>2
<1> QED
  BY <1>1, <1>2, <1>3, <1>4

LEMMA PlaceFacts ==
    ASSUME SvcTypeOK, NEW t \in Worker, NEW l \in Places, Goto(t, l)
    PROVE  at' \in [Worker -> Places] /\ at'[t] = l /\ \A u \in Worker : u # t => at'[u] = at[u]
<1>1. at \in [Worker -> Places]
  BY DEF SvcTypeOK, Places
<1> QED
  BY <1>1 DEF Goto

LEMMA Roles == {"cmd", "req", "res", "meta", "data"} \subseteq Role
BY DEF Role

LEMMA ServicesInitInv == ServicesInit => ServicesInv
<1> SUFFICES ASSUME ServicesInit PROVE ServicesInv
  OBVIOUS
<1>1. SvcTypeOK
  <2>1. NoBuffers \in [Role -> NsSec \cup {None}]
    BY DEF NoBuffers
  <2>2. noref \in BOOLEAN
    BY DEF ServicesInit, NsInit
  <2> QED
    BY <2>1, <2>2 DEF ServicesInit, NsInit, SvcTypeOK
<1>2. HeldOnTheWay
  BY Roles DEF ServicesInit, HeldOnTheWay, NoBuffers
<1>3. ReferencesExact
  <2> SUFFICES ASSUME NEW s \in NsSec PROVE SectionCounted(s)
    BY DEF ReferencesExact
  <2>1. Users(s) = {} /\ s # None
    BY ServicesAssumption DEF ServicesInit, NoBuffers, Users
  <2>2. RefCount(s) = 0
    BY <2>1, FS_EmptySet DEF RefCount, ServicesInit
  <2> QED
    BY <2>2 DEF ServicesInit, NsInit, SectionCounted
<1> QED
  BY <1>1, <1>2, <1>3 DEF ServicesInv

\* Steps that move a task without touching what it holds.
LEMMA MoveInv ==
    ASSUME ServicesInv, NEW t \in Worker,
           Receive(t) \/ Decoded(t) \/ Malloc(t)
    PROVE  ServicesInv'
<1>0. SvcTypeOK /\ HeldOnTheWay /\ ReferencesExact
  BY DEF ServicesInv
<1>1. UNCHANGED <<nsvars, have, peek, stray, robbed>>
  BY DEF Receive, Decoded, Malloc
<1>2. /\ at' = at \/ \E l \in Places : Goto(t, l)
      /\ blocks' = blocks \/ blocks' = [blocks EXCEPT ![t] = blocks[t] + 1]
  BY DEF Receive, Decoded, Malloc, Places
<1>3. at' \in [Worker -> Places] /\ \A u \in Worker : u # t => at'[u] = at[u]
  BY <1>0, <1>2, PlaceFacts DEF SvcTypeOK, Places
<1>4. blocks' \in [Worker -> Nat] /\ \A u \in Worker : u # t => blocks'[u] = blocks[u]
  BY <1>0, <1>2 DEF SvcTypeOK
<1>5. SvcTypeOK'
  BY <1>0, <1>1, <1>3, <1>4 DEF SvcTypeOK, Places, nsvars
<1>6. Way(t)'
  <2>1. \/ at[t] = "idle" /\ at'[t] = "cmd" /\ blocks' = blocks
        \/ at'[t] \in {"malloc", "decode", "free"}
    <3>1. \/ at[t] = "idle" /\ Goto(t, "cmd") /\ blocks' = blocks
          \/ Goto(t, "decode")
          \/ Goto(t, "free")
          \/ at[t] = "malloc" /\ at' = at
      <4>1. CASE Receive(t)
        BY <4>1 DEF Receive
      <4>2. CASE Decoded(t)
        BY <4>2 DEF Decoded
      <4>3. CASE Malloc(t)
        BY <4>3 DEF Malloc
      <4> QED
        BY <4>1, <4>2, <4>3
    <3> QED
      BY <1>0, <3>1, PlaceFacts DEF Places
  <2> QED
    BY <1>0, <1>1, <2>1 DEF Way, HeldOnTheWay
<1>7. HeldOnTheWay'
  BY <1>0, <1>1, <1>3, <1>4, <1>6, WayKept
<1>8. ReferencesExact'
  <2>1. \A q \in NsSec : RefCount(q)' = RefCount(q)
    BY <1>1 DEF RefCount, Users
  <2> QED
    BY <1>0, <1>1, <2>1, TableKept
<1> QED
  BY <1>5, <1>7, <1>8 DEF ServicesInv

\* The references after a buffer more, or one less.
LEMMA CountMore ==
    ASSUME SvcTypeOK, NEW t \in Worker, NEW r \in Role, NEW s \in NsSec,
           have[t][r] = None, Hold(t, r, s), UNCHANGED <<peek, stray>>
    PROVE  \A q \in NsSec : RefCount(q)' = IF q = s THEN RefCount(q) + 1 ELSE RefCount(q)
<1> SUFFICES ASSUME NEW q \in NsSec
             PROVE  RefCount(q)' = IF q = s THEN RefCount(q) + 1 ELSE RefCount(q)
  OBVIOUS
<1>1. stray[q] \in Nat /\ Cardinality(Users(q)) \in Nat
  BY UsersFinite DEF SvcTypeOK
<1>2. Cardinality(Users(q)') = IF q = s THEN Cardinality(Users(q)) + 1 ELSE Cardinality(Users(q))
  BY HoldMore
<1> QED
  BY <1>1, <1>2 DEF RefCount

LEMMA CountLess ==
    ASSUME SvcTypeOK, NEW t \in Worker, NEW r \in Role, NEW s \in NsSec,
           have[t][r] = s, Hold(t, r, None), UNCHANGED <<peek, stray>>
    PROVE  /\ \A q \in NsSec : RefCount(q)' = IF q = s THEN RefCount(q) - 1 ELSE RefCount(q)
           /\ RefCount(s) > 0
<1>1. ASSUME NEW q \in NsSec
      PROVE  RefCount(q)' = IF q = s THEN RefCount(q) - 1 ELSE RefCount(q)
  <2>1. stray[q] \in Nat /\ Cardinality(Users(q)) \in Nat
    BY UsersFinite DEF SvcTypeOK
  <2>2. Cardinality(Users(q)') = IF q = s THEN Cardinality(Users(q)) - 1 ELSE Cardinality(Users(q))
    BY HoldLess
  <2> QED
    BY <2>1, <2>2 DEF RefCount
<1>2. RefCount(s) > 0
  <2>1. stray[s] \in Nat /\ Cardinality(Users(s)) \in Nat /\ Cardinality(Users(s)) > 0
    BY UsersFinite, HoldLess DEF SvcTypeOK
  <2> QED
    BY <2>1 DEF RefCount
<1> QED
  BY <1>1, <1>2

\* A reference that is abandoned stays counted.
LEMMA CountStray ==
    ASSUME SvcTypeOK, NEW t \in Worker, NEW r \in Role, NEW s \in NsSec,
           have[t][r] = s, Hold(t, r, None), UNCHANGED peek,
           stray' = [stray EXCEPT ![s] = stray[s] + 1]
    PROVE  \A q \in NsSec : RefCount(q)' = RefCount(q)
<1> SUFFICES ASSUME NEW q \in NsSec PROVE RefCount(q)' = RefCount(q)
  OBVIOUS
<1>1. stray[q] \in Nat /\ Cardinality(Users(q)) \in Nat
  BY UsersFinite DEF SvcTypeOK
<1>2. Cardinality(Users(q)') = IF q = s THEN Cardinality(Users(q)) - 1 ELSE Cardinality(Users(q))
  BY HoldLess
<1>3. stray'[q] = IF q = s THEN stray[q] + 1 ELSE stray[q]
  BY DEF SvcTypeOK
<1> QED
  BY <1>1, <1>2, <1>3 DEF RefCount

\* A step that changes one buffer of one task.
LEMMA BufferStep ==
    ASSUME SvcTypeOK, HeldOnTheWay, NEW t \in Worker, NEW l \in Places,
           Goto(t, l) \/ (UNCHANGED at /\ at[t] = l),
           NEW r \in Role, NEW s \in NsSec \cup {None}, Hold(t, r, s),
           blocks' \in [Worker -> Nat], \A u \in Worker : u # t => blocks'[u] = blocks[u],
           nsent' \subseteq NsSec, nsref' \in [NsSec -> Nat], noref' \in BOOLEAN,
           stray' \in [NsSec -> Nat], UNCHANGED <<peek, robbed>>,
           (at'[t] = l /\ have'[t][r] = s /\ \A o \in Role : o # r => have'[t][o] = have[t][o])
              => Way(t)',
           ReferencesExact'
    PROVE  ServicesInv'
<1>1. at' \in [Worker -> Places] /\ at'[t] = l /\ \A u \in Worker : u # t => at'[u] = at[u]
  <2>1. CASE Goto(t, l)
    BY <2>1, PlaceFacts
  <2>2. CASE UNCHANGED at /\ at[t] = l
    BY <2>2 DEF SvcTypeOK, Places
  <2> QED
    BY <2>1, <2>2
<1>2. /\ have' \in [Worker -> [Role -> NsSec \cup {None}]]
      /\ \A u \in Worker : u # t => have'[u] = have[u]
      /\ have'[t][r] = s /\ \A o \in Role : o # r => have'[t][o] = have[t][o]
  BY HoldFacts
<1>3. SvcTypeOK'
  BY <1>1, <1>2 DEF SvcTypeOK, Places
<1>4. HeldOnTheWay'
  BY <1>1, <1>2, WayKept
<1> QED
  BY <1>3, <1>4 DEF ServicesInv

LEMMA MapNextInv == ASSUME ServicesInv, NEW t \in Worker, MapNext(t) PROVE ServicesInv'
<1>0. SvcTypeOK /\ HeldOnTheWay /\ ReferencesExact
  BY DEF ServicesInv
<1>a. UNCHANGED <<full, plan, blocks, peek, stray, robbed>> /\ at[t] \in {"cmd", "req", "res", "meta"}
  BY DEF MapNext
<1>b. Way(t) /\ at[t] \in Role /\ have[t] \in [Role -> NsSec \cup {None}]
  BY <1>0, <1>a DEF HeldOnTheWay, Way, Role, SvcTypeOK
<1>c. /\ \A r \in Role : NoBuffers[r] = None
      /\ {"cmd", "req", "res", "meta", "data"} \subseteq Role
  BY DEF NoBuffers, Role
<1>1. ASSUME NEW s \in NsSec, map_to_ns(s), Hold(t, at[t], s), Goto(t, After(at[t], full[t]))
      PROVE  ServicesInv'
  <2>1. /\ have[t][at[t]] = None
    BY <1>a, <1>b, <1>c DEF Way
  <2>2. ReferencesExact'
    BY <1>0, <1>1, <1>a, <1>b, <2>1, CountMore, MapExact
  <2> DEFINE l == After(at[t], full[t])
  <2>3. /\ at[t] = "cmd" => l \in {"req", "res", "meta"}
        /\ at[t] = "req" => l \in {"res", "meta"}
        /\ at[t] = "res" => l = "meta"
        /\ at[t] = "meta" => l = "check"
    BY <1>a DEF After
  <2>4. l \in Places
    BY <1>a, <2>3 DEF Places
  <2> HIDE DEF l
  <2>5. ASSUME at'[t] = l, have'[t][at[t]] = s, \A o \in Role : o # at[t] => have'[t][o] = have[t][o]
        PROVE  Way(t)'
    <3>1. CASE at[t] = "cmd"
      BY <1>a, <1>b, <1>c, <2>3, <2>5, <3>1 DEF Way
    <3>2. CASE at[t] = "req"
      BY <1>a, <1>b, <1>c, <2>3, <2>5, <3>2 DEF Way
    <3>3. CASE at[t] = "res"
      BY <1>a, <1>b, <1>c, <2>3, <2>5, <3>3 DEF Way
    <3>4. CASE at[t] = "meta"
      BY <1>a, <1>b, <1>c, <2>3, <2>5, <3>4 DEF Way
    <3> QED
      BY <1>a, <3>1, <3>2, <3>3, <3>4
  <2>6. /\ blocks' \in [Worker -> Nat] /\ \A u \in Worker : u # t => blocks'[u] = blocks[u]
        /\ stray' \in [NsSec -> Nat] /\ UNCHANGED <<peek, robbed>>
    BY <1>0, <1>a DEF SvcTypeOK
  <2>7. nsent' \subseteq NsSec /\ nsref' \in [NsSec -> Nat] /\ noref' \in BOOLEAN
    BY <1>0, <1>1, MapTypes
  <2>8. Goto(t, l)
    BY <1>1 DEF l
  <2> QED
    BY <1>0, <1>1, <1>b, <2>2, <2>4, <2>5, <2>6, <2>7, <2>8, BufferStep
<1>2. ASSUME Goto(t, Refused(at[t])), UNCHANGED <<nsvars, have>> PROVE ServicesInv'
  <2>1. /\ at[t] = "cmd" => Refused(at[t]) = "idle"
        /\ at[t] # "cmd" => Refused(at[t]) = "out"
    BY DEF Refused
  <2>2. Refused(at[t]) \in Places
    BY <2>1 DEF Places
  <2>3. at' \in [Worker -> Places] /\ at'[t] = Refused(at[t]) /\ \A u \in Worker : u # t => at'[u] = at[u]
    BY <1>0, <1>2, <2>2, PlaceFacts
  <2>4. SvcTypeOK'
    BY <1>0, <1>2, <1>a, <2>3 DEF SvcTypeOK, Places, nsvars
  <2>5. Way(t)'
    BY <1>2, <1>a, <1>b, <2>1, <2>3 DEF Way
  <2>6. HeldOnTheWay'
    BY <1>0, <1>2, <1>a, <2>3, <2>5, WayKept
  <2>7. \A q \in NsSec : RefCount(q)' = RefCount(q)
    BY <1>2, <1>a DEF RefCount, Users
  <2> QED
    BY <1>0, <1>2, <1>a, <2>4, <2>6, <2>7, TableKept DEF ServicesInv
<1> QED
  BY <1>1, <1>2 DEF MapNext

\* A command for another session is dropped with what it holds.
LEMMA CheckSessionInv == ASSUME ServicesInv, NEW t \in Worker, CheckSession(t) PROVE ServicesInv'
<1>0. SvcTypeOK /\ HeldOnTheWay /\ ReferencesExact
  BY DEF ServicesInv
<1>a. UNCHANGED <<nsvars, full, blocks, peek, robbed>> /\ at[t] = "check"
  BY DEF CheckSession
<1>b. blocks[t] = 0 /\ have[t].data = None
  BY <1>0, <1>a DEF HeldOnTheWay
<1>1. ASSUME Goto(t, "malloc"), UNCHANGED <<have, stray>> PROVE ServicesInv'
  <2>1. /\ at' \in [Worker -> Places] /\ at'[t] = "malloc"
        /\ \A u \in Worker : u # t => at'[u] = at[u]
    BY <1>0, <1>1, PlaceFacts DEF Places
  <2>2. SvcTypeOK'
    BY <1>0, <1>1, <1>a, <2>1 DEF SvcTypeOK, Places, nsvars
  <2>3. Way(t)'
    BY <2>1 DEF Way
  <2>4. HeldOnTheWay'
    BY <1>0, <1>1, <1>a, <2>1, <2>3, WayKept
  <2>5. \A q \in NsSec : RefCount(q)' = RefCount(q)
    BY <1>1, <1>a DEF RefCount, Users
  <2> QED
    BY <1>0, <1>a, <2>2, <2>4, <2>5, TableKept DEF ServicesInv
<1>2. ASSUME stray' = [s \in NsSec |-> stray[s] + HeldIn(t, s)],
             have' = [have EXCEPT ![t] = NoBuffers], Goto(t, "idle")
      PROVE  ServicesInv'
  <2>1. /\ at' \in [Worker -> Places] /\ at'[t] = "idle"
        /\ \A u \in Worker : u # t => at'[u] = at[u]
    BY <1>0, <1>2, PlaceFacts DEF Places
  <2>2. NoBuffers \in [Role -> NsSec \cup {None}] /\ NoBuffers.data = None
    BY Roles DEF NoBuffers
  <2>3. /\ have' \in [Worker -> [Role -> NsSec \cup {None}]]
        /\ have'[t] = NoBuffers /\ \A u \in Worker : u # t => have'[u] = have[u]
    BY <1>0, <1>2, <2>2 DEF SvcTypeOK
  <2>4. ASSUME NEW q \in NsSec
        PROVE  HeldIn(t, q) \in Nat /\ RefCount(q)' = RefCount(q)
    <3>1. HeldIn(t, q) \in Nat /\ Cardinality(Users(q)') = Cardinality(Users(q)) - HeldIn(t, q)
      BY <1>0, <1>2, HoldNone
    <3>2. stray[q] \in Nat /\ Cardinality(Users(q)) \in Nat
      BY <1>0, UsersFinite DEF SvcTypeOK
    <3>3. stray'[q] = stray[q] + HeldIn(t, q)
      BY <1>2
    <3> QED
      BY <1>a, <3>1, <3>2, <3>3 DEF RefCount
  <2>5. stray' \in [NsSec -> Nat]
    BY <1>0, <1>2, <2>4 DEF SvcTypeOK
  <2>6. SvcTypeOK'
    BY <1>0, <1>a, <2>1, <2>3, <2>5 DEF SvcTypeOK, Places, nsvars
  <2>7. Way(t)'
    BY <1>a, <1>b, <2>1, <2>2, <2>3 DEF Way
  <2>8. HeldOnTheWay'
    BY <1>0, <1>a, <2>1, <2>3, <2>7, WayKept
  <2> QED
    BY <1>0, <1>a, <2>4, <2>6, <2>8, TableKept DEF ServicesInv
<1> QED
  BY <1>1, <1>2 DEF CheckSession

LEMMA DecodeInv == ASSUME ServicesInv, NEW t \in Worker, decode_data(t) PROVE ServicesInv'
<1>0. SvcTypeOK /\ HeldOnTheWay /\ ReferencesExact
  BY DEF ServicesInv
<1>a. UNCHANGED <<full, blocks, peek, stray, robbed>> /\ at[t] = "decode" /\ have[t].data = None
  BY DEF decode_data
<1>b. "data" \in Role /\ {"decode", "free"} \subseteq Places
  BY DEF Role, Places
<1>c. /\ blocks' \in [Worker -> Nat] /\ \A u \in Worker : u # t => blocks'[u] = blocks[u]
      /\ stray' \in [NsSec -> Nat] /\ UNCHANGED <<peek, robbed>>
  BY <1>0, <1>a DEF SvcTypeOK
<1>1. ASSUME NEW s \in NsSec, map_to_ns(s), Hold(t, "data", s), UNCHANGED at \/ Goto(t, "free")
      PROVE  ServicesInv'
  <2>1. ReferencesExact'
    BY <1>0, <1>1, <1>a, <1>b, CountMore, MapExact
  <2>2. nsent' \subseteq NsSec /\ nsref' \in [NsSec -> Nat] /\ noref' \in BOOLEAN
    BY <1>0, <1>1, MapTypes
  <2>3. PICK l \in {"decode", "free"} : Goto(t, l) \/ (UNCHANGED at /\ at[t] = l)
    BY <1>1, <1>a
  <2>4. at'[t] = l => Way(t)'
    BY DEF Way
  <2> QED
    BY <1>0, <1>1, <1>b, <1>c, <2>1, <2>2, <2>3, <2>4, BufferStep
<1>2. ASSUME UNCHANGED <<nsvars, have>>, UNCHANGED at \/ Goto(t, "free") PROVE ServicesInv'
  <2>1. /\ at' \in [Worker -> Places] /\ at'[t] \in {"decode", "free"}
        /\ \A u \in Worker : u # t => at'[u] = at[u]
    <3>1. CASE UNCHANGED at
      BY <1>0, <1>a, <3>1 DEF SvcTypeOK, Places
    <3>2. CASE Goto(t, "free")
      BY <1>0, <1>b, <3>2, PlaceFacts
    <3> QED
      BY <1>2, <3>1, <3>2
  <2>2. SvcTypeOK'
    BY <1>0, <1>2, <1>a, <2>1 DEF SvcTypeOK, Places, nsvars
  <2>3. Way(t)'
    BY <2>1 DEF Way
  <2>4. HeldOnTheWay'
    BY <1>0, <1>2, <1>a, <2>1, <2>3, WayKept
  <2>5. \A q \in NsSec : RefCount(q)' = RefCount(q)
    BY <1>2, <1>a DEF RefCount, Users
  <2> QED
    BY <1>0, <1>2, <1>a, <2>2, <2>4, <2>5, TableKept DEF ServicesInv
<1> QED
  BY <1>1, <1>2 DEF decode_data

LEMMA UseInv == ASSUME ServicesInv, NEW t \in Worker, Use(t) PROVE ServicesInv'
<1>0. SvcTypeOK /\ HeldOnTheWay /\ ReferencesExact
  BY DEF ServicesInv
<1>a. /\ UNCHANGED <<full, blocks, peek, robbed>> /\ at[t] = "decode" /\ have[t].data # None
      /\ Hold(t, "data", None)
  BY DEF Use
<1>b. "data" \in Role /\ {"decode", "free"} \subseteq Places
  BY DEF Role, Places
<1>c. /\ blocks' \in [Worker -> Nat] /\ \A u \in Worker : u # t => blocks'[u] = blocks[u]
      /\ UNCHANGED <<peek, robbed>>
  BY <1>0, <1>a DEF SvcTypeOK
<1>d. have[t]["data"] \in NsSec
  BY <1>0, <1>a, <1>b, HaveType
<1>1. ASSUME unmap_from_ns(have[t].data), UNCHANGED <<at, stray>> PROVE ServicesInv'
  <2>1. ReferencesExact'
    BY <1>0, <1>1, <1>a, <1>b, <1>d, CountLess, UnmapExact
  <2>2. nsent' \subseteq NsSec /\ nsref' \in [NsSec -> Nat] /\ noref' \in BOOLEAN
    BY <1>0, <1>1, <1>d, MapTypes
  <2>3. at'[t] = "decode" => Way(t)'
    BY DEF Way
  <2>4. stray' \in [NsSec -> Nat]
    BY <1>0, <1>1 DEF SvcTypeOK
  <2> QED
    BY <1>0, <1>1, <1>a, <1>b, <1>c, <2>1, <2>2, <2>3, <2>4, BufferStep
<1>2. ASSUME stray' = [stray EXCEPT ![have[t].data] = stray[have[t].data] + 1],
             UNCHANGED at \/ Goto(t, "free"), UNCHANGED nsvars
      PROVE  ServicesInv'
  <2>1. ReferencesExact'
    BY <1>0, <1>2, <1>a, <1>b, <1>d, CountStray, TableKept
  <2>2. nsent' \subseteq NsSec /\ nsref' \in [NsSec -> Nat] /\ noref' \in BOOLEAN
    BY <1>0, <1>2 DEF SvcTypeOK, nsvars
  <2>3. PICK l \in {"decode", "free"} : Goto(t, l) \/ (UNCHANGED at /\ at[t] = l)
    BY <1>2, <1>a
  <2>4. at'[t] = l => Way(t)'
    BY DEF Way
  <2>5. stray' \in [NsSec -> Nat]
    BY <1>0, <1>2, <1>d DEF SvcTypeOK
  <2> QED
    BY <1>0, <1>a, <1>b, <1>c, <2>1, <2>2, <2>3, <2>4, <2>5, BufferStep
<1> QED
  BY <1>1, <1>2 DEF Use

LEMMA UseSecureInv == ASSUME ServicesInv, NEW t \in Worker, UseSecure(t) PROVE ServicesInv'
<1>0. SvcTypeOK /\ HeldOnTheWay /\ ReferencesExact
  BY DEF ServicesInv
<1>1. UNCHANGED <<at, have, full, blocks, peek, stray>>
  BY DEF UseSecure
<1>2. HeldOnTheWay' /\ \A q \in NsSec : RefCount(q)' = RefCount(q)
  BY <1>0, <1>1 DEF HeldOnTheWay, RefCount, Users
<1>3. ASSUME NEW s \in NsSec, unmap_from_ns(s),
             robbed' = IF nsref[s] > 0 THEN robbed \cup {s} ELSE robbed
      PROVE  ServicesInv'
  <2>1. nsent' \subseteq NsSec /\ nsref' \in [NsSec -> Nat] /\ noref' \in BOOLEAN
    BY <1>0, <1>3, MapTypes
  <2>2. SvcTypeOK'
    BY <1>0, <1>1, <1>3, <2>1 DEF SvcTypeOK
  <2>3. ReferencesExact'
    BY <1>0, <1>2, <1>3, UnmapExact
  <2> QED
    BY <1>2, <2>2, <2>3 DEF ServicesInv
<1>4. ASSUME UNCHANGED <<nsvars, robbed>> PROVE ServicesInv'
  <2>1. SvcTypeOK'
    BY <1>0, <1>1, <1>4 DEF SvcTypeOK, nsvars
  <2> QED
    BY <1>0, <1>2, <1>4, <2>1, TableKept DEF ServicesInv
<1> QED
  BY <1>3, <1>4 DEF UseSecure

LEMMA HandlerExitInv == ASSUME ServicesInv, NEW t \in Worker, HandlerExit(t) PROVE ServicesInv'
<1>0. SvcTypeOK /\ HeldOnTheWay /\ ReferencesExact
  BY DEF ServicesInv
<1>a. /\ UNCHANGED <<nsvars, full, peek, robbed>> /\ at[t] = "free" /\ Hold(t, "data", None)
      /\ Goto(t, "out") /\ blocks' = [blocks EXCEPT ![t] = 0]
      /\ stray' = IF have[t].data = None THEN stray
                  ELSE [stray EXCEPT ![have[t].data] = stray[have[t].data] + 1]
  BY DEF HandlerExit
<1>b. "data" \in Role /\ "out" \in Places
  BY DEF Role, Places
<1>c. /\ blocks' \in [Worker -> Nat] /\ \A u \in Worker : u # t => blocks'[u] = blocks[u]
      /\ blocks'[t] = 0
  BY <1>0, <1>a DEF SvcTypeOK
<1>d. have[t]["data"] \in NsSec \cup {None}
  BY <1>0, <1>b, HaveType
<1>1. /\ stray' \in [NsSec -> Nat]
      /\ \A q \in NsSec : RefCount(q)' = RefCount(q)
  <2>1. CASE have[t]["data"] = None
    <3>1. have[t] \in [Role -> NsSec \cup {None}] /\ have \in [Worker -> [Role -> NsSec \cup {None}]]
      BY <1>0, HaveType DEF SvcTypeOK
    <3>2. have' = [have EXCEPT ![t] = [have[t] EXCEPT !["data"] = None]]
      BY <1>a DEF Hold
    <3>3. [have[t] EXCEPT !["data"] = None] = have[t]
      BY <2>1, <3>1
    <3>4. have' = have
      BY <3>1, <3>2, <3>3
    <3> QED
      BY <1>0, <1>a, <2>1, <3>4 DEF RefCount, Users, SvcTypeOK
  <2>2. CASE have[t]["data"] # None
    <3>1. have[t]["data"] \in NsSec
      BY <1>d, <2>2
    <3>2. stray' = [stray EXCEPT ![have[t]["data"]] = stray[have[t]["data"]] + 1]
      BY <1>a, <2>2
    <3>3. stray' \in [NsSec -> Nat]
      BY <1>0, <3>1, <3>2 DEF SvcTypeOK
    <3> QED
      BY <1>0, <1>a, <1>b, <3>1, <3>2, <3>3, CountStray
  <2> QED
    BY <2>1, <2>2
<1>2. ReferencesExact'
  BY <1>0, <1>1, <1>a, TableKept
<1>3. nsent' \subseteq NsSec /\ nsref' \in [NsSec -> Nat] /\ noref' \in BOOLEAN
  BY <1>0, <1>a DEF SvcTypeOK, nsvars
<1>4. at'[t] = "out" /\ have'[t]["data"] = None => Way(t)'
  BY <1>c DEF Way
<1> QED
  BY <1>0, <1>1, <1>2, <1>3, <1>4, <1>a, <1>b, <1>c, BufferStep

LEMMA HandleErrInv == ASSUME ServicesInv, NEW t \in Worker, handle_err(t) PROVE ServicesInv'
<1>0. SvcTypeOK /\ HeldOnTheWay /\ ReferencesExact
  BY DEF ServicesInv
<1>a. UNCHANGED <<full, plan, blocks, peek, stray, robbed>> /\ at[t] = "out"
  BY DEF handle_err
<1>b. blocks[t] = 0 /\ have[t].data = None
  BY <1>0, <1>a DEF HeldOnTheWay
<1>1. ASSUME have[t] = NoBuffers, Goto(t, "idle"), UNCHANGED <<nsvars, have>> PROVE ServicesInv'
  <2>1. /\ at' \in [Worker -> Places] /\ at'[t] = "idle"
        /\ \A u \in Worker : u # t => at'[u] = at[u]
    BY <1>0, <1>1, PlaceFacts DEF Places
  <2>2. SvcTypeOK'
    BY <1>0, <1>1, <1>a, <2>1 DEF SvcTypeOK, Places, nsvars
  <2>3. Way(t)'
    BY <1>1, <1>a, <1>b, <2>1 DEF Way
  <2>4. HeldOnTheWay'
    BY <1>0, <1>1, <1>a, <2>1, <2>3, WayKept
  <2>5. \A q \in NsSec : RefCount(q)' = RefCount(q)
    BY <1>1, <1>a DEF RefCount, Users
  <2> QED
    BY <1>0, <1>1, <1>a, <2>2, <2>4, <2>5, TableKept DEF ServicesInv
<1>2. ASSUME have[t] # NoBuffers, unmap_from_ns(have[t][LastMapped(t)]), Hold(t, LastMapped(t), None),
             UNCHANGED at
      PROVE  ServicesInv'
  <2> DEFINE r == LastMapped(t)
  <2>1. /\ r \in {"cmd", "req", "res", "meta"} /\ r \in Role
        /\ r = "cmd" => have[t].req = None /\ have[t].res = None /\ have[t].meta = None
        /\ r # "cmd" => have[t][r] # None
    BY DEF LastMapped, Role
  <2> HIDE DEF r
  <2>2. have[t] \in [Role -> NsSec \cup {None}]
    BY <1>0, HaveType
  <2>3. have[t][r] # None
    <3>1. CASE r = "cmd"
      <4>1. ASSUME have[t]["cmd"] = None PROVE have[t] = NoBuffers
        BY <1>b, <2>1, <2>2, <3>1, <4>1 DEF NoBuffers, Role
      <4> QED
        BY <1>2, <3>1, <4>1
    <3> QED
      BY <2>1, <3>1
  <2>4. have[t][r] \in NsSec
    BY <2>1, <2>2, <2>3
  <2>5. unmap_from_ns(have[t][r]) /\ Hold(t, r, None)
    BY <1>2 DEF r
  <2>6. ReferencesExact'
    BY <1>0, <1>a, <2>1, <2>4, <2>5, CountLess, UnmapExact
  <2>7. nsent' \subseteq NsSec /\ nsref' \in [NsSec -> Nat] /\ noref' \in BOOLEAN
    BY <1>0, <2>4, <2>5, MapTypes
  <2>8. /\ blocks' \in [Worker -> Nat] /\ \A u \in Worker : u # t => blocks'[u] = blocks[u]
        /\ stray' \in [NsSec -> Nat] /\ UNCHANGED <<peek, robbed>>
    BY <1>0, <1>a DEF SvcTypeOK
  <2>9. at'[t] = "out" /\ (\A o \in Role : o # r => have'[t][o] = have[t][o]) => Way(t)'
    BY <1>a, <1>b, <2>1, Roles DEF Way
  <2>10. "out" \in Places
    BY DEF Places
  <2> QED
    BY <1>0, <1>2, <1>a, <2>1, <2>5, <2>6, <2>7, <2>8, <2>9, <2>10, BufferStep
<1> QED
  BY <1>1, <1>2 DEF handle_err

LEMMA PeekInv == ASSUME ServicesInv, get_api_context PROVE ServicesInv'
<1>0. SvcTypeOK /\ HeldOnTheWay /\ ReferencesExact
  BY DEF ServicesInv
<1>a. UNCHANGED <<at, have, full, plan, blocks, stray, robbed>>
  BY DEF get_api_context
<1>b. ASSUME NEW q \in NsSec
      PROVE  /\ Users(q)' = Users(q) /\ stray'[q] = stray[q] /\ q # None
             /\ stray[q] \in Nat /\ Cardinality(Users(q)) \in Nat
  BY <1>0, <1>a, UsersFinite, ServicesAssumption DEF Users, SvcTypeOK
<1>1. ASSUME peek = None, NEW s \in NsSec, map_to_ns(s), peek' = s PROVE ServicesInv'
  <2>1. \A q \in NsSec : RefCount(q)' = IF q = s THEN RefCount(q) + 1 ELSE RefCount(q)
    BY <1>1, <1>b DEF RefCount
  <2>2. ReferencesExact'
    BY <1>0, <1>a, <1>1, <2>1, MapExact
  <2>3. SvcTypeOK'
    BY <1>0, <1>1, <1>a, MapTypes DEF SvcTypeOK
  <2> QED
    BY <1>0, <1>a, <2>2, <2>3 DEF ServicesInv, HeldOnTheWay
<1>2. ASSUME peek # None, unmap_from_ns(peek), peek' = None PROVE ServicesInv'
  <2>0. peek \in NsSec
    BY <1>0, <1>2 DEF SvcTypeOK
  <2>1. /\ \A q \in NsSec : RefCount(q)' = IF q = peek THEN RefCount(q) - 1 ELSE RefCount(q)
        /\ RefCount(peek) > 0
    BY <1>2, <1>b, <2>0 DEF RefCount
  <2>2. ReferencesExact'
    BY <1>0, <1>a, <1>2, <2>0, <2>1, UnmapExact
  <2>3. SvcTypeOK'
    BY <1>0, <1>2, <1>a, <2>0, MapTypes DEF SvcTypeOK
  <2> QED
    BY <1>0, <1>a, <2>2, <2>3 DEF ServicesInv, HeldOnTheWay
<1> QED
  BY <1>1, <1>2 DEF get_api_context

LEMMA ServicesStepInv == ServicesInv /\ [ServicesNext]_svcvars => ServicesInv'
<1>1. ASSUME ServicesInv, UNCHANGED svcvars PROVE ServicesInv'
  <2>1. UNCHANGED <<nsent, nsref, noref, at, have, blocks, peek, stray, robbed>>
    BY <1>1 DEF svcvars, nsvars
  <2>2. SvcTypeOK' /\ HeldOnTheWay'
    BY <1>1, <2>1 DEF ServicesInv, SvcTypeOK, HeldOnTheWay
  <2>3. \A q \in NsSec : RefCount(q)' = RefCount(q)
    BY <2>1 DEF RefCount, Users
  <2>4. ReferencesExact'
    BY <1>1, <2>1, <2>3, TableKept DEF ServicesInv, nsvars
  <2> QED
    BY <2>2, <2>4 DEF ServicesInv
<1>2. ASSUME ServicesInv, ServicesNext PROVE ServicesInv'
  BY <1>2, MoveInv, MapNextInv, CheckSessionInv, DecodeInv, UseInv, UseSecureInv,
     HandlerExitInv, HandleErrInv, PeekInv DEF ServicesNext
<1> QED
  BY <1>1, <1>2

\* However many services preempt one another between the calls of
\* process_otzapi and of their handlers, and whichever way each handler is
\* left, a section of Linux's memory has as many references as it has users
\* and abandoned mappings, or fewer once a handler has released one that it did
\* not have, for a secure reference, and a task that has answered holds no work block
\* and no buffer.
THEOREM ReferencesCounted == ServicesSpec => []ServicesExact
<1>1. ServicesInv => ServicesExact
  BY DEF ServicesInv, HeldOnTheWay, ServicesExact, AnsweredClean
<1> QED
  BY <1>1, ServicesInitInv, ServicesStepInv, PTL DEF ServicesSpec

----------------------------------------------------------------------------
(* The links of a device.                                                  *)

\* Lists of descriptors, one for each live task, and the places of a device.
Lists == {L \in UNION {[A -> Seq(Device)] : A \in SUBSET DevTask} :
             \A t \in DOMAIN L : Len(L[t]) <= MaxFd}
LinkPlaces(L, d) ==
    {x \in (DOMAIN L) \X (1 .. MaxFd) : x[2] <= Len(L[x[1]]) /\ L[x[1]][x[2]] = d}

LEMMA ListType ==
    ASSUME NEW L \in Lists
    PROVE  /\ DOMAIN L \subseteq DevTask /\ L \in [DOMAIN L -> Seq(Device)]
           /\ \A t \in DOMAIN L : /\ L[t] \in Seq(Device) /\ Len(L[t]) \in Nat
                                  /\ Len(L[t]) <= MaxFd /\ DOMAIN L[t] = 1 .. Len(L[t])
BY DEF Lists

LEMMA PlacesFinite ==
    ASSUME NEW L \in Lists, NEW d
    PROVE  IsFiniteSet(LinkPlaces(L, d)) /\ Cardinality(LinkPlaces(L, d)) \in Nat
<1>1. IsFiniteSet(1 .. MaxFd)
  BY DeviceAssumption, FS_Interval
<1>2. IsFiniteSet(DOMAIN L)
  BY DeviceAssumption, ListType, FS_Subset
<1>3. IsFiniteSet((DOMAIN L) \X (1 .. MaxFd))
  BY <1>1, <1>2, FS_Product
<1>4. LinkPlaces(L, d) \in SUBSET ((DOMAIN L) \X (1 .. MaxFd))
  BY DEF LinkPlaces
<1>5. IsFiniteSet(LinkPlaces(L, d))
  BY <1>3, <1>4, FS_Subset
<1> QED
  BY <1>5, FS_CardinalityType

\* A place by its task and its number.
LEMMA PlaceIn ==
    ASSUME NEW L \in Lists, NEW d, NEW u \in DOMAIN L, NEW i \in 1 .. MaxFd
    PROVE  <<u, i>> \in LinkPlaces(L, d) <=> i <= Len(L[u]) /\ L[u][i] = d
BY DEF LinkPlaces

\* Sets of pairs are equal when they have the same pairs.
LEMMA SamePairs ==
    ASSUME NEW D, NEW R, NEW S \in SUBSET (D \X R), NEW T \in SUBSET (D \X R),
           \A u \in D, i \in R : <<u, i>> \in S <=> <<u, i>> \in T
    PROVE  S = T
<1>1. \A x \in D \X R : x[1] \in D /\ x[2] \in R /\ x = <<x[1], x[2]>>
  OBVIOUS
<1>2. \A x \in D \X R : x \in S <=> x \in T
  BY <1>1
<1> QED
  BY <1>2

\* An open adds a place at the end of a list ...
LEMMA PlacesAppend ==
    ASSUME NEW L \in Lists, NEW t \in DOMAIN L, NEW d \in Device, Len(L[t]) < MaxFd
    PROVE  LET M == [L EXCEPT ![t] = Append(L[t], d)]
           IN  /\ M \in Lists /\ DOMAIN M = DOMAIN L
               /\ \A e \in Device : Cardinality(LinkPlaces(M, e))
                                      = Cardinality(LinkPlaces(L, e)) + (IF e = d THEN 1 ELSE 0)
<1> DEFINE M == [L EXCEPT ![t] = Append(L[t], d)]
           n == Len(L[t]) + 1
<1>0. MaxFd \in Nat
  BY DeviceAssumption
<1>1. Append(L[t], d) \in Seq(Device) /\ Len(Append(L[t], d)) = n /\ n \in 1 .. MaxFd
      /\ \A i \in 1 .. Len(L[t]) : Append(L[t], d)[i] = L[t][i]
      /\ Append(L[t], d)[n] = d
  BY <1>0, ListType
<1>2. DOMAIN M = DOMAIN L /\ M[t] = Append(L[t], d) /\ \A u \in DOMAIN L : u # t => M[u] = L[u]
  BY ListType
<1>3. M \in Lists
  <2>1. M \in [DOMAIN L -> Seq(Device)]
    BY <1>1, ListType
  <2>2. \A u \in DOMAIN M : Len(M[u]) <= MaxFd
    BY <1>0, <1>1, <1>2, ListType
  <2> QED
    BY <2>1, <2>2, ListType DEF Lists
<1> HIDE DEF M
<1>4. ASSUME NEW e \in Device
      PROVE  Cardinality(LinkPlaces(M, e)) = Cardinality(LinkPlaces(L, e)) + (IF e = d THEN 1 ELSE 0)
  <2>1. ASSUME NEW u \in DOMAIN L, NEW i \in 1 .. MaxFd
        PROVE  <<u, i>> \in LinkPlaces(M, e) <=>
                  <<u, i>> \in LinkPlaces(L, e) \/ (e = d /\ u = t /\ i = n)
    <3>1. <<u, i>> \in LinkPlaces(M, e) <=> i <= Len(M[u]) /\ M[u][i] = e
      BY <1>2, <1>3, PlaceIn
    <3>2. <<u, i>> \in LinkPlaces(L, e) <=> i <= Len(L[u]) /\ L[u][i] = e
      BY PlaceIn
    <3>3. CASE u # t
      BY <3>1, <3>2, <3>3, <1>2
    <3>4. CASE u = t
      <4>1. M[t] = Append(L[t], d) /\ Len(M[t]) = n /\ M[t][n] = d /\ Len(L[t]) \in Nat
            /\ \A j \in 1 .. Len(L[t]) : M[t][j] = L[t][j]
        BY <1>1, <1>2, ListType
      <4>2. CASE i = n
        BY <3>1, <3>2, <3>4, <4>1, <4>2
      <4>3. CASE i # n
        <5>1. i <= n <=> i <= Len(L[t])
          BY <4>1, <4>3
        <5>2. i <= Len(L[t]) => M[t][i] = L[t][i]
          BY <4>1
        <5> QED
          BY <3>1, <3>2, <3>4, <4>1, <4>3, <5>1, <5>2
      <4> QED
        BY <4>2, <4>3
    <3> QED
      BY <3>3, <3>4
  <2>2. LinkPlaces(M, e) \subseteq (DOMAIN L) \X (1 .. MaxFd) /\ LinkPlaces(L, e) \subseteq (DOMAIN L) \X (1 .. MaxFd)
    BY <1>2 DEF LinkPlaces
  <2>3. ASSUME e # d PROVE LinkPlaces(M, e) = LinkPlaces(L, e)
    <3>1. \A u \in DOMAIN L, i \in 1 .. MaxFd : <<u, i>> \in LinkPlaces(M, e) <=> <<u, i>> \in LinkPlaces(L, e)
      BY <2>1, <2>3
    <3>2. LinkPlaces(M, e) \in SUBSET ((DOMAIN L) \X (1 .. MaxFd)) /\ LinkPlaces(L, e) \in SUBSET ((DOMAIN L) \X (1 .. MaxFd))
      BY <2>2
    <3> DEFINE S == LinkPlaces(M, e)
               T == LinkPlaces(L, e)
    <3> HIDE DEF S, T
    <3>3. S \in SUBSET ((DOMAIN L) \X (1 .. MaxFd)) /\ T \in SUBSET ((DOMAIN L) \X (1 .. MaxFd))
          /\ \A u \in DOMAIN L, i \in 1 .. MaxFd : <<u, i>> \in S <=> <<u, i>> \in T
      BY <3>1, <3>2 DEF S, T
    <3>4. S = T
      <4>1. \A x \in (DOMAIN L) \X (1 .. MaxFd) : x[1] \in DOMAIN L /\ x[2] \in 1 .. MaxFd /\ x = <<x[1], x[2]>>
        OBVIOUS
      <4>2. \A x \in (DOMAIN L) \X (1 .. MaxFd) : x \in S <=> x \in T
        BY <3>3, <4>1
      <4> QED
        BY <3>3, <4>2, Zenon
    <3> QED
      BY <3>4 DEF S, T
  <2>4. e = d => LinkPlaces(M, e) = LinkPlaces(L, e) \cup {<<t, n>>}
    BY <1>1, <2>1, <2>2
  <2>5. <<t, n>> \notin LinkPlaces(L, e)
    <3>1. ~ (n <= Len(L[t]))
      BY ListType
    <3> QED
      BY <1>1, <3>1, PlaceIn
  <2> HIDE DEF n
  <2>6. Cardinality(LinkPlaces(L, e) \cup {<<t, n>>}) = Cardinality(LinkPlaces(L, e)) + 1
    BY <2>5, PlacesFinite, FS_AddElement
  <2>7. Cardinality(LinkPlaces(L, e)) \in Nat
    BY PlacesFinite
  <2>8. CASE e = d
    BY <2>4, <2>6, <2>8
  <2>9. CASE e # d
    BY <2>3, <2>7, <2>9
  <2> QED
    BY <2>8, <2>9
<1> QED
  BY <1>2, <1>3, <1>4 DEF M

\* A list that lost a node holds what it held before.
LEMMA RemovedFrom ==
    ASSUME NEW S, NEW s \in Seq(S), NEW k \in DOMAIN s
    PROVE  \A i \in DOMAIN RemoveAt(s, k) : \E j \in DOMAIN s : RemoveAt(s, k)[i] = s[j]
<1> DEFINE r == RemoveAt(s, k)
           n == Len(s)
<1>1. r \in Seq(S) /\ Len(r) = n - 1 /\ n \in Nat /\ DOMAIN s = 1 .. n
      /\ \A i \in 1 .. (n - 1) : r[i] = IF i < k THEN s[i] ELSE s[i + 1]
  BY RemoveAtFacts
<1> HIDE DEF r
<1> SUFFICES ASSUME NEW i \in DOMAIN r PROVE \E j \in DOMAIN s : r[i] = s[j]
  BY DEF r
<1>2. i \in 1 .. (n - 1)
  BY <1>1
<1>3. i \in DOMAIN s /\ i + 1 \in DOMAIN s
  BY <1>1, <1>2
<1> QED
  BY <1>1, <1>2, <1>3

\* ... a close removes the place of a link, and those behind it move up ...
LEMMA PlacesRemove ==
    ASSUME NEW L \in Lists, NEW t \in DOMAIN L, NEW k \in DOMAIN L[t],
           NEW d \in Device, L[t][k] = d,
           NEW M \in [DOMAIN L -> Seq(Device)], M[t] = RemoveAt(L[t], k),
           \A u \in DOMAIN L : u # t => M[u] = L[u]
    PROVE  /\ M \in Lists /\ DOMAIN M = DOMAIN L
           /\ \A e \in Device : Cardinality(LinkPlaces(M, e))
                                  = Cardinality(LinkPlaces(L, e)) - (IF e = d THEN 1 ELSE 0)
<1> DEFINE n == Len(L[t])
           r == RemoveAt(L[t], k)
<1>0. MaxFd \in Nat /\ n \in Nat /\ n <= MaxFd /\ k \in 1 .. n /\ L[t] \in Seq(Device)
  BY DeviceAssumption, ListType
<1>1. r \in Seq(Device) /\ Len(r) = n - 1
      /\ \A i \in 1 .. (n - 1) : r[i] = IF i < k THEN L[t][i] ELSE L[t][i + 1]
  BY <1>0, RemoveAtFacts
<1>2. DOMAIN M = DOMAIN L /\ M[t] = r /\ \A u \in DOMAIN L : u # t => M[u] = L[u]
  BY ListType
<1> HIDE DEF r
<1>3. M \in Lists
  <2>1. M \in [DOMAIN L -> Seq(Device)]
    BY <1>1, <1>2, ListType
  <2>2. \A u \in DOMAIN M : Len(M[u]) <= MaxFd
    <3>1. Len(M[t]) <= MaxFd
      BY <1>0, <1>1, <1>2
    <3>2. \A u \in DOMAIN L : Len(L[u]) <= MaxFd
      BY ListType
    <3> QED
      BY <1>2, <3>1, <3>2
  <2> QED
    BY <2>1, <2>2, ListType DEF Lists
<1>4. ASSUME NEW e \in Device
      PROVE  Cardinality(LinkPlaces(M, e))
               = Cardinality(LinkPlaces(L, e)) - (IF e = d THEN 1 ELSE 0)
  <2> DEFINE S == LinkPlaces(M, e)
             T == LinkPlaces(L, e) \ {<<t, k>>}
             o(x) == IF x[1] = t /\ x[2] >= k THEN <<t, x[2] + 1>> ELSE x
             f == [x \in S |-> o(x)]
  <2>0. \A x \in (DOMAIN L) \X (1 .. MaxFd) :
           x[1] \in DOMAIN L /\ x[2] \in 1 .. MaxFd /\ x = <<x[1], x[2]>>
    OBVIOUS
  <2>1. S \subseteq (DOMAIN L) \X (1 .. MaxFd) /\ LinkPlaces(L, e) \subseteq (DOMAIN L) \X (1 .. MaxFd)
    BY <1>2 DEF LinkPlaces
  <2>2. ASSUME NEW u \in DOMAIN L, NEW i \in 1 .. MaxFd
        PROVE  /\ <<u, i>> \in S <=> i <= Len(M[u]) /\ M[u][i] = e
               /\ <<u, i>> \in LinkPlaces(L, e) <=> i <= Len(L[u]) /\ L[u][i] = e
    BY <1>2, <1>3, PlaceIn
  <2>3. ASSUME NEW u \in DOMAIN L, u # t, NEW i \in 1 .. MaxFd
        PROVE  <<u, i>> \in S <=> <<u, i>> \in T
    BY <1>2, <2>2, <2>3
  <2>4. ASSUME NEW i \in 1 .. MaxFd, i < k
        PROVE  <<t, i>> \in S <=> <<t, i>> \in T
    <3>1. i \in 1 .. (n - 1) /\ i <= n /\ i # k
      BY <1>0, <2>4
    <3>2. M[t][i] = L[t][i] /\ i <= Len(M[t])
      BY <1>0, <1>1, <1>2, <3>1, <2>4
    <3>3. <<t, i>> # <<t, k>>
      BY <3>1
    <3> QED
      BY <2>2, <3>1, <3>2, <3>3
  <2>5. ASSUME NEW i \in 1 .. MaxFd, i >= k
        PROVE  <<t, i>> \in S <=> i + 1 \in 1 .. MaxFd /\ <<t, i + 1>> \in T
    <3>1. CASE i <= n - 1
      <4>1. i \in 1 .. (n - 1) /\ i + 1 \in 1 .. MaxFd /\ i + 1 <= n /\ i + 1 # k
        BY <1>0, <2>5, <3>1
      <4>2. M[t][i] = L[t][i + 1] /\ i <= Len(M[t])
        BY <1>0, <1>1, <1>2, <4>1, <2>5
      <4>3. <<t, i + 1>> # <<t, k>>
        BY <4>1
      <4> QED
        BY <2>2, <4>1, <4>2, <4>3
    <3>2. CASE ~ (i <= n - 1)
      <4>1. ~ (i <= Len(M[t])) /\ ~ (i + 1 <= Len(L[t]))
        BY <1>0, <1>1, <1>2, <3>2
      <4>2. <<t, i>> \notin S
        BY <2>2, <4>1
      <4>3. i + 1 \in 1 .. MaxFd => <<t, i + 1>> \notin LinkPlaces(L, e)
        BY <2>2, <4>1
      <4> QED
        BY <4>2, <4>3
    <3> QED
      BY <3>1, <3>2
  <2>6. T \subseteq (DOMAIN L) \X (1 .. MaxFd) /\ <<t, k>> \notin T
    BY <2>1
  <2> HIDE DEF S, T
  <2>7. ASSUME NEW x \in S PROVE o(x) \in T
    <3>1. x[1] \in DOMAIN L /\ x[2] \in 1 .. MaxFd /\ x = <<x[1], x[2]>>
      BY <2>0, <2>1
    <3>2. CASE x[1] # t
      BY <2>3, <3>1, <3>2
    <3>3. CASE x[1] = t /\ x[2] < k
      <4>a. x[2] \in Int /\ k \in Int
        BY <1>0, <3>1
      <4>b. ~ (x[2] >= k)
        BY <3>3, <4>a
      <4>c. <<t, x[2]>> \in S
        BY <3>1, <3>3, Zenon
      <4>1. ~ (x[2] >= k) /\ <<t, x[2]>> \in S
        BY <4>b, <4>c
      <4>2. <<t, x[2]>> \in T
        BY <2>4, <3>1, <3>3, <4>1
      <4> QED
        BY <3>1, <3>3, <4>1, <4>2
    <3>4. CASE x[1] = t /\ x[2] >= k
      BY <2>5, <3>1, <3>4
    <3> QED
      BY <1>0, <3>1, <3>2, <3>3, <3>4
  <2>8. ASSUME NEW x \in S, NEW y \in S, o(x) = o(y) PROVE x = y
    <3>1. /\ x[1] \in DOMAIN L /\ x[2] \in 1 .. MaxFd /\ x = <<x[1], x[2]>>
          /\ y[1] \in DOMAIN L /\ y[2] \in 1 .. MaxFd /\ y = <<y[1], y[2]>>
      BY <2>0, <2>1
    <3>2. /\ o(x)[1] = x[1] /\ o(y)[1] = y[1]
          /\ o(x)[2] = IF x[1] = t /\ x[2] >= k THEN x[2] + 1 ELSE x[2]
          /\ o(y)[2] = IF y[1] = t /\ y[2] >= k THEN y[2] + 1 ELSE y[2]
      BY <3>1
    <3> HIDE DEF o
    <3>3. x[1] = y[1] /\ x[2] = y[2]
      BY <1>0, <2>8, <3>1, <3>2
    <3> QED
      BY <3>1, <3>3
  <2>9. ASSUME NEW y \in T PROVE \E x \in S : o(x) = y
    <3>1. y[1] \in DOMAIN L /\ y[2] \in 1 .. MaxFd /\ y = <<y[1], y[2]>>
      BY <2>0, <2>6
    <3>2. CASE y[1] # t
      <4>1. y \in S /\ o(y) = y
        BY <2>3, <3>1, <3>2
      <4> QED
        BY <4>1
    <3>3. CASE y[1] = t /\ y[2] < k
      <4>a. y[2] \in Int /\ k \in Int
        BY <1>0, <3>1
      <4>b. ~ (y[2] >= k)
        BY <3>3, <4>a
      <4>c. <<t, y[2]>> \in T
        BY <3>1, <3>3, Zenon
      <4>1. ~ (y[2] >= k) /\ <<t, y[2]>> \in T
        BY <4>b, <4>c
      <4>2. y \in S /\ o(y) = y
        BY <2>4, <3>1, <3>3, <4>1
      <4> QED
        BY <4>2
    <3>4. CASE y[1] = t /\ ~ (y[2] < k)
      <4> DEFINE i == y[2] - 1
      <4>1. y[2] # k
        BY <2>6, <3>1, <3>4
      <4>2. i \in 1 .. MaxFd /\ i >= k /\ i + 1 = y[2]
        BY <1>0, <3>1, <3>4, <4>1
      <4> HIDE DEF i
      <4>3. <<t, i>> \in S
        BY <2>5, <3>1, <3>4, <4>2
      <4>4. o(<<t, i>>) = y
        BY <3>1, <3>4, <4>2
      <4> QED
        BY <4>3, <4>4
    <3> QED
      BY <3>2, <3>3, <3>4
  <2> HIDE DEF o
  <2>10. f \in Bijection(S, T)
    <3>1. f \in [S -> T]
      BY <2>7
    <3>2. IsInjective(f)
      BY <2>8 DEF IsInjective
    <3>3. \A y \in T : \E x \in S : f[x] = y
      BY <2>9
    <3> QED
      BY <3>1, <3>2, <3>3 DEF Bijection, Injection, Surjection
  <2>11. IsFiniteSet(S)
    BY <1>3, PlacesFinite DEF S
  <2>12. Cardinality(T) = Cardinality(S)
    BY <2>10, <2>11, FS_Bijection DEF ExistsBijection
  <2>13. <<t, k>> \in LinkPlaces(L, e) <=> e = d
    BY <1>0, <2>2
  <2>14. Cardinality(T) = IF e = d THEN Cardinality(LinkPlaces(L, e)) - 1
                          ELSE Cardinality(LinkPlaces(L, e))
    BY <2>13, PlacesFinite, FS_RemoveElement DEF T
  <2>15. Cardinality(LinkPlaces(L, e)) \in Nat
    BY PlacesFinite
  <2> QED
    BY <2>12, <2>14, <2>15 DEF S
<1> QED
  BY <1>2, <1>3, <1>4

\* ... the destruction of a task removes all its places ...
LEMMA PlacesDestroy ==
    ASSUME NEW L \in Lists, NEW t \in DOMAIN L
    PROVE  LET M == [x \in (DOMAIN L) \ {t} |-> L[x]]
           IN  /\ M \in Lists
               /\ \A e \in Device : /\ Counted(L[t])[e] \in Nat
                                    /\ Cardinality(LinkPlaces(M, e))
                                         = Cardinality(LinkPlaces(L, e)) - Counted(L[t])[e]
               /\ Len(L[t]) = Counted(L[t])["uart"] + Counted(L[t])["fb"]
<1> DEFINE M == [x \in (DOMAIN L) \ {t} |-> L[x]]
           n == Len(L[t])
           C(e) == {k \in DOMAIN L[t] : L[t][k] = e}
<1>0. MaxFd \in Nat /\ n \in Nat /\ n <= MaxFd /\ DOMAIN L[t] = 1 .. n /\ L[t] \in Seq(Device)
  BY DeviceAssumption, ListType
<1>1. M \in Lists
  <2>1. M \in [(DOMAIN L) \ {t} -> Seq(Device)]
    BY ListType
  <2>2. (DOMAIN L) \ {t} \in SUBSET DevTask /\ \A u \in DOMAIN M : Len(M[u]) <= MaxFd
    BY ListType
  <2> QED
    BY <2>1, <2>2 DEF Lists
<1>2. IsFiniteSet(1 .. n) /\ Cardinality(1 .. n) = n
  <2>1. n \in Int /\ 1 \in Int /\ (1 > n => n = 0)
    BY <1>0
  <2> HIDE DEF n
  <2> QED
    BY <2>1, FS_Interval
<1>3. ASSUME NEW e \in Device
      PROVE  Counted(L[t])[e] = Cardinality(C(e)) /\ IsFiniteSet(C(e)) /\ Cardinality(C(e)) \in Nat
  <2>1. C(e) \in SUBSET (1 .. n)
    BY <1>0
  <2>2. IsFiniteSet(C(e))
    BY <1>2, <2>1, FS_Subset
  <2>3. Counted(L[t])[e] = Cardinality(C(e))
    BY DEF Counted
  <2> QED
    BY <2>2, <2>3, FS_CardinalityType
<1>4. n = Counted(L[t])["uart"] + Counted(L[t])["fb"]
  <2>1. "uart" \in Device /\ "fb" \in Device
    BY DEF Device
  <2>2. 1 .. n = C("uart") \cup C("fb") /\ C("uart") \cap C("fb") = {}
    BY <1>0 DEF Device
  <2>3. Cardinality(C("uart") \cup C("fb"))
          = Cardinality(C("uart")) + Cardinality(C("fb")) - Cardinality(C("uart") \cap C("fb"))
    <3>1. IsFiniteSet(C("uart")) /\ IsFiniteSet(C("fb"))
      BY <1>3, <2>1
    <3> HIDE DEF C
    <3> QED
      BY <3>1, FS_Union
  <2>4. Cardinality(C("uart") \cap C("fb")) = 0
    BY <2>2, FS_EmptySet
  <2>5. /\ Counted(L[t])["uart"] = Cardinality(C("uart")) /\ Cardinality(C("uart")) \in Nat
        /\ Counted(L[t])["fb"] = Cardinality(C("fb")) /\ Cardinality(C("fb")) \in Nat
    BY <1>3, <2>1
  <2>6. n = Cardinality(C("uart") \cup C("fb"))
    BY <1>2, <2>2
  <2> HIDE DEF C, n
  <2> QED
    BY <2>3, <2>4, <2>5, <2>6
<1>5. ASSUME NEW e \in Device
      PROVE  Cardinality(LinkPlaces(M, e)) = Cardinality(LinkPlaces(L, e)) - Counted(L[t])[e]
  <2> DEFINE Q == LinkPlaces(L, e)
             G == {x \in Q : x[1] = t}
             f == [k \in C(e) |-> <<t, k>>]
  <2>1. \A x \in Q : x[1] \in DOMAIN L /\ x[2] \in 1 .. MaxFd /\ x = <<x[1], x[2]>>
                    /\ x[2] <= Len(L[x[1]]) /\ L[x[1]][x[2]] = e
    BY DEF LinkPlaces
  <2>2. \A k \in C(e) : <<t, k>> \in G
    <3> SUFFICES ASSUME NEW k \in C(e) PROVE <<t, k>> \in G
      OBVIOUS
    <3>1. k \in 1 .. MaxFd /\ k <= Len(L[t]) /\ L[t][k] = e
      BY <1>0
    <3>2. <<t, k>> \in Q
      BY <3>1, PlaceIn
    <3> QED
      BY <3>2
  <2>3. \A x \in G : x[2] \in C(e) /\ x = <<t, x[2]>>
    BY <1>0, <2>1
  <2>4. f \in Bijection(C(e), G)
    <3> HIDE DEF C, G
    <3>1. f \in [C(e) -> G] /\ IsInjective(f)
      BY <2>2 DEF IsInjective
    <3>2. \A x \in G : \E k \in C(e) : f[k] = x
      BY <2>3
    <3> QED
      BY <3>1, <3>2 DEF Bijection, Injection, Surjection
  <2>5. IsFiniteSet(G) /\ Cardinality(G) = Counted(L[t])[e]
    <3> HIDE DEF C, G
    <3> QED
      BY <1>3, <2>4, FS_Bijection DEF ExistsBijection
  <2>6. LinkPlaces(M, e) = Q \ G
    <3>1. DOMAIN M = (DOMAIN L) \ {t} /\ \A u \in DOMAIN M : M[u] = L[u]
      OBVIOUS
    <3>2. LinkPlaces(M, e) \in SUBSET ((DOMAIN L) \X (1 .. MaxFd)) /\ Q \ G \in SUBSET ((DOMAIN L) \X (1 .. MaxFd))
      BY DEF LinkPlaces
    <3>3. ASSUME NEW u \in DOMAIN L, NEW i \in 1 .. MaxFd
          PROVE  <<u, i>> \in LinkPlaces(M, e) <=> <<u, i>> \in Q \ G
      <4>1. CASE u = t
        BY <3>1, <4>1 DEF LinkPlaces
      <4>2. CASE u # t
        BY <3>1, <4>2 DEF LinkPlaces
      <4> QED
        BY <4>1, <4>2
    <3> HIDE DEF M, Q, G
    <3> QED
      BY <3>2, <3>3, SamePairs
  <2>7. Q = (Q \ G) \cup G /\ (Q \ G) \cap G = {}
    OBVIOUS
  <2>8. IsFiniteSet(Q) /\ IsFiniteSet(Q \ G)
    BY PlacesFinite, FS_Subset
  <2> HIDE DEF G, Q, M
  <2>9. Cardinality(Q) = Cardinality(Q \ G) + Cardinality(G) - 0
    BY <2>5, <2>7, <2>8, FS_Union, FS_EmptySet
  <2>10. Cardinality(Q \ G) \in Nat /\ Cardinality(G) \in Nat
    BY <2>5, <2>8, FS_CardinalityType
  <2>11. Cardinality(Q \ G) = Cardinality(Q) - Counted(L[t])[e]
    BY <2>5, <2>9, <2>10
  <2> QED
    BY <2>6, <2>11 DEF Q
<1> HIDE DEF M
<1>6. \A e \in Device : Counted(L[t])[e] \in Nat
  BY <1>3
<1> QED
  BY <1>1, <1>4, <1>5, <1>6 DEF M

\* ... and a new task has none.
LEMMA PlacesCreate ==
    ASSUME NEW L \in Lists, NEW t \in DevTask, t \notin DOMAIN L
    PROVE  LET M == [x \in (DOMAIN L) \cup {t} |-> IF x = t THEN <<>> ELSE L[x]]
           IN  M \in Lists /\ \A e \in Device : LinkPlaces(M, e) = LinkPlaces(L, e)
<1> DEFINE M == [x \in (DOMAIN L) \cup {t} |-> IF x = t THEN <<>> ELSE L[x]]
<1>0. MaxFd \in Nat
  BY DeviceAssumption
<1>1. M[t] = <<>> /\ \A u \in DOMAIN L : M[u] = L[u]
  OBVIOUS
<1>2. M \in [(DOMAIN L) \cup {t} -> Seq(Device)] /\ DOMAIN M = (DOMAIN L) \cup {t}
  BY ListType
<1> HIDE DEF M
<1>3. M \in Lists
  <2>1. \A u \in DOMAIN M : Len(M[u]) <= MaxFd
    BY <1>0, <1>1, <1>2, ListType
  <2>2. (DOMAIN L) \cup {t} \in SUBSET DevTask
    BY ListType
  <2> QED
    BY <1>2, <2>1, <2>2 DEF Lists
<1>4. ASSUME NEW e \in Device PROVE LinkPlaces(M, e) = LinkPlaces(L, e)
  <2>1. LinkPlaces(M, e) \in SUBSET ((DOMAIN M) \X (1 .. MaxFd)) /\ LinkPlaces(L, e) \in SUBSET ((DOMAIN M) \X (1 .. MaxFd))
    BY <1>2 DEF LinkPlaces
  <2>2. ASSUME NEW u \in DOMAIN M, NEW i \in 1 .. MaxFd
        PROVE  <<u, i>> \in LinkPlaces(M, e) <=> <<u, i>> \in LinkPlaces(L, e)
    <3>1. CASE u = t
      <4>1. ~ (i <= Len(M[u]))
        BY <1>1, <3>1
      <4>2. <<u, i>> \notin LinkPlaces(L, e)
        BY <3>1 DEF LinkPlaces
      <4> QED
        BY <4>1, <4>2 DEF LinkPlaces
    <3>2. CASE u # t
      BY <1>1, <1>2, <3>2 DEF LinkPlaces
    <3> QED
      BY <3>1, <3>2
  <2> DEFINE S == LinkPlaces(M, e)
             T == LinkPlaces(L, e)
  <2> HIDE DEF S, T
  <2>3. S \in SUBSET ((DOMAIN M) \X (1 .. MaxFd)) /\ T \in SUBSET ((DOMAIN M) \X (1 .. MaxFd))
        /\ \A u \in DOMAIN M, i \in 1 .. MaxFd : <<u, i>> \in S <=> <<u, i>> \in T
    BY <2>1, <2>2 DEF S, T
  <2>4. S = T
    <3>1. \A x \in (DOMAIN M) \X (1 .. MaxFd) : x[1] \in DOMAIN M /\ x[2] \in 1 .. MaxFd /\ x = <<x[1], x[2]>>
      OBVIOUS
    <3>2. \A x \in (DOMAIN M) \X (1 .. MaxFd) : x \in S <=> x \in T
      BY <2>3, <3>1
    <3> QED
      BY <2>3, <3>2, Zenon
  <2> QED
    BY <2>4 DEF S, T
<1> QED
  BY <1>3, <1>4 DEF M
----------------------------------------------------------------------------
(* The device files.                                                       *)

\* What DevInv says of the lists.
LEMMA DevLists ==
    ASSUME DevInv
    PROVE  /\ file_dev_list \in Lists
           /\ \A d \in Device : Linked(d) = LinkPlaces(file_dev_list, d)
           /\ \A d \in Device : opens[d] = Cardinality(LinkPlaces(file_dev_list, d)) + unlinked[d]
           /\ fdblocks = Cardinality(LinkPlaces(file_dev_list, "uart"))
                           + Cardinality(LinkPlaces(file_dev_list, "fb"))
<1>1. file_dev_list \in Lists
  BY DEF DevInv, DevTypeOK, LinksGranted, Alive, Lists
<1>2. \A d : Linked(d) = LinkPlaces(file_dev_list, d)
  BY DEF Linked, LinkPlaces, Alive
<1> QED
  BY <1>1, <1>2 DEF DevInv, DevicesExact

\* The descriptor that is found.
LEMMA FindFd ==
    ASSUME DevInv, NEW t \in Alive, NEW d
    PROVE  /\ find_fd(t, d) # 0 <=> \E k \in DOMAIN file_dev_list[t] : file_dev_list[t][k] = d
           /\ find_fd(t, d) # 0 => /\ find_fd(t, d) \in DOMAIN file_dev_list[t]
                                   /\ file_dev_list[t][find_fd(t, d)] = d
<1> DEFINE l == file_dev_list[t]
           I == {i \in 1 .. Len(l) : l[i] = d}
<1>1. l \in Seq(Device) /\ DOMAIN l = 1 .. Len(l)
  BY DEF DevInv, DevTypeOK
<1>2. find_fd(t, d) = IF I # {} THEN Min(I) ELSE 0
  BY DEF find_fd, SelectInSeq
<1>3. I # {} => Min(I) \in I
  <2>1. I \in SUBSET Nat
    OBVIOUS
  <2> HIDE DEF I
  <2> QED
    BY <2>1, LowestAsks
<1> QED
  BY <1>1, <1>2, <1>3

\* The same after a step, of a task whose list holds the UART.
LEMMA FindNext ==
    ASSUME NEW t, file_dev_list'[t] \in Seq(Device),
           \E k \in DOMAIN file_dev_list'[t] : file_dev_list'[t][k] = "uart"
    PROVE  find_fd(t, "uart")' # 0
<1> DEFINE l == file_dev_list'[t]
           I == {i \in 1 .. Len(l) : l[i] = "uart"}
<1>2. find_fd(t, "uart")' = IF I # {} THEN Min(I) ELSE 0
  BY DEF find_fd, SelectInSeq
<1>3. I # {}
  OBVIOUS
<1>4. I \in SUBSET Nat /\ 0 \notin I
  OBVIOUS
<1> HIDE DEF I
<1>5. Min(I) \in I
  BY <1>3, <1>4, LowestAsks
<1> QED
  BY <1>2, <1>3, <1>4, <1>5

\* DevInv after a step, from what the step did to lists, counts and printers.
LEMMA DevStep ==
    ASSUME DevInv, NEW L \in Lists, file_dev_list' = L,
           opens' \in [Device -> Int], unlinked' \in [Device -> Int], fdblocks' \in Int,
           \A d \in Device : opens'[d] = Cardinality(LinkPlaces(L, d)) + unlinked'[d],
           fdblocks' = Cardinality(LinkPlaces(L, "uart")) + Cardinality(LinkPlaces(L, "fb")),
           printing' \in [DevTask -> {"no", "write", "close", "unwritten"}],
           \A t \in DOMAIN L : \A k \in DOMAIN L[t] : L[t][k] \in Granted[t],
           \A t \in DevTask \ DOMAIN L : printing'[t] = "no",
           \A t \in DOMAIN L : printing'[t] # "no" =>
              printing'[t] # "unwritten" /\ \E k \in DOMAIN L[t] : L[t][k] = "uart"
    PROVE  DevInv'
<1>1. DevTypeOK'
  BY ListType DEF DevTypeOK, Alive
<1>2. LinksGranted'
  BY ListType DEF LinksGranted, Alive
<1>3. \A d : Linked(d)' = LinkPlaces(L, d)
  BY DEF Linked, LinkPlaces, Alive
<1>4. \A t \in DOMAIN L : printing'[t] # "no" => find_fd(t, "uart")' # 0
  BY FindNext, ListType
<1>5. DevicesExact'
  BY <1>3, <1>4 DEF DevicesExact, Alive
<1> QED
  BY <1>1, <1>2, <1>5 DEF DevInv

\* What is known of the lists and the printers before a step.
LEMMA DevFacts ==
    ASSUME DevInv
    PROVE  /\ opens \in [Device -> Int] /\ unlinked \in [Device -> Int] /\ fdblocks \in Int
           /\ printing \in [DevTask -> {"no", "write", "close", "unwritten"}]
           /\ Alive = DOMAIN file_dev_list /\ Alive \subseteq DevTask
           /\ \A t \in Alive : \A k \in DOMAIN file_dev_list[t] : file_dev_list[t][k] \in Granted[t]
           /\ \A t \in DevTask \ Alive : printing[t] = "no"
           /\ \A t \in Alive : printing[t] # "no" =>
                 printing[t] # "unwritten" /\ \E k \in DOMAIN file_dev_list[t] : file_dev_list[t][k] = "uart"
BY FindFd DEF DevInv, DevTypeOK, LinksGranted, DevicesExact, Alive

LEMMA DevInitInv == DevInit => DevInv
<1> SUFFICES ASSUME DevInit PROVE DevInv
  OBVIOUS
<1>1. Alive = DevTask /\ \A t \in DevTask : file_dev_list[t] = <<>> /\ printing[t] = "no"
  BY DEF DevInit, Alive
<1>2. DevTypeOK
  BY <1>1 DEF DevInit, DevTypeOK
<1>3. LinksGranted
  BY <1>1, DeviceAssumption DEF LinksGranted
<1>4. \A d : Linked(d) = {}
  BY <1>1 DEF Linked
<1>5. Cardinality({}) = 0
  BY FS_EmptySet
<1>6. DevicesExact
  <2>1. \A d : Cardinality(Linked(d)) = 0
    BY <1>4, <1>5
  <2>2. fdblocks = 0 /\ \A d \in Device : opens[d] = 0 /\ unlinked[d] = 0
    BY DEF DevInit
  <2> QED
    BY <1>1, <2>1, <2>2 DEF DevicesExact
<1> QED
  BY <1>2, <1>3, <1>6 DEF DevInv

\* A system call that changes nothing, and a printer that goes on or ends.
LEMMA QuietInv ==
    ASSUME DevInv, UNCHANGED <<file_dev_list, opens, fdblocks, unlinked>>,
           NEW t \in Alive, NEW w \in {"no", "close"},
           printing' = [printing EXCEPT ![t] = w] \/ UNCHANGED printing,
           w = "close" => printing[t] # "no"
    PROVE  DevInv'
<1>1. \A u \in DevTask : printing'[u] \in {printing[u]} \cup (IF u = t THEN {w} ELSE {})
  BY DevFacts
<1>2. printing' \in [DevTask -> {"no", "write", "close", "unwritten"}]
  BY DevFacts
<1>3. \A u \in DevTask : printing'[u] # "no" => printing[u] # "no"
  BY <1>1
<1>4. \A u \in Alive : printing'[u] # "no" => printing'[u] # "unwritten"
  BY <1>1, <1>3, DevFacts
<1> QED
  BY <1>2, <1>3, <1>4, DevFacts, DevLists, DevStep

\* An open, by the task itself or by sw_printf.
LEMMA OpenInv ==
    ASSUME DevInv, NEW t \in Alive, NEW d \in Device, NEW ok \in BOOLEAN, sys_open(t, d, ok),
           printing[t] = "no",
           \/ UNCHANGED printing
           \/ d = "uart" /\ printing' = [printing EXCEPT ![t] = IF ok THEN "write" ELSE "no"]
    PROVE  DevInv'
<1>0. file_dev_list \in Lists /\ t \in DOMAIN file_dev_list /\ t \in DevTask
      /\ \A e \in Device : Cardinality(LinkPlaces(file_dev_list, e)) \in Nat
  BY DevLists, DevFacts, PlacesFinite
<1>1. CASE ~ok /\ UNCHANGED <<file_dev_list, opens, fdblocks, unlinked>>
  <2>1. printing' = [printing EXCEPT ![t] = "no"] \/ UNCHANGED printing
    BY <1>1
  <2> QED
    BY <1>1, <2>1, QuietInv
<1>2. CASE /\ d \in Granted[t] /\ Len(file_dev_list[t]) < MaxFd
           /\ opens' = [opens EXCEPT ![d] = opens[d] + 1]
           /\ file_dev_list' = [file_dev_list EXCEPT ![t] = Append(file_dev_list[t], d)]
           /\ fdblocks' = fdblocks + 1
           /\ UNCHANGED unlinked
  <2> DEFINE L == file_dev_list
             M == [L EXCEPT ![t] = Append(L[t], d)]
  <2>1. /\ M \in Lists /\ DOMAIN M = DOMAIN L
        /\ \A e \in Device : Cardinality(LinkPlaces(M, e))
                               = Cardinality(LinkPlaces(L, e)) + (IF e = d THEN 1 ELSE 0)
    BY ZenonT(40), <1>0, <1>2, PlacesAppend
  <2>2. /\ \A u \in DOMAIN L : u # t => M[u] = L[u]
        /\ DOMAIN M[t] = 1 .. (Len(L[t]) + 1) /\ DOMAIN L[t] = 1 .. Len(L[t]) /\ Len(L[t]) \in Nat
        /\ M[t][Len(L[t]) + 1] = d
        /\ \A k \in 1 .. Len(L[t]) : M[t][k] = L[t][k]
    BY <1>0, ListType
  <2>3. file_dev_list' = M
    BY <1>2
  <2> HIDE DEF M
  <2>4. \A e \in Device : opens'[e] = Cardinality(LinkPlaces(M, e)) + unlinked'[e]
    <3>1. \A e \in Device : opens[e] = Cardinality(LinkPlaces(L, e)) + unlinked[e] /\ unlinked[e] \in Int
      BY DevLists, DevFacts
    <3>2. \A e \in Device : opens'[e] = opens[e] + (IF e = d THEN 1 ELSE 0) /\ unlinked'[e] = unlinked[e]
      BY <1>2, DevFacts
    <3> QED
      BY <1>0, <2>1, <3>1, <3>2
  <2>5. fdblocks' = Cardinality(LinkPlaces(M, "uart")) + Cardinality(LinkPlaces(M, "fb"))
    <3>1. fdblocks = Cardinality(LinkPlaces(L, "uart")) + Cardinality(LinkPlaces(L, "fb"))
      BY DevLists
    <3>2. d = "uart" \/ d = "fb"
      BY DEF Device
    <3>3. "uart" \in Device /\ "fb" \in Device
      BY DEF Device
    <3> QED
      BY SMTT(30), <1>0, <1>2, <2>1, <3>1, <3>2, <3>3
  <2>6. opens' \in [Device -> Int] /\ unlinked' \in [Device -> Int] /\ fdblocks' \in Int
    BY <1>2, DevFacts
  <2>7. printing' \in [DevTask -> {"no", "write", "close", "unwritten"}]
        /\ \A u \in DevTask : u # t => printing'[u] = printing[u]
    BY DevFacts
  <2>8. \A u \in DOMAIN M : \A k \in DOMAIN M[u] : M[u][k] \in Granted[u]
    <3> SUFFICES ASSUME NEW u \in DOMAIN M, NEW k \in DOMAIN M[u] PROVE M[u][k] \in Granted[u]
      OBVIOUS
    <3>1. CASE u # t
      BY <2>1, <2>2, <3>1, DevFacts
    <3>2. CASE u = t /\ k = Len(L[t]) + 1
      BY <1>2, <2>2, <3>2
    <3>3. CASE u = t /\ k # Len(L[t]) + 1
      <4>1. k \in 1 .. Len(L[t])
        BY <2>2, <3>3
      <4> QED
        BY <1>0, <2>2, <3>3, <4>1, DevFacts
    <3> QED
      BY <3>1, <3>2, <3>3
  <2>9. ASSUME NEW u \in DOMAIN M, printing'[u] # "no"
        PROVE  printing'[u] # "unwritten" /\ \E k \in DOMAIN M[u] : M[u][k] = "uart"
    <3>1. CASE u # t
      BY <2>1, <2>2, <2>7, <2>9, <3>1, DevFacts
    <3>2. CASE u = t
      <4>1. d = "uart" /\ printing'[t] = (IF ok THEN "write" ELSE "no")
        BY <1>0, <2>9, <3>2, DevFacts
      <4>2. Len(L[t]) + 1 \in DOMAIN M[t]
        BY <2>2
      <4> QED
        BY <2>2, <2>9, <3>2, <4>1, <4>2
    <3> QED
      BY <3>1, <3>2
  <2>10. \A u \in DevTask \ DOMAIN M : printing'[u] = "no"
    BY <1>0, <2>1, <2>7, DevFacts
  <2> QED
    BY <2>1, <2>3, <2>4, <2>5, <2>6, <2>7, <2>8, <2>9, <2>10, DevStep
<1>3. CASE /\ ~ok /\ opens' = [opens EXCEPT ![d] = opens[d] + 1]
           /\ unlinked' = [unlinked EXCEPT ![d] = unlinked[d] + 1]
           /\ UNCHANGED <<file_dev_list, fdblocks>>
  <2>1. \A e \in Device : opens'[e] = Cardinality(LinkPlaces(file_dev_list, e)) + unlinked'[e]
    <3>1. \A e \in Device : opens[e] = Cardinality(LinkPlaces(file_dev_list, e)) + unlinked[e] /\ unlinked[e] \in Int
      BY DevLists, DevFacts
    <3>2. \A e \in Device : /\ opens'[e] = opens[e] + (IF e = d THEN 1 ELSE 0)
                            /\ unlinked'[e] = unlinked[e] + (IF e = d THEN 1 ELSE 0)
      BY <1>3, <3>1, DevFacts
    <3> QED
      BY <1>0, <3>1, <3>2
  <2>2. opens' \in [Device -> Int] /\ unlinked' \in [Device -> Int] /\ fdblocks' \in Int
    BY <1>3, DevFacts
  <2>3. printing' = printing
    <3>1. [printing EXCEPT ![t] = "no"] = printing
      BY <1>0, DevFacts
    <3> QED
      BY <1>3, <3>1
  <2> QED
    BY <1>0, <1>3, <2>1, <2>2, <2>3, DevFacts, DevLists, DevStep
<1> QED
  BY <1>1, <1>2, <1>3 DEF sys_open, OpenRefused

\* A close that succeeds: the first link of the device goes.
LEMMA CloseInv ==
    ASSUME DevInv, NEW t \in Alive, NEW d \in Device, sys_close(t, d),
           \/ printing[t] = "no" /\ UNCHANGED printing
           \/ printing' = [printing EXCEPT ![t] = "no"]
    PROVE  DevInv'
<1>0. file_dev_list \in Lists /\ t \in DOMAIN file_dev_list /\ t \in DevTask
      /\ \A e \in Device : Cardinality(LinkPlaces(file_dev_list, e)) \in Nat
  BY DevLists, DevFacts, PlacesFinite
<1>1. CASE UNCHANGED <<file_dev_list, opens, fdblocks, unlinked>>
  BY <1>1, QuietInv
<1>2. CASE /\ find_fd(t, d) # 0 /\ opens' = [opens EXCEPT ![d] = opens[d] - 1]
           /\ file_dev_list' = [file_dev_list EXCEPT ![t] = RemoveAt(file_dev_list[t], find_fd(t, d))]
           /\ fdblocks' = fdblocks - 1 /\ UNCHANGED unlinked
  <2> DEFINE L == file_dev_list
  <2>0. PICK k \in DOMAIN L[t] : L[t][k] = d /\ k = find_fd(t, d)
    BY <1>2, FindFd
  <2> DEFINE M == [L EXCEPT ![t] = RemoveAt(L[t], k)]
  <2>a. L[t] \in Seq(Device) /\ M[t] = RemoveAt(L[t], k)
    BY <1>0, ListType
  <2>1. /\ M \in Lists /\ DOMAIN M = DOMAIN L
        /\ \A e \in Device : Cardinality(LinkPlaces(M, e))
                               = Cardinality(LinkPlaces(L, e)) - (IF e = d THEN 1 ELSE 0)
    <3>1. M \in [DOMAIN L -> Seq(Device)] /\ \A u \in DOMAIN L : u # t => M[u] = L[u]
      BY <1>0, <2>0, <2>a, RemoveAtFacts, ListType
    <3> HIDE DEF M
    <3> QED
      BY <1>0, <2>0, <2>a, <3>1, PlacesRemove
  <2>b. \A i \in DOMAIN M[t] : \E j \in DOMAIN L[t] : M[t][i] = L[t][j]
    BY <2>0, <2>a, RemovedFrom
  <2>2. \A u \in DOMAIN L : u # t => M[u] = L[u]
    BY <1>0, ListType
  <2>3. file_dev_list' = M
    BY <1>2, <2>0
  <2> HIDE DEF M
  <2>4. \A e \in Device : opens'[e] = Cardinality(LinkPlaces(M, e)) + unlinked'[e]
    <3>1. \A e \in Device : opens[e] = Cardinality(LinkPlaces(L, e)) + unlinked[e] /\ unlinked[e] \in Int
      BY DevLists, DevFacts
    <3>2. \A e \in Device : opens'[e] = opens[e] - (IF e = d THEN 1 ELSE 0) /\ unlinked'[e] = unlinked[e]
      BY <1>2, <3>1, <1>0, DevFacts
    <3> QED
      BY <1>0, <2>1, <3>1, <3>2
  <2>5. fdblocks' = Cardinality(LinkPlaces(M, "uart")) + Cardinality(LinkPlaces(M, "fb"))
    <3>1. fdblocks = Cardinality(LinkPlaces(L, "uart")) + Cardinality(LinkPlaces(L, "fb"))
      BY DevLists
    <3>2. "uart" \in Device /\ "fb" \in Device /\ (d = "uart" \/ d = "fb")
      BY DEF Device
    <3> QED
      BY <1>0, <1>2, <2>1, <3>1, <3>2
  <2>6. opens' \in [Device -> Int] /\ unlinked' \in [Device -> Int] /\ fdblocks' \in Int
    BY <1>2, DevFacts
  <2>7. /\ printing' \in [DevTask -> {"no", "write", "close", "unwritten"}]
        /\ printing'[t] = "no" /\ \A u \in DevTask : u # t => printing'[u] = printing[u]
    BY <1>0, DevFacts
  <2>8. \A u \in DOMAIN M : \A i \in DOMAIN M[u] : M[u][i] \in Granted[u]
    <3> SUFFICES ASSUME NEW u \in DOMAIN M, NEW i \in DOMAIN M[u] PROVE M[u][i] \in Granted[u]
      OBVIOUS
    <3>1. CASE u # t
      BY <2>1, <2>2, <3>1, DevFacts
    <3>2. CASE u = t
      BY <1>0, <2>b, <3>2, DevFacts
    <3> QED
      BY <3>1, <3>2
  <2>9. ASSUME NEW u \in DOMAIN M, printing'[u] # "no"
        PROVE  printing'[u] # "unwritten" /\ \E i \in DOMAIN M[u] : M[u][i] = "uart"
    <3>1. u # t /\ u \in Alive /\ M[u] = L[u] /\ printing'[u] = printing[u]
      BY <2>1, <2>2, <2>7, <2>9, DevFacts
    <3> QED
      BY <2>9, <3>1, DevFacts
  <2>10. \A u \in DevTask \ DOMAIN M : printing'[u] = "no"
    BY <2>1, <2>7, DevFacts
  <2> QED
    BY <2>1, <2>3, <2>4, <2>5, <2>6, <2>7, <2>8, <2>9, <2>10, DevStep
<1> QED
  BY <1>1, <1>2 DEF sys_close

LEMMA DestroyInv == ASSUME DevInv, NEW t \in Alive, Destroy(t) PROVE DevInv'
<1> DEFINE L == file_dev_list
           M == [x \in (DOMAIN L) \ {t} |-> L[x]]
<1>0. L \in Lists /\ t \in DOMAIN L /\ t \in DevTask
      /\ \A e \in Device : Cardinality(LinkPlaces(L, e)) \in Nat
  BY DevLists, DevFacts, PlacesFinite
<1>1. /\ file_dev_list' = M /\ UNCHANGED unlinked
      /\ opens' = [d \in Device |-> opens[d] - Counted(L[t])[d]]
      /\ fdblocks' = fdblocks - Len(L[t])
      /\ printing' = [printing EXCEPT ![t] = "no"]
  BY DEF Destroy, destroy_task_devices, Alive
<1>2. /\ M \in Lists
      /\ \A e \in Device : /\ Counted(L[t])[e] \in Nat
                           /\ Cardinality(LinkPlaces(M, e))
                                = Cardinality(LinkPlaces(L, e)) - Counted(L[t])[e]
      /\ Len(L[t]) = Counted(L[t])["uart"] + Counted(L[t])["fb"]
  BY <1>0, PlacesDestroy
<1>3. DOMAIN M = (DOMAIN L) \ {t} /\ \A u \in DOMAIN M : M[u] = L[u]
  OBVIOUS
<1> HIDE DEF M
<1>4. \A e \in Device : opens'[e] = Cardinality(LinkPlaces(M, e)) + unlinked'[e]
  <2>1. \A e \in Device : opens[e] = Cardinality(LinkPlaces(L, e)) + unlinked[e] /\ unlinked[e] \in Int
    BY DevLists, DevFacts
  <2> QED
    BY <1>0, <1>1, <1>2, <2>1
<1>5. fdblocks' = Cardinality(LinkPlaces(M, "uart")) + Cardinality(LinkPlaces(M, "fb"))
  <2>1. fdblocks = Cardinality(LinkPlaces(L, "uart")) + Cardinality(LinkPlaces(L, "fb"))
    BY DevLists
  <2>2. "uart" \in Device /\ "fb" \in Device
    BY DEF Device
  <2> QED
    BY <1>0, <1>1, <1>2, <2>1, <2>2
<1>6. opens' \in [Device -> Int] /\ unlinked' \in [Device -> Int] /\ fdblocks' \in Int
  <2>1. "uart" \in Device /\ "fb" \in Device
    BY DEF Device
  <2> QED
    BY SMTT(30), <1>1, <1>2, <2>1, DevFacts
<1>7. /\ printing' \in [DevTask -> {"no", "write", "close", "unwritten"}]
      /\ printing'[t] = "no" /\ \A u \in DevTask : u # t => printing'[u] = printing[u]
  BY <1>0, <1>1, DevFacts
<1>8. \A u \in DOMAIN M : \A i \in DOMAIN M[u] : M[u][i] \in Granted[u]
  BY <1>3, DevFacts
<1>9. \A u \in DOMAIN M : printing'[u] # "no" =>
         printing'[u] # "unwritten" /\ \E i \in DOMAIN M[u] : M[u][i] = "uart"
  BY <1>3, <1>7, DevFacts
<1>10. \A u \in DevTask \ DOMAIN M : printing'[u] = "no"
  BY <1>3, <1>7, DevFacts
<1> QED
  BY <1>1, <1>2, <1>4, <1>5, <1>6, <1>7, <1>8, <1>9, <1>10, DevStep

LEMMA CreateInv == ASSUME DevInv, NEW t \in DevTask, Create(t) PROVE DevInv'
<1> DEFINE L == file_dev_list
           M == [x \in (DOMAIN L) \cup {t} |-> IF x = t THEN <<>> ELSE L[x]]
<1>0. L \in Lists /\ t \notin DOMAIN L
  BY DevLists DEF Create, Alive
<1>1. file_dev_list' = M /\ UNCHANGED <<opens, fdblocks, printing, unlinked>>
  BY DEF Create, Alive
<1>2. M \in Lists /\ \A e \in Device : LinkPlaces(M, e) = LinkPlaces(L, e)
  BY <1>0, PlacesCreate
<1>3. /\ DOMAIN M = (DOMAIN L) \cup {t} /\ M[t] = <<>> /\ DOMAIN M[t] = {}
      /\ \A u \in DOMAIN L : M[u] = L[u]
  BY <1>0
<1> HIDE DEF M
<1>4. /\ \A e \in Device : opens'[e] = Cardinality(LinkPlaces(M, e)) + unlinked'[e]
      /\ fdblocks' = Cardinality(LinkPlaces(M, "uart")) + Cardinality(LinkPlaces(M, "fb"))
  <2>1. "uart" \in Device /\ "fb" \in Device
    BY DEF Device
  <2> QED
    BY <1>1, <1>2, <2>1, DevLists
<1>5. printing[t] = "no"
  BY <1>0, DevFacts
<1>6. \A u \in DOMAIN M : \A i \in DOMAIN M[u] : M[u][i] \in Granted[u]
  BY <1>3, DevFacts
<1>7. \A u \in DOMAIN M : printing'[u] # "no" =>
         printing'[u] # "unwritten" /\ \E i \in DOMAIN M[u] : M[u][i] = "uart"
  BY <1>1, <1>3, <1>5, DevFacts
<1>8. \A u \in DevTask \ DOMAIN M : printing'[u] = "no"
  BY <1>1, <1>3, DevFacts
<1> QED
  BY <1>1, <1>2, <1>4, <1>6, <1>7, <1>8, DevFacts, DevStep

\* sw_printf has the UART open while it writes, so the write is not refused.
LEMMA PrintfWriteInv == ASSUME DevInv, NEW t \in Alive, PrintfWrite(t) PROVE DevInv'
<1>1. printing[t] = "write" /\ \E k \in DOMAIN file_dev_list[t] : file_dev_list[t][k] = "uart"
  BY DevFacts DEF PrintfWrite
<1>2. find_fd(t, "uart") # 0 /\ "uart" \in Granted[t]
  BY <1>1, FindFd, DevFacts
<1>3. sys_transfer(t, "uart", "write") = {TRUE}
  <2>1. Fops["uart"].has = {"open", "close", "read", "write", "ioctl"} /\ Fops["uart"].fails = {"read", "ioctl"}
    BY DEF Fops, uart_dev_fops
  <2> QED
    BY <1>2, <2>1 DEF sys_transfer, Answers
<1>4. printing' = [printing EXCEPT ![t] = "close"] /\ UNCHANGED <<file_dev_list, opens, fdblocks, unlinked>>
  BY <1>3 DEF PrintfWrite
<1> QED
  BY <1>1, <1>4, QuietInv

LEMMA DevStepInv == DevInv /\ [DevNext]_devvars => DevInv'
<1> SUFFICES ASSUME DevInv, [DevNext]_devvars PROVE DevInv'
  OBVIOUS
<1>0. "uart" \in Device
  BY DEF Device
<1>1. ASSUME NEW t \in Alive, PrintfOpen(t) PROVE DevInv'
  BY <1>0, <1>1, OpenInv DEF PrintfOpen
<1>2. ASSUME NEW t \in Alive, PrintfClose(t) PROVE DevInv'
  BY <1>0, <1>2, CloseInv DEF PrintfClose
<1>3. ASSUME NEW t \in Alive, NEW d \in Device, Open(t, d) PROVE DevInv'
  BY <1>3, OpenInv DEF Open
<1>4. ASSUME NEW t \in Alive, NEW d \in Device, Close(t, d) PROVE DevInv'
  BY <1>4, CloseInv DEF Close
<1>5. CASE UNCHANGED devvars
  <2>1. UNCHANGED <<file_dev_list, opens, fdblocks, unlinked, printing>>
    BY <1>5 DEF devvars
  <2> QED
    BY <2>1, DevFacts, DevLists, DevStep
<1> QED
  BY <1>1, <1>2, <1>3, <1>4, <1>5, DestroyInv, CreateInv, PrintfWriteInv DEF DevNext

\* However tasks open, close, print and are destroyed in between, every open
\* of a device that was not closed has its link in the list of a live task,
\* unless the link could not be allocated; every link has its block; and a
\* task inside sw_printf has the UART open (sw_syscall_imp.c, sw_printf.c).
THEOREM OpensLinked == DevSpec => []DevicesExact
<1>1. DevInv => DevicesExact
  BY DEF DevInv
<1> QED
  BY <1>1, DevInitInv, DevStepInv, PTL DEF DevSpec
=============================================================================
