-------------------------- MODULE OtzDriverProofs --------------------------
(* Proofs about the driver's path to the secure world (OtzDriver).          *)
EXTENDS OtzDriver, ListLemmas, FiniteSetTheorems, TLAPS

\* The sessions that are open from the start, in any order.
LEMMA SetToSeqFacts ==
    ASSUME NEW S, IsFiniteSet(S)
    PROVE  SetToSeq(S) \in Seq(S) /\ IsInjective(SetToSeq(S))
<1>1. PICK n \in Nat : ExistsBijection(1 .. n, S)
  BY FS_NatBijection
<1>2. Cardinality(S) = n
  BY <1>1, FS_CountingElements
<1>3. PICK f \in [1 .. n -> S] : \A a, b \in 1 .. n : f[a] = f[b] => a = b
  BY <1>1 DEF ExistsBijection, Bijection, Injection, IsInjective
<1>4. \E g \in [1 .. Cardinality(S) -> S] : IsInjective(g)
  BY <1>2, <1>3 DEF IsInjective
<1>5. SetToSeq(S) \in [1 .. Cardinality(S) -> S] /\ IsInjective(SetToSeq(S))
  BY <1>4 DEF SetToSeq
<1> QED
  BY <1>2, <1>5

LEMMA DriverInitInv == Init => DriverInv
<1> SUFFICES ASSUME Init PROVE DriverInv
  OBVIOUS
<1>1. \A d \in Dev : sessions[d] \in Seq(Thread) /\ IsInjective(sessions[d])
                     /\ \A t \in Range(sessions[d]) : "open" \notin Ops[t]
  <2> SUFFICES ASSUME NEW d \in Dev
               PROVE  sessions[d] \in Seq(Thread) /\ IsInjective(sessions[d])
                      /\ \A t \in Range(sessions[d]) : "open" \notin Ops[t]
    OBVIOUS
  <2> DEFINE S == {t \in Thread : DevOf[t] = d /\ "open" \notin Ops[t]}
  <2>1. IsFiniteSet(S) /\ S \subseteq Thread
    BY DriverAssumption, FS_Subset
  <2>2. sessions[d] = SetToSeq(S)
    BY DEF Init
  <2> HIDE DEF S
  <2>3. sessions[d] \in Seq(S) /\ IsInjective(sessions[d])
    BY <2>1, <2>2, SetToSeqFacts
  <2>4. Range(sessions[d]) \subseteq S
    BY <2>3 DEF Range
  <2> QED
    BY <2>1, <2>3, <2>4 DEF S
<1>2. TypeOK
  <2>1. sessions \in [Dev -> Seq(Thread)]
    BY <1>1 DEF Init
  <2>2. content \in [Cmd -> Contents]
    BY DEF Init, Contents, Blank
  <2>3. mixed \in BOOLEAN /\ intr \in BOOLEAN /\ flag \in [Thread -> BOOLEAN]
    BY DEF Init
  <2> QED
    BY <1>1, <2>1, <2>2, <2>3 DEF Init, TypeOK, PCs, Faults
<1>3. OpensNew /\ MutexHeld
  BY DEF Init, OpensNew, MutexHeld
<1>4. fault = "none" /\ CallsApart /\ HeapOwned /\ CommandKept /\ PendingStages
  BY DriverAssumption DEF Init, CallsApart, HeapOwned, CommandKept, PendingStages
<1> QED
  BY <1>2, <1>3, <1>4 DEF DriverInv

\* A thread that moves leaves the others where they are.
LEMMA GotoFacts ==
    ASSUME TypeOK, NEW t \in Thread, NEW l, Goto(t, l)
    PROVE  pc'[t] = l /\ \A u \in Thread : u # t => pc'[u] = pc[u]
BY DEF Goto, TypeOK

----------------------------------------------------------------------------
(* Types, and the sessions' lists.                                         *)

\* The lists change only when an ioctl returns: the thread's own session is
\* added when it was not there, or removed.
LEMMA SessionsStep ==
    ASSUME TypeOK, OpensNew, NEW t \in Thread, Free(t)
    PROVE  /\ sessions' \in [Dev -> Seq(Thread)]
           /\ \A d \in Dev : IsInjective(sessions'[d])
           /\ \A d \in Dev : Range(sessions'[d]) \subseteq Range(sessions[d]) \cup {t}
<1> DEFINE d == DevOf[t]
<1>1. d \in Dev /\ sessions[d] \in Seq(Thread) /\ IsInjective(sessions[d])
  BY DriverAssumption DEF TypeOK
<1>2. CASE UNCHANGED sessions
  BY <1>2 DEF TypeOK
<1>3. CASE op[t] = "open" /\ sessions' = [sessions EXCEPT ![d] = Append(@, t)]
  <2>1. t \notin Range(sessions[d])
    BY <1>3 DEF OpensNew
  <2>2. Append(sessions[d], t) \in Seq(Thread) /\ IsInjective(Append(sessions[d], t))
        /\ Range(Append(sessions[d], t)) = Range(sessions[d]) \cup {t}
    BY <1>1, <2>1, AppendFacts
  <2>3. sessions' = [sessions EXCEPT ![d] = Append(sessions[d], t)]
    BY <1>3
  <2> QED
    BY <1>1, <2>2, <2>3 DEF TypeOK
<1>4. CASE sessions' = [sessions EXCEPT ![d] = RemoveFirst(@, t)]
  <2>1. RemoveFirst(sessions[d], t) \in Seq(Thread) /\ IsInjective(RemoveFirst(sessions[d], t))
        /\ Range(RemoveFirst(sessions[d], t)) \subseteq Range(sessions[d])
    BY <1>1, RemoveFirstFacts
  <2> QED
    BY <1>1, <1>4, <2>1 DEF TypeOK
<1> QED
  BY <1>2, <1>3, <1>4 DEF Free

LEMMA TypeStep ==
    ASSUME TypeOK, OpensNew, [Next]_vars
    PROVE  TypeOK'
<1> USE DriverAssumption
<1>1. CASE UNCHANGED vars
  BY <1>1 DEF vars, TypeOK
<1>2. ASSUME NEW t \in Thread, NEW o \in Ops[t], Begin(t, o) PROVE TypeOK'
  <2>1. o \in {"send", "open", "close"}
    BY <1>2
  <2> QED
    BY <1>2, <2>1 DEF Begin, Goto, TypeOK, PCs
<1>3. ASSUME NEW t \in Thread, Alloc(t) \/ AllocFails(t) PROVE TypeOK'
  BY <1>3 DEF Alloc, AllocFails, Goto, TypeOK, PCs
<1>4. ASSUME NEW t \in Thread, Fill(t) PROVE TypeOK'
  <2>1. [from |-> t, id |-> "cmd"] \in Contents
    BY DEF Contents
  <2>2. content' \in [Cmd -> Contents] /\ fault' \in Faults
    BY <1>4, <2>1 DEF Fill, Misuse, Usable, TypeOK, Faults
  <2> QED
    BY <1>4, <2>2 DEF Fill, Goto, TypeOK, PCs
<1>5. ASSUME NEW t \in Thread, Resume(t) PROVE TypeOK'
  <2>1. \A c \in Contents : [c EXCEPT !.id = "resume"] \in Contents
    BY DEF Contents
  <2>2. content' = [content EXCEPT ![smc_cmd] = [content[smc_cmd] EXCEPT !.id = "resume"]]
        \/ content' = content
    BY <1>5 DEF Resume
  <2>3. Usable => smc_cmd \in Cmd
    BY DEF Usable, TypeOK
  <2>4. content' \in [Cmd -> Contents]
    <3>1. content \in [Cmd -> Contents]
      BY DEF TypeOK
    <3>2. CASE ~Usable
      BY <1>5, <3>1, <3>2 DEF Resume
    <3>3. CASE Usable
      <4>1. content[smc_cmd] \in Contents
        BY <2>3, <3>1, <3>3
      <4>2. [content[smc_cmd] EXCEPT !.id = "resume"] \in Contents
        BY <2>1, <4>1
      <4> QED
        BY <2>2, <3>1, <4>2
    <3> QED
      BY <3>2, <3>3
  <2>5. fault' \in Faults
    BY <1>5 DEF Resume, Misuse, TypeOK, Faults
  <2> QED
    BY <1>5, <2>4, <2>5 DEF Resume, Goto, TypeOK, PCs
<1>6. ASSUME NEW t \in Thread,
             EnterSecure(t) \/ LeaveSecure(t) \/ DropLock(t) \/ Relock(t) \/ LeaveResumed(t)
      PROVE  TypeOK'
  <2>1. CASE EnterSecure(t)
    BY <2>1 DEF EnterSecure, Goto, TypeOK, PCs
  <2>2. CASE LeaveSecure(t)
    BY <2>2 DEF LeaveSecure, Goto, TypeOK, PCs
  <2>3. CASE DropLock(t) \/ Relock(t)
    <3>1. holder' \in [{"send", "open", "close"} -> Thread \cup {NoThread}]
      BY <2>3 DEF DropLock, Relock, TypeOK
    <3>2. pc' \in [Thread -> PCs]
      <4>1. pc' = [pc EXCEPT ![t] = "wait"] \/ pc' = [pc EXCEPT ![t] = "resume"]
        BY <2>3 DEF DropLock, Relock, Goto
      <4> QED
        BY <4>1 DEF TypeOK, PCs
    <3> QED
      BY <2>3, <3>1, <3>2 DEF DropLock, Relock, TypeOK
  <2>4. CASE LeaveResumed(t)
    BY <2>4 DEF LeaveResumed, Goto, TypeOK, PCs
  <2> QED
    BY <1>6, <2>1, <2>2, <2>3, <2>4
<1>7. ASSUME NEW t \in Thread, WaitOver(t) \/ Interrupted(t) \/ ReadResponse(t) \/ Notify(t)
      PROVE  TypeOK'
  <2>1. CASE WaitOver(t)
    BY <2>1 DEF WaitOver, Goto, TypeOK, PCs
  <2>2. CASE Interrupted(t)
    BY <2>2 DEF Interrupted, Goto, TypeOK, PCs
  <2>3. CASE ReadResponse(t)
    BY <2>3 DEF ReadResponse, Misuse, Goto, TypeOK, PCs, Faults
  <2>4. CASE Notify(t)
    BY <2>4 DEF Notify, TypeOK
  <2> QED
    BY <1>7, <2>1, <2>2, <2>3, <2>4
<1>8. ASSUME NEW t \in Thread, Free(t) PROVE TypeOK'
  <2>1. Blank \in Contents
    BY DEF Blank, Contents
  <2>2. heap' \subseteq Cmd /\ content' \in [Cmd -> Contents] /\ fault' \in Faults
    BY <1>8, <2>1 DEF Free, Misuse, TypeOK, Faults
  <2>3. flag' \in [Thread -> BOOLEAN]
    BY <1>8 DEF Free, TypeOK
  <2>4. sessions' \in [Dev -> Seq(Thread)] /\ \A d \in Dev : IsInjective(sessions'[d])
    BY <1>8, SessionsStep
  <2>5. pc' \in [Thread -> PCs] /\ op' \in [Thread -> {"send", "open", "close"}]
        /\ phys' \in [Thread -> Cmd \cup {NoCmd}]
        /\ holder' \in [{"send", "open", "close"} -> Thread \cup {NoThread}]
    BY <1>8 DEF Free, Return, Goto, TypeOK, PCs
  <2> QED
    BY <1>8, <2>2, <2>3, <2>4, <2>5 DEF Free, TypeOK
<1>9. CASE ipi_secure_notify
  BY <1>9 DEF ipi_secure_notify, TypeOK
<1> QED
  BY <1>1, <1>2, <1>3, <1>4, <1>5, <1>6, <1>7, <1>8, <1>9 DEF Next, SmcStep

LEMMA OpensStep ==
    ASSUME TypeOK, OpensNew, [Next]_vars
    PROVE  OpensNew'
<1> USE DriverAssumption
<1>1. CASE UNCHANGED <<op, sessions>>
  BY <1>1 DEF OpensNew
<1>2. ASSUME NEW t \in Thread, NEW o \in Ops[t], Begin(t, o) PROVE OpensNew'
  BY <1>2 DEF Begin, OpensNew, TypeOK
<1>3. ASSUME NEW t \in Thread, Free(t) PROVE OpensNew'
  <2> SUFFICES ASSUME NEW u \in Thread, op'[u] = "open"
               PROVE  u \notin Range(sessions'[DevOf[u]])
    BY DEF OpensNew
  <2>1. u # t /\ op[u] = "open"
    BY <1>3 DEF Free, Return, TypeOK
  <2>2. Range(sessions'[DevOf[u]]) \subseteq Range(sessions[DevOf[u]]) \cup {t}
    BY <1>3, SessionsStep
  <2> QED
    BY <2>1, <2>2 DEF OpensNew
<1>4. UNCHANGED <<op, sessions>>
      \/ (\E t \in Thread : Free(t)) \/ (\E t \in Thread : \E o \in Ops[t] : Begin(t, o))
  BY DEF Next, SmcStep, vars, Alloc, AllocFails, Fill, EnterSecure, LeaveSecure, DropLock,
         WaitOver, Interrupted, Relock, Resume, LeaveResumed, ReadResponse, Notify,
         ipi_secure_notify
<1> QED
  BY <1>1, <1>2, <1>3, <1>4

----------------------------------------------------------------------------
(* The mutexes of the ioctls.                                              *)

LEMMA MutexHeldStep ==
    ASSUME TypeOK, MutexHeld, [Next]_vars
    PROVE  MutexHeld'
<1> USE DriverAssumption
<1> SUFFICES ASSUME ~intr', NEW u \in Thread, pc'[u] \notin {"idle", "wait", "relock"}
             PROVE  holder'[op'[u]] = u
  BY DEF MutexHeld
<1>1. CASE UNCHANGED vars
  BY <1>1 DEF vars, MutexHeld
<1>2. CASE \E t \in Thread : \E o \in Ops[t] : Begin(t, o)
  <2>1. PICK t \in Thread, o \in {"send", "open", "close"} : Begin(t, o)
    BY <1>2
  <2> QED
    BY <2>1, GotoFacts DEF Begin, MutexHeld, TypeOK
<1>3. CASE \E t \in Thread : Free(t)
  <2>1. PICK t \in Thread : Free(t)
    BY <1>3
  <2>2. u # t /\ pc'[u] = pc[u] /\ op'[u] = op[u] /\ ~intr
        /\ holder' = [holder EXCEPT ![op[t]] = NoThread]
    BY <2>1, GotoFacts DEF Free, Return, TypeOK
  <2>3. holder[op[u]] = u /\ holder[op[t]] = t
    BY <2>1, <2>2 DEF MutexHeld, Free
  <2> QED
    BY <2>2, <2>3 DEF TypeOK
<1>4. CASE \E t \in Thread : DropLock(t)
  <2>1. PICK t \in Thread : DropLock(t)
    BY <1>4
  <2>2. u # t /\ pc'[u] = pc[u] /\ op' = op /\ ~intr
        /\ holder' = [holder EXCEPT ![op[t]] = NoThread]
    BY <2>1, GotoFacts DEF DropLock
  <2>3. holder[op[u]] = u /\ holder[op[t]] = t
    BY <2>1, <2>2 DEF MutexHeld, DropLock
  <2> QED
    BY <2>2, <2>3 DEF TypeOK
<1>5. CASE \E t \in Thread : Relock(t)
  <2>1. PICK t \in Thread : Relock(t)
    BY <1>5
  <2>2. /\ holder[op[t]] = NoThread /\ holder' = [holder EXCEPT ![op[t]] = t]
        /\ op' = op /\ ~intr /\ (u # t => pc'[u] = pc[u])
    BY <2>1, GotoFacts DEF Relock
  <2> QED
    BY <2>2 DEF TypeOK, MutexHeld
<1>6. CASE UNCHANGED <<op, holder>> /\ \E t \in Thread :
             \/ Alloc(t) \/ AllocFails(t) \/ Fill(t) \/ EnterSecure(t) \/ LeaveSecure(t)
             \/ WaitOver(t) \/ Interrupted(t) \/ Resume(t) \/ LeaveResumed(t)
             \/ ReadResponse(t) \/ Notify(t)
  <2> SUFFICES ASSUME NEW t \in Thread,
                      \/ Alloc(t) \/ AllocFails(t) \/ Fill(t) \/ EnterSecure(t) \/ LeaveSecure(t)
                      \/ WaitOver(t) \/ Interrupted(t) \/ Resume(t) \/ LeaveResumed(t)
                      \/ ReadResponse(t) \/ Notify(t)
               PROVE  ~intr /\ pc[u] \notin {"idle", "wait", "relock"}
    BY <1>6 DEF MutexHeld
  <2>1. ~Interrupted(t) /\ ~intr
    <3>1. ~Interrupted(t)
      BY DEF Interrupted
    <3>2. intr' = intr
      BY <3>1 DEF Alloc, AllocFails, Fill, EnterSecure, LeaveSecure, WaitOver, Resume,
             LeaveResumed, ReadResponse, Notify
    <3> QED
      BY <3>1, <3>2
  <2>2. u = t => pc[u] \notin {"idle", "wait", "relock"}
    BY <2>1, GotoFacts
       DEF Alloc, AllocFails, Fill, EnterSecure, LeaveSecure, WaitOver, Resume,
           LeaveResumed, ReadResponse, Notify
  <2>3. (\E l : Goto(t, l)) \/ pc' = pc
    BY <2>1
       DEF Alloc, AllocFails, Fill, EnterSecure, LeaveSecure, WaitOver, Resume,
           LeaveResumed, ReadResponse, Notify
  <2>4. u # t => pc'[u] = pc[u]
    BY <2>3, GotoFacts
  <2> QED
    BY <2>1, <2>2, <2>4
<1>7. CASE ipi_secure_notify
  BY <1>7 DEF ipi_secure_notify, MutexHeld
<1> QED
  BY ZenonT(40), <1>1, <1>2, <1>3, <1>4, <1>5, <1>6, <1>7
     DEF Next, SmcStep, Alloc, AllocFails, Fill, EnterSecure, LeaveSecure, WaitOver,
         Interrupted, Resume, LeaveResumed, ReadResponse, Notify

----------------------------------------------------------------------------
(* The command structure, while calls do not overlap.                      *)

Owned == fault = "none" /\ CallsApart /\ HeapOwned /\ CommandKept

\* A step of the one call that is past the allocation, or of a call that
\* has not got so far.
LEMMA OwnedStep ==
    ASSUME TypeOK, TypeOK', ~mixed => Owned, [Next]_vars, ~mixed'
    PROVE  Owned'
<1> USE DriverAssumption
<1>1. ~mixed
  BY DEF Next, SmcStep, vars, Begin, Alloc, AllocFails, Fill, EnterSecure, LeaveSecure, DropLock,
         WaitOver, Interrupted, Relock, Resume, LeaveResumed, ReadResponse, Free, Notify,
         ipi_secure_notify
<1>2. Owned
  BY <1>1
<1>3. CASE UNCHANGED vars \/ ipi_secure_notify \/ \E t \in Thread : Notify(t)
  <2>1. UNCHANGED <<pc, phys, heap, content, smc_cmd, fault>>
    BY <1>3 DEF vars, ipi_secure_notify, Notify
  <2> QED
    BY <1>2, <2>1 DEF Owned, CallsApart, HeapOwned, CommandKept
<1>4. ASSUME NEW t \in Thread, NEW o \in Ops[t], Begin(t, o) PROVE Owned'
  <2>1. /\ pc[t] = "idle" /\ pc'[t] = "alloc" /\ \A u \in Thread : u # t => pc'[u] = pc[u]
        /\ UNCHANGED <<phys, heap, content, smc_cmd, fault>>
    BY <1>4, GotoFacts DEF Begin
  <2> QED
    BY <1>2, <2>1 DEF Owned, CallsApart, HeapOwned, CommandKept
<1>5. ASSUME NEW t \in Thread, Alloc(t) \/ AllocFails(t) PROVE Owned'
  <2>1. ~Overlap(t)
    BY <1>5 DEF Alloc, AllocFails
  <2>2. /\ pc[t] = "alloc" /\ pc'[t] \in {"fill", "free"}
        /\ \A u \in Thread : u # t => pc'[u] = pc[u] /\ pc[u] \in {"idle", "alloc"}
    BY <1>5, <2>1, GotoFacts DEF Alloc, AllocFails, Overlap
  <2>3. heap = {} /\ fault = "none"
    BY <1>2, <2>2 DEF Owned, HeapOwned
  <2>4. UNCHANGED fault
    BY <1>5 DEF Alloc, AllocFails
  <2>5. /\ pc'[t] = "fill" => heap' = {smc_cmd'} /\ smc_cmd' # NoCmd
        /\ pc'[t] = "free" => heap' = {} /\ smc_cmd' = NoCmd
    BY <1>5, <2>3, GotoFacts DEF Alloc, AllocFails
  <2> QED
    BY <2>2, <2>3, <2>4, <2>5 DEF Owned, CallsApart, HeapOwned, CommandKept
\* From here on the thread is the only one past the allocation.
<1>6. ASSUME NEW t \in Thread, pc[t] \notin {"idle", "alloc"}
      PROVE  \A u \in Thread : u # t => pc[u] \in {"idle", "alloc"}
  BY <1>2, <1>6 DEF Owned, CallsApart
<1>7. ASSUME NEW t \in Thread, Fill(t) PROVE Owned'
  <2>1. /\ pc[t] = "fill" /\ pc'[t] = "lock" /\ UNCHANGED <<heap, smc_cmd>>
        /\ \A u \in Thread : u # t => pc'[u] \in {"idle", "alloc"}
    BY <1>6, <1>7, GotoFacts DEF Fill
  <2>2. smc_cmd # NoCmd /\ heap = {smc_cmd} /\ Usable /\ fault = "none"
    BY <1>2, <2>1 DEF Owned, HeapOwned, Usable
  <2>3. UNCHANGED fault /\ phys'[t] = smc_cmd /\ content'[smc_cmd] = [from |-> t, id |-> "cmd"]
    BY <1>7, <2>2 DEF Fill, TypeOK, Usable
  <2> QED
    BY <2>1, <2>2, <2>3 DEF Owned, CallsApart, HeapOwned, CommandKept
<1>8. ASSUME NEW t \in Thread, EnterSecure(t) \/ LeaveSecure(t) \/ DropLock(t) \/ WaitOver(t)
                               \/ Interrupted(t) \/ Relock(t) \/ LeaveResumed(t)
      PROVE  Owned'
  <2>1. UNCHANGED <<phys, heap, content, smc_cmd, fault>> /\ pc[t] \notin {"idle", "alloc", "free"}
    BY <1>8 DEF EnterSecure, LeaveSecure, DropLock, WaitOver, Interrupted, Relock, LeaveResumed
  <2>2. /\ \A u \in Thread : u # t => pc'[u] = pc[u] /\ pc[u] \in {"idle", "alloc"}
        /\ pc'[t] \notin {"idle", "alloc"}
    BY <1>6, <1>8, <2>1, GotoFacts
       DEF EnterSecure, LeaveSecure, DropLock, WaitOver, Interrupted, Relock, LeaveResumed
  <2>3. /\ pc'[t] \in {"lock", "secure", "drop", "wait", "relock", "resume"}
             => pc[t] \in {"lock", "secure", "drop", "wait", "relock", "resume"}
        /\ pc'[t] \in {"lock2", "secure2"} => pc[t] \in {"lock2", "secure2"}
    BY <1>8, GotoFacts
       DEF EnterSecure, LeaveSecure, DropLock, WaitOver, Interrupted, Relock, LeaveResumed
  <2>4. smc_cmd # NoCmd /\ heap = {smc_cmd} /\ fault = "none"
    BY <1>2, <2>1 DEF Owned, HeapOwned
  <2>5. CallsApart' /\ HeapOwned'
    BY <2>1, <2>2, <2>4 DEF CallsApart, HeapOwned
  <2>6. CommandKept'
    BY <1>2, <2>1, <2>2, <2>3 DEF Owned, CommandKept
  <2> QED
    BY <2>1, <2>4, <2>5, <2>6 DEF Owned
<1>9. ASSUME NEW t \in Thread, Resume(t) PROVE Owned'
  <2>1. /\ pc[t] = "resume" /\ pc'[t] = "lock2" /\ UNCHANGED <<heap, smc_cmd, phys>>
        /\ \A u \in Thread : u # t => pc'[u] \in {"idle", "alloc"}
    BY <1>6, <1>9, GotoFacts DEF Resume
  <2>2. smc_cmd # NoCmd /\ heap = {smc_cmd} /\ Usable /\ fault = "none"
        /\ phys[t] = smc_cmd /\ content[smc_cmd] = [from |-> t, id |-> "cmd"]
    BY <1>2, <2>1 DEF Owned, HeapOwned, Usable, CommandKept
  <2>3. UNCHANGED fault /\ content'[smc_cmd] = [content[smc_cmd] EXCEPT !.id = "resume"]
    BY <1>9, <2>2 DEF Resume, TypeOK, Usable
  <2>4. content'[smc_cmd] = [from |-> t, id |-> "resume"]
    BY <2>2, <2>3
  <2> QED
    BY <2>1, <2>2, <2>3, <2>4 DEF Owned, CallsApart, HeapOwned, CommandKept
<1>10. ASSUME NEW t \in Thread, ReadResponse(t) PROVE Owned'
  <2>1. /\ pc[t] = "resp" /\ pc'[t] = "done" /\ UNCHANGED <<heap, smc_cmd, phys>>
        /\ \A u \in Thread : u # t => pc'[u] \in {"idle", "alloc"}
    BY <1>6, <1>10, GotoFacts DEF ReadResponse
  <2>2. smc_cmd # NoCmd /\ heap = {smc_cmd} /\ Usable /\ fault = "none"
    BY <1>2, <2>1 DEF Owned, HeapOwned, Usable
  <2>3. UNCHANGED fault
    BY <1>10, <2>2 DEF ReadResponse
  <2> QED
    BY <2>1, <2>2, <2>3 DEF Owned, CallsApart, HeapOwned, CommandKept
<1>11. ASSUME NEW t \in Thread, Free(t) PROVE Owned'
  <2>1. /\ pc[t] \in {"done", "free"} /\ pc'[t] = "idle" /\ UNCHANGED smc_cmd
        /\ \A u \in Thread : u # t => pc'[u] \in {"idle", "alloc"}
    BY <1>6, <1>11, GotoFacts DEF Free, Return
  <2>2. heap = {smc_cmd} \ {NoCmd} /\ fault = "none"
    BY <1>2, <2>1 DEF Owned, HeapOwned
  <2>3. heap' = {} /\ fault' = "none"
    BY <1>11, <2>2 DEF Free, Usable
  <2> QED
    BY <2>1, <2>3 DEF Owned, CallsApart, HeapOwned, CommandKept
<1> QED
  BY <1>3, <1>4, <1>5, <1>7, <1>8, <1>9, <1>10, <1>11 DEF Next, SmcStep

----------------------------------------------------------------------------
(* The pending operations.                                                 *)

\* Where a session's operation stands, seen from its thread's place.
Stage(t) ==
    /\ pc[t] \in {"drop", "wait"} => /\ secure[t] \in {"pending", "ready"}
                                     /\ secure[t] = "pending" => ~flag[t] /\ slot # t
                                     /\ flag[t] => slot # t
    /\ pc[t] \in {"relock", "resume", "lock2", "secure2"}
          => secure[t] = "ready" /\ ~flag[t] /\ slot # t
    /\ pc[t] \notin {"drop", "wait", "relock", "resume", "lock2", "secure2"}
          => secure[t] = "idle" /\ ~flag[t] /\ slot # t

LEMMA StagesSplit == PendingStages <=> \A t \in Thread : Stage(t)
BY DEF PendingStages, Stage

LEMMA StageStep ==
    ASSUME TypeOK, CommandKept, HeapOwned, PendingStages, [Next]_vars, ~intr', NEW u \in Thread
    PROVE  Stage(u)'
<1> USE DriverAssumption
<1>0. Stage(u)
  BY StagesSplit
<1>1. CASE UNCHANGED <<pc, secure, flag, slot>>
  BY <1>0, <1>1 DEF Stage
<1>2. ASSUME NEW t \in Thread, (\E o \in Ops[t] : Begin(t, o)) \/ Alloc(t) \/ AllocFails(t)
                               \/ Fill(t) \/ EnterSecure(t) \/ DropLock(t) \/ Relock(t)
                               \/ Resume(t) \/ ReadResponse(t)
      PROVE  Stage(u)'
  <2>1. UNCHANGED <<secure, flag, slot>> /\ (u # t => pc'[u] = pc[u])
    BY <1>2, GotoFacts
       DEF Begin, Alloc, AllocFails, Fill, EnterSecure, DropLock, Relock, Resume, ReadResponse
  <2>2. \/ pc[t] = "drop" /\ pc'[t] = "wait"
        \/ /\ pc[t] \in {"relock", "resume", "lock2"}
           /\ pc'[t] \in {"relock", "resume", "lock2", "secure2"}
        \/ /\ pc[t] \in {"idle", "alloc", "fill", "lock", "resp"}
           /\ pc'[t] \in {"alloc", "fill", "free", "lock", "secure", "done"}
    BY <1>2, GotoFacts
       DEF Begin, Alloc, AllocFails, Fill, EnterSecure, DropLock, Relock, Resume, ReadResponse
  <2> QED
    BY <1>0, <2>1, <2>2 DEF Stage
<1>3. ASSUME NEW t \in Thread, LeaveSecure(t) PROVE Stage(u)'
  <2>1. UNCHANGED <<flag, slot>> /\ (u # t => pc'[u] = pc[u] /\ secure'[u] = secure[u])
    BY <1>3, GotoFacts DEF LeaveSecure, TypeOK
  <2>2. pc[t] = "secure"
        /\ \/ pc'[t] \in {"resp", "free"} /\ secure' = secure
           \/ pc'[t] = "drop" /\ secure'[t] = "pending"
    BY <1>3, GotoFacts DEF LeaveSecure, TypeOK
  <2> QED
    BY <1>0, <2>1, <2>2 DEF Stage
<1>4. ASSUME NEW t \in Thread, WaitOver(t) PROVE Stage(u)'
  <2>1. UNCHANGED <<secure, slot>> /\ (u # t => pc'[u] = pc[u] /\ flag'[u] = flag[u])
        /\ pc[t] = "wait" /\ pc'[t] = "relock" /\ flag[t] /\ ~flag'[t]
    BY <1>4, GotoFacts DEF WaitOver, TypeOK
  <2> QED
    BY <1>0, <2>1 DEF Stage
<1>5. ASSUME NEW t \in Thread, LeaveResumed(t) PROVE Stage(u)'
  <2>1. pc[t] = "secure2" /\ phys[t] \in heap /\ content[phys[t]] = [from |-> t, id |-> "resume"]
    BY <1>5 DEF LeaveResumed, CommandKept, HeapOwned
  <2>2. UNCHANGED <<flag, slot>> /\ (u # t => pc'[u] = pc[u] /\ secure'[u] = secure[u])
        /\ pc'[t] \in {"resp", "free"} /\ secure'[t] = "idle"
    BY <1>5, <2>1, GotoFacts DEF LeaveResumed, TypeOK
  <2> QED
    BY <1>0, <2>1, <2>2 DEF Stage
<1>6. ASSUME NEW t \in Thread, Free(t) PROVE Stage(u)'
  <2>1. UNCHANGED <<secure, slot>> /\ (u # t => pc'[u] = pc[u] /\ flag'[u] = flag[u])
        /\ pc[t] \in {"done", "free"} /\ pc'[t] = "idle"
    BY <1>6, GotoFacts DEF Free, Return, TypeOK
  <2>2. ~flag'[t] \/ flag'[t] = flag[t]
    BY <1>6 DEF Free, TypeOK
  <2> QED
    BY <1>0, <2>1, <2>2 DEF Stage
<1>7. ASSUME NEW t \in Thread, Notify(t) PROVE Stage(u)'
  <2>1. UNCHANGED <<pc, flag>> /\ (u # t => secure'[u] = secure[u]) /\ slot' = t
        /\ secure[t] = "pending" /\ secure'[t] = "ready"
    BY <1>7 DEF Notify, TypeOK
  <2> QED
    BY <1>0, <2>1 DEF Stage
<1>8. CASE ipi_secure_notify
  <2>1. UNCHANGED <<pc, secure>> /\ slot' = NoThread /\ (u # slot => flag'[u] = flag[u])
    BY <1>8 DEF ipi_secure_notify, TypeOK
  <2>2. slot' # u
    BY <2>1
  <2> QED
    BY <1>0, <2>1, <2>2 DEF Stage
<1>9. ASSUME NEW t \in Thread, Interrupted(t) PROVE FALSE
  BY <1>9 DEF Interrupted
<1> QED
  BY <1>1, <1>2, <1>3, <1>4, <1>5, <1>6, <1>7, <1>8, <1>9 DEF Next, SmcStep, vars

----------------------------------------------------------------------------
(* The invariant and its consequences.                                     *)

LEMMA DriverStepInv == DriverInv /\ [Next]_vars => DriverInv'
<1> SUFFICES ASSUME DriverInv, [Next]_vars PROVE DriverInv'
  OBVIOUS
<1>1. TypeOK /\ OpensNew /\ MutexHeld /\ (~mixed => Owned)
  BY DEF DriverInv, Owned
<1>2. TypeOK' /\ OpensNew' /\ MutexHeld'
  BY <1>1, TypeStep, OpensStep, MutexHeldStep
<1>3. ~mixed' => Owned'
  BY <1>1, <1>2, OwnedStep
<1>4. ASSUME ~mixed', ~intr' PROVE PendingStages'
  <2>1. ~mixed /\ ~intr
    <3>1. mixed => mixed'
      BY DEF Next, SmcStep, vars, Begin, Alloc, AllocFails, Fill, EnterSecure, LeaveSecure,
             DropLock, WaitOver, Interrupted, Relock, Resume, LeaveResumed, ReadResponse, Free,
             Notify, ipi_secure_notify
    <3>2. intr => intr'
      BY DEF Next, SmcStep, vars, Begin, Alloc, AllocFails, Fill, EnterSecure, LeaveSecure,
             DropLock, WaitOver, Interrupted, Relock, Resume, LeaveResumed, ReadResponse, Free,
             Notify, ipi_secure_notify
    <3> QED
      BY <1>4, <3>1, <3>2
  <2>2. CommandKept /\ HeapOwned /\ PendingStages
    BY <2>1 DEF DriverInv
  <2>3. \A u \in Thread : Stage(u)'
    BY <1>1, <1>4, <2>2, StageStep
  <2> QED
    BY <2>3 DEF PendingStages, Stage
<1> QED
  BY <1>2, <1>3, <1>4 DEF DriverInv, Owned

\* What the secure world reads during an SMC is the command of the thread that
\* issued it, as long as no otz_smc_call overlaps another, for any number of
\* threads, device files and command structures.
THEOREM CommandsDelivered == Spec => []DeliveredAlone
<1>1. DriverInv => DeliveredAlone
  BY DEF DriverInv, CommandKept, HeapOwned, DeliveredAlone, CommandDelivered
<1> QED
  BY <1>1, DriverInitInv, DriverStepInv, PTL DEF Spec

\* Under the same condition command structures are used while allocated,
\* freed once and not leaked by otz_smc_call, on every path out of it.
THEOREM CommandsFreed == Spec => []HeapSafe
<1>1. DriverInv => HeapSafe
  BY DEF DriverInv, HeapOwned, HeapSafe
<1> QED
  BY <1>1, DriverInitInv, DriverStepInv, PTL DEF Spec

\* The mutex of an ioctl keeps all but one thread out of it, although
\* otz_smc_call gives it up and takes it back, until a wait is interrupted.
THEOREM IoctlsExclude == Spec => []OneClient
<1>1. DriverInv => OneClient
  BY DEF DriverInv, MutexHeld, OneClient
<1> QED
  BY <1>1, DriverInitInv, DriverStepInv, PTL DEF Spec

\* send_wait_flag wakes a thread only when the operation it waits for is
\* finished.
THEOREM WakeupsTrue == Spec => []WokenWhenReady
<1>1. DriverInv => WokenWhenReady
  BY DEF DriverInv, PendingStages, WokenWhenReady
<1> QED
  BY <1>1, DriverInitInv, DriverStepInv, PTL DEF Spec
=============================================================================
