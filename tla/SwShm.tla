------------------------------- MODULE SwShm -------------------------------
(***************************************************************************)
(* Shared memory of the secure tasks (lib/kernel/sw_shared_memory.c) on    *)
(* the page allocator of SwMemory, next to one kernel stack that is taken  *)
(* and given back from the same pages.                                     *)
(*                                                                         *)
(* A segment takes consecutive identifiers, one for each page, and an      *)
(* attachment by a task that did not create it takes more of the same      *)
(* identifiers: they are its page numbers in the window where segments     *)
(* are seen.  All tasks share one translation table, and so the window.    *)
(***************************************************************************)
EXTENDS SwMemory, SequencesExt

CONSTANTS
    NShm,      \* SHARED_MEM_INSTANCE
    ShmTask,   \* tasks that use segments
    ShmName,   \* names of segments
    ShmSize,   \* sizes asked for, in pages
    ShmFlags,  \* flags tasks pass, sets of "read", "write", "ctrl", "create"
    MaxVirFree, \* bound: how far the count of free virtual pages is followed
    MaxAttach  \* bound: attachments at a time

ASSUME ShmAssumption ==
    /\ NShm \in Nat \ {0} /\ {MaxAttach, MaxVirFree} \subseteq Nat
    /\ ShmSize \subseteq Nat \ {0}

VARIABLES
    shms,     \* shared_memory_ref, first first
    shmids,   \* shm_id_pool: the identifiers that are taken
    window,   \* pairs <<page of the window, physical page>> that are mapped
    attached, \* what tasks know of: who attached which segment where
    stack,    \* the kernel stack, or None
    odd       \* history: what has happened that the conditions below exclude

shmvars == <<shms, shmids, window, attached, stack, odd>>

ShmInit ==
    /\ MemInit
    /\ shms = <<>> /\ shmids = {} /\ window = {} /\ attached = {} /\ stack = None
    /\ odd = {}

\* The first run of n identifiers that are free.
FreeIds(n) ==
    LET fits == {s \in 1 .. (NShm - n) : Run(s, n) \cap shmids = {}}
    IN IF fits = {} THEN None ELSE Min(fits)

Named(x) == {i \in DOMAIN shms : shms[i].name = x}
Numbered(id) == {i \in DOMAIN shms : shms[i].id = id}
Found(id) == Min(Numbered(id))

----------------------------------------------------------------------------
\* A new segment.  When the virtual pages are reserved already they are given
\* back with the physical ones, though this call did not take them.
_shm_create(t, x, n, flags) ==
    LET id == FreeIds(n)
        r == sw_phy_page_alloc(mem, n)
        q == sw_vir_addr_reserve(r.m, r.at, n)
    IN /\ Named(x) = {} /\ "create" \in flags /\ id # None
       /\ mem.vf <= MaxVirFree
       /\ IF r.at # None /\ q.ok
          THEN /\ mem' = q.m
               /\ shms' = Append(shms, [name |-> x, id |-> id, creator |-> t, flags |-> flags,
                                        size |-> n, phy |-> r.at])
               /\ shmids' = shmids \cup Run(id, n)
          ELSE /\ mem' = IF r.at = None THEN mem
                         ELSE sw_phy_addr_free(sw_vir_free_reserve(r.m, r.at, n), r.at, n)
               /\ UNCHANGED <<shms, shmids>>
       /\ UNCHANGED <<pt, window, attached, stack, odd>>

\* Without identifiers left the error path runs on the segment the search of
\* the names ended at, the last one: its pages and its structure are freed
\* while it stays in the list.  Without any segment it reads through NULL, as
\* it does when the structure is not allocated.
_shm_create_fails(x, n, flags) ==
    /\ Named(x) = {} /\ "create" \in flags
    /\ \/ /\ FreeIds(n) = None /\ shms # <<>>
          /\ odd' = odd \cup {"listed segment freed"}
          /\ LET g == shms[Len(shms)]
             IN mem' = sw_phy_addr_free(sw_vir_free_reserve(mem, g.phy, n), g.phy, n)
       \/ /\ FreeIds(n) # None \/ shms = <<>>
          /\ odd' = odd \cup {"no structure"}
          /\ UNCHANGED mem
    /\ UNCHANGED <<pt, shms, shmids, window, attached, stack>>

\* Defect: only the first identifier of the segment is given back.
_shm_destroy_first(t, id) ==
    LET g == shms[Found(id)]
    IN /\ Numbered(id) # {}
       /\ shms' = RemoveAt(shms, Found(id))
       /\ mem' = sw_phy_addr_free(mem, g.phy, g.size)
       /\ shmids' = shmids \ {id}
       /\ odd' = odd \cup (IF \E a \in attached : a.phy = g.phy THEN {"destroyed early"} ELSE {})
       /\ UNCHANGED <<pt, window, attached, stack>>

\* Any task may destroy a segment.  The test of the virtual address is the
\* wrong way round: its virtual pages stay reserved.
_shm_destroy(t, id) ==
    LET g == shms[Found(id)]
    IN /\ Numbered(id) # {}
       /\ shms' = RemoveAt(shms, Found(id))
       /\ mem' = sw_phy_addr_free(mem, g.phy, g.size)
       /\ shmids' = shmids \ Run(id, g.size)
       /\ odd' = odd \cup (IF \E a \in attached : a.phy = g.phy THEN {"destroyed early"} ELSE {})
       /\ UNCHANGED <<pt, window, attached, stack>>

MayControl(t, g) == g.creator = t \/ "ctrl" \in g.flags

\* The other commands: the creator and the flags.  A command that is not
\* permitted falls through to the next ones, and what was meant for the
\* creator or the flags is written to last_modify or to the status, words for
\* the tasks alone.
_shm_control(t, id) ==
    LET i == Found(id)
    IN /\ Numbered(id) # {}
       /\ \/ \E u \in ShmTask :
                 /\ MayControl(t, shms[i]) /\ u # shms[i].creator
                 /\ shms' = [shms EXCEPT ![i].creator = u]
                 /\ odd' = odd \cup {"creator changed"}
          \/ \E f \in ShmFlags :
                 /\ MayControl(t, shms[i])
                 /\ shms' = [shms EXCEPT ![i].flags = f]
                 /\ UNCHANGED odd
       /\ UNCHANGED <<mem, pt, shmids, window, attached, stack>>

\* Where the segment is seen: by its creator on page 1, whatever its number.
At(t, g) == IF t = g.creator THEN 1 ELSE FreeIds(g.size)

\* The identifiers are taken before the access is refused.
_shm_attach(t, id, flag) ==
    /\ Numbered(id) # {} /\ Cardinality(attached) < MaxAttach
    /\ LET g == shms[Found(id)]
           at == At(t, g)
           mine == t = g.creator
       IN /\ at # None
          /\ shmids' = IF mine THEN shmids ELSE shmids \cup Run(at, g.size)
          /\ IF g.flags \cap flag = {}
             THEN /\ odd' = IF mine THEN odd ELSE odd \cup {"identifiers lost"}
                  /\ UNCHANGED <<window, attached>>
             ELSE /\ window' = map_user_memory(window, at, g.phy, g.size)
                  /\ attached' = attached \cup {[task |-> t, id |-> id, at |-> at, mine |-> mine,
                                                 size |-> g.size, phy |-> g.phy]}
                  /\ UNCHANGED odd
    /\ UNCHANGED <<mem, pt, shms, stack>>

\* A segment that is gone: the error path reads the task through NULL.
_shm_attach_none(id) ==
    /\ Numbered(id) = {}
    /\ odd' = odd \cup {"no segment"}
    /\ UNCHANGED <<mem, pt, shms, shmids, window, attached, stack>>

\* The task gives back what it attached; nothing happens when the segment is
\* gone, and its mapping stays.
_shm_detach(a) ==
    /\ a \in attached /\ attached' = attached \ {a}
    /\ IF Numbered(a.id) = {} THEN UNCHANGED <<shmids, window>>
       ELSE LET g == shms[Found(a.id)]
            IN /\ shmids' = IF g.creator = a.task THEN shmids ELSE shmids \ Run(a.at, g.size)
               /\ window' = unmap_user_memory(window, a.at, g.size)
    /\ UNCHANGED <<mem, pt, shms, stack, odd>>

\* A task is created and destroyed in between: its stack.
TakeStack ==
    /\ stack = None
    /\ LET r == alloc_kernel_stack(mem, pt) IN mem' = r.m /\ pt' = r.t /\ stack' = r.at
    /\ UNCHANGED <<shms, shmids, window, attached, odd>>

GiveStack ==
    /\ stack # None /\ stack' = None
    /\ LET r == free_kernel_stack(mem, pt, stack) IN mem' = r.m /\ pt' = r.t
    /\ UNCHANGED <<shms, shmids, window, attached, odd>>

\* A step after a read through NULL or through a freed structure could be
\* anything, and so could what a task writes to pages that were freed while it
\* sees them: the behaviour ends there.
Defined ==
    odd \cap {"listed segment freed", "no structure", "no segment", "destroyed early"} = {}

ShmStep ==
    \/ \E t \in ShmTask, x \in ShmName, n \in ShmSize, f \in ShmFlags : _shm_create(t, x, n, f)
    \/ \E x \in ShmName, n \in ShmSize, f \in ShmFlags : _shm_create_fails(x, n, f)
    \/ \E t \in ShmTask, id \in 1 .. (NShm - 1) :
          \/ _shm_destroy(t, id) \/ _shm_control(t, id)
          \/ \E f \in ShmFlags : _shm_attach(t, id, f)
    \/ \E id \in 1 .. (NShm - 1) : _shm_attach_none(id)
    \/ \E a \in attached : _shm_detach(a)
    \/ TakeStack \/ GiveStack

ShmNext == Defined /\ ShmStep

ShmSpec == ShmInit /\ [][ShmNext]_<<mem, pt, shmvars>>

----------------------------------------------------------------------------
(* Properties *)

SegPages(g) == Run(g.phy, g.size)
StackPages == IF stack = None THEN {} ELSE Run(stack - 1, SpPages + 1)

Held == UNION {SegPages(shms[i]) : i \in DOMAIN shms}

\* As long as no call went through a missing structure and no task destroyed a
\* segment others had attached, what tasks see in the window are pages of live
\* segments, no page belongs to two segments or to a stack, and the bitmap of
\* the physical pages holds exactly those, whatever the virtual one has lost.
\* (Runs that start past the region stay taken when they are refused.)
ShmPagesExact ==
    Defined =>
        /\ \A x \in 0 .. NPages : x \in mem.p <=> x \in Run(0, KPages) \cup Held \cup StackPages
        /\ Held \cap StackPages = {}
        /\ \A i, j \in DOMAIN shms : i # j => SegPages(shms[i]) \cap SegPages(shms[j]) = {}
        /\ {x[2] : x \in window} \subseteq Held

\* As long as no segment changed hands either, the identifiers that are taken
\* are those of the segments and of the attachments of other tasks, and no two
\* of them share one.
Foreign == {a \in attached : ~ a.mine}

ShmIdsExact ==
    odd = {} =>
        /\ shmids = UNION ({Run(shms[i].id, shms[i].size) : i \in DOMAIN shms}
                            \cup {Run(a.at, a.size) : a \in Foreign})
        /\ \A i \in DOMAIN shms :
              /\ \A j \in DOMAIN shms \ {i} :
                    Run(shms[i].id, shms[i].size) \cap Run(shms[j].id, shms[j].size) = {}
              /\ \A a \in Foreign : Run(shms[i].id, shms[i].size) \cap Run(a.at, a.size) = {}
        /\ \A a, b \in Foreign : a # b => Run(a.at, a.size) \cap Run(b.at, b.size) = {}

\* Pages and identifiers together.
ShmExact == ShmPagesExact /\ ShmIdsExact

----------------------------------------------------------------------------
(* What makes ShmExact inductive.                                           *)

Segment == [name : ShmName, id : Nat, creator : ShmTask, flags : ShmFlags, size : ShmSize,
            phy : 0 .. NPages]

Attachment == [task : ShmTask, id : Nat, at : Nat, mine : BOOLEAN, size : ShmSize,
               phy : 0 .. NPages]

ShmTypeOK ==
    /\ mem \in [p : SUBSET Nat, v : SUBSET Nat, pf : Int, vf : Int]
    /\ shms \in Seq(Segment) /\ shmids \in SUBSET Nat
    /\ window \subseteq Nat \X Nat
    /\ attached \subseteq Attachment
    /\ stack \in {None} \cup 1 .. (NPages + 1)

\* The table maps the stack and nothing else.
StackMapped ==
    pt = IF stack = None THEN {} ELSE {<<stack + i, stack + i>> : i \in 0 .. (SpPages - 1)}

\* A task that has attached a segment finds the same one by its number, and
\* what is mapped in the window some task has attached.
AttachedLive ==
    Defined =>
        /\ \A a \in attached :
              /\ Numbered(a.id) # {}
              /\ shms[Found(a.id)].phy = a.phy /\ shms[Found(a.id)].size = a.size
              /\ odd = {} => (a.mine <=> shms[Found(a.id)].creator = a.task)
        /\ \A x \in window : \E a \in attached : x[1] \in Run(a.at, a.size) /\ x[2] \in Run(a.phy, a.size)

\* What segments and the stack hold is taken, past the region too, and none of
\* it is the kernel's.
PagesTaken == Defined => Held \cup StackPages \subseteq mem.p \ Run(0, KPages)

ShmInv == ShmTypeOK /\ StackMapped /\ PagesTaken /\ AttachedLive /\ ShmExact
=============================================================================
