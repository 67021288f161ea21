---------------------------- MODULE SwSessions ----------------------------
(***************************************************************************)
(* Sessions of the secure world: the calls of Linux that open and close    *)
(* them (core/secure_api.c), the tables that describe each service         *)
(* (drivers/zynq7/board_config.c), the permissions                         *)
(* (lib/kernel/sw_user_mgmt.c) and the tasks that are created and          *)
(* destroyed for them (core/task.c), on the page allocator of SwMemory.    *)
(*                                                                         *)
(* A call runs to its end in the dispatcher task before another begins.    *)
(* Allocations from the common heap may fail at any time.                  *)
(***************************************************************************)
EXTENDS SwMemory

CONSTANTS
    NIds,    \* task identifiers from TASK_ID_START to MAX_ASID - 1
    Svc,     \* the services Linux opens that this build has an entry point for
    Blk,     \* blocks of the common heap that service data can be given
    MaxOpen  \* bound: sessions the driver holds at a time

----------------------------------------------------------------------------
(* drivers/zynq7/board_config.c and board_test.c: what each service is.     *)

Description(mode, multiple, devices) == [mode |-> mode, multiple |-> multiple, devices |-> devices]

dispatch_task_init == Description("kernel", TRUE, {"uart"})
shell_cmd_process_init == Description("kernel", TRUE, {"uart"})
kernel_integrity_check_task_init == Description("user", TRUE, {"uart"})
linux_task_init == Description("kernel", TRUE, {"uart"})
ffmpeg_test_task_init == Description("user", FALSE, {"uart", "fb"})
echo_task_init == Description("user", TRUE, {"uart", "ipc"})
drm_task_init == Description("user", FALSE, {"uart"})
crypto_task_init == Description("user", TRUE, {"uart"})
test_suite_task_init == Description("kernel", TRUE, {"uart"})
int_contxt_switch_task_init == Description("kernel", TRUE, {"uart"})
heap_test_task_init == Description("user", TRUE, {"uart"})
test_shm_init == Description("user", TRUE, {"uart"})
test_suite_user_init == Description("user", TRUE, {"uart"})

\* sa_create_entry_point finds the description by the identifier of the service.
sa_create_entry_point ==
    [global |-> dispatch_task_init, shell |-> shell_cmd_process_init,
     kim |-> kernel_integrity_check_task_init, linux |-> linux_task_init,
     ffmpeg |-> ffmpeg_test_task_init, echo |-> echo_task_init, drm |-> drm_task_init,
     crypt |-> crypto_task_init, test_kernel |-> test_suite_task_init,
     int_contxt |-> int_contxt_switch_task_init, test_heap |-> heap_test_task_init,
     test_shm |-> test_shm_init, test_user |-> test_suite_user_init]

\* The services the dispatcher is permitted to start.
DispatcherGrants ==
    {"global", "echo", "drm", "crypt", "kim", "linux", "shell", "test_user", "ffmpeg",
     "test_kernel"}

ASSUME SessionAssumption ==
    /\ {NIds, MaxOpen} \subseteq Nat \ {0}
    /\ Svc \subseteq DOMAIN sa_create_entry_point

VARIABLES
    tasks,   \* the task list: the record of each live identifier
    pool,    \* task_id_pool, the identifiers that are taken
    acl,     \* the triples of the global permission list
    heap,    \* the data blocks that are allocated
    hung,    \* the search for an identifier does not end
    nsopen,  \* pairs <<service, identifier>> the driver holds as open sessions
    leaked,  \* history: pages and identifiers nobody will give back
    undef    \* history: what creations that failed half way did outside the language

sesvars == <<tasks, pool, acl, heap, hung, nsopen, leaked, undef>>

\* The element past the pool is given out too: a byte of global_errno, which
\* nothing else writes while a task runs (sw_seterrno has the task's own).
OverId == NIds + 1
Ids == 1 .. OverId

\* The group of every service of the tables.
CommonGroup == "common"

IsKernel(s) == sa_create_entry_point[s].mode = "kernel"

\* The dispatcher is running (exec_mode 1) with what dispatch_task_init gave it.
SessionInit ==
    /\ MemInit
    /\ tasks = << >> /\ pool = {} /\ heap = {} /\ hung = FALSE /\ nsopen = {}
    /\ acl = {<<s, CommonGroup, "global">> : s \in DispatcherGrants \cup {"uart"}}
    /\ leaked = [pages |-> {}, ids |-> {}] /\ undef = {}

----------------------------------------------------------------------------
(* lib/kernel/sw_user_mgmt.c *)

get_permission(d) == <<d, CommonGroup, "global">> \in acl

update_global_ACL(ds, g, u) == acl \cup {<<d, g, u>> : d \in ds}

\* get_next_asid_val: the first free identifier; when none is free it searches
\* for ever.
get_next_asid_val == LET free == Ids \ pool IN IF free # {} THEN Min(free) ELSE None

check_multiple_instance(s) == \E i \in DOMAIN tasks : tasks[i].svc = s

Allowed(s) == get_permission(s) /\ ~ (~ sa_create_entry_point[s].multiple /\ check_multiple_instance(s))

Without(f, i) == [j \in DOMAIN f \ {i} |-> f[j]]

----------------------------------------------------------------------------
(* create_task.  c is the description of the service, and what is left of   *)
(* the memory after each of its stages; ok tells which allocation failed.  *)

\* The pages of a task: its storage, its stack, and a kernel task's heap.  A
\* stage is reached when the one before it has succeeded.
StackStage(s, a) ==
    IF a.at = None THEN a
    ELSE IF IsKernel(s) THEN alloc_kernel_stack(a.m, a.t) ELSE alloc_user_stack(a.m, a.t)

HeapStage(s, b) ==
    IF b.at # None /\ IsKernel(s) THEN alloc_private_heap(b.m, b.t) ELSE [b EXCEPT !.at = None]

\* What the three stages a, b and c leave, and where they ended.
Stages(s, a, b, c) ==
    [tls |-> a, sp |-> b, heap |-> c,
     at |-> IF a.at = None THEN "tls" ELSE IF b.at = None THEN "stack"
            ELSE IF IsKernel(s) /\ c.at = None THEN "heap" ELSE "done"]

FreeStack(s, m, t, sp) ==
    IF IsKernel(s) THEN free_kernel_stack(m, t, sp) ELSE free_user_stack(m, t, sp)

\* handle_err1: what the stages took is given back.
Undone(s, g) ==
    CASE g.at = "tls" -> [m |-> g.tls.m, t |-> g.tls.t]
      [] g.at = "stack" -> sw_free_tls(g.sp.m, g.sp.t, g.tls.at)
      [] g.at = "heap" ->
           LET x == FreeStack(s, g.heap.m, g.heap.t, g.sp.at)
           IN sw_free_tls(x.m, x.t, g.tls.at)

\* A task is made, its data and its identifier stay with it.
create_task_done(s, id, blk, g) ==
    /\ g.at = "done"
    /\ mem' = g.heap.m /\ pt' = g.heap.t
    /\ tasks' = [j \in DOMAIN tasks \cup {id} |->
          IF j = id THEN [svc |-> s, mode |-> sa_create_entry_point[s].mode, data |-> blk,
                          tls |-> g.tls.at, sp |-> g.sp.at, heap |-> g.heap.at]
          ELSE tasks[j]]
    /\ heap' = heap \cup {blk}
    /\ pool' = pool \cup {id}
    /\ nsopen' = nsopen \cup {<<s, id>>}
    /\ UNCHANGED <<leaked, undef>>

\* The permission, the single instance or the structure is refused: the data
\* is freed by the caller, the identifier by nobody.  The dispatcher does not
\* report EACCES, but Linux finds the identifier -1 in its answer.
create_task_refused(id) ==
    /\ pool' = pool \cup {id}
    /\ leaked' = [leaked EXCEPT !.ids = @ \cup {id}]
    /\ UNCHANGED <<mem, pt, tasks, heap, nsopen, undef>>

\* A stage fails: the identifier is given back, the data is freed here and
\* by the caller again.  When the first stage fails the stack pointer of the
\* structure has never been written, and a value found there is freed.
create_task_undone(s, g) ==
    /\ g.at # "done"
    /\ \E u \in {Undone(s, g)} : mem' = u.m /\ pt' = u.t
    /\ leaked' = [leaked EXCEPT !.pages = @ \cup g.tls.lost \cup g.sp.lost]
    /\ undef' = undef \cup {"data freed twice"} \cup
                    (IF g.at = "tls" THEN {"stack never written"} ELSE {})
    /\ UNCHANGED <<tasks, pool, heap, nsopen>>

\* The pages are asked for once the permission and the structure are there.
create_task(s, id, blk) ==
    \/ /\ Allowed(s)
       /\ \E a \in {sw_alloc_tls(mem, pt)} : \E b \in {StackStage(s, a)} :
            \E c \in {HeapStage(s, b)} :
               LET g == Stages(s, a, b, c)
               IN create_task_done(s, id, blk, g) \/ create_task_undone(s, g)
    \/ create_task_refused(id)

----------------------------------------------------------------------------
(* core/secure_api.c *)

\* echo_task_init, drm_task_init, crypto_task_init, dispatch_task_init: the
\* identifier is taken, the device is permitted, then the data is allocated.
\* A service without an entry point is reported as invalid.
entry_point(s, id) ==
    /\ id = get_next_asid_val /\ id # None
    /\ acl' = update_global_ACL(sa_create_entry_point[s].devices, CommonGroup, s)

\* A session opens, or create_task fails.
open_session_from_ns(s) ==
    /\ Cardinality(nsopen) < MaxOpen
    /\ \E id \in Ids, blk \in Blk \ heap :
        /\ entry_point(s, id)
        /\ create_task(s, id, blk)

\* The data of the service is not allocated: its identifier is gone.
open_no_data(s) ==
    \E id \in Ids :
        /\ entry_point(s, id)
        /\ pool' = pool \cup {id}
        /\ leaked' = [leaked EXCEPT !.ids = @ \cup {id}]
        /\ UNCHANGED <<mem, pt, tasks, heap, nsopen, undef>>

\* The heap, the storage, and the stack of a task.
PagesGiven(k) ==
    \E a \in {IF k.mode = "kernel" THEN free_private_heap(mem, pt, k.heap)
              ELSE free_user_heap(mem, pt, k.heap)} :
        \E b \in {sw_free_tls(a.m, a.t, k.tls)} :
            \E c \in {FreeStack(k.svc, b.m, b.t, k.sp)} : mem' = c.m /\ pt' = c.t

\* Defect: the identifier is not given back.
destroy_task_keepid(id) ==
    /\ PagesGiven(tasks[id])
    /\ tasks' = Without(tasks, id)
    /\ UNCHANGED pool

\* destroy_task: the heap, the storage, the stack, the identifier.
destroy_task(id) ==
    /\ PagesGiven(tasks[id])
    /\ tasks' = Without(tasks, id)
    /\ pool' = pool \ {id}

\* The exit function of the service: it frees the data.
sa_destroy_entry_point(blk) == heap' = heap \ {blk}

\* The session is closed by its service and its identifier, as the driver has
\* them.
close_session_from_ns(s, id) ==
    /\ <<s, id>> \in nsopen
    /\ nsopen' = nsopen \ {<<s, id>>}
    /\ sa_destroy_entry_point(tasks[id].data)
    /\ destroy_task(id)
    /\ UNCHANGED <<acl, leaked, undef>>

\* The first run of a user task asks the kernel for its heap.
task_init(id) ==
    /\ id \in DOMAIN tasks /\ tasks[id].mode = "user" /\ tasks[id].heap = None
    /\ LET r == alloc_user_heap(mem, pt)
       IN /\ mem' = r.m /\ pt' = r.t
          /\ tasks' = [tasks EXCEPT ![id].heap = r.at]
          /\ leaked' = [leaked EXCEPT !.pages = @ \cup r.lost]
    /\ UNCHANGED <<pool, acl, heap, nsopen, undef>>

\* No identifier is free: the search goes on with interrupts off.
open_hangs ==
    /\ Cardinality(nsopen) < MaxOpen /\ get_next_asid_val = None
    /\ hung' = TRUE
    /\ UNCHANGED <<mem, pt, tasks, pool, acl, heap, nsopen, leaked, undef>>

SessionStep ==
    \/ \E s \in Svc : \/ open_session_from_ns(s) \/ open_no_data(s)
                      \/ \E id \in Ids : close_session_from_ns(s, id)
    \/ \E id \in Ids : task_init(id)

SessionNext == ~ hung /\ (open_hangs \/ (UNCHANGED hung /\ SessionStep))

SessionSpec == SessionInit /\ [][SessionNext]_<<mem, pt, sesvars>>

----------------------------------------------------------------------------
(* Properties *)

\* What a task holds, in physical pages.
TaskPages(k) ==
    {k.tls}
    \cup (IF k.mode = "kernel" THEN Run(k.sp - 1, SpPages + 1) ELSE Run(k.sp, SpPages + 1))
    \cup (IF k.heap = None THEN {} ELSE Run(k.heap, HpPages))

NPagesOf(k) == 2 + SpPages + (IF k.heap = None THEN 0 ELSE HpPages)

\* No page is held twice, none that is held is free, and what is taken is
\* held by the kernel, by a task or lost for ever by a reservation that failed
\* (sw_alloc_tls): opens and closes in any order, failing at any stage, keep
\* the bitmaps exact.
PagesOwned ==
    LET held == UNION {TaskPages(tasks[i]) : i \in DOMAIN tasks}
    IN /\ mem.p = Run(0, KPages) \cup held \cup leaked.pages
       /\ \A i, j \in DOMAIN tasks : i # j => TaskPages(tasks[i]) \cap TaskPages(tasks[j]) = {}
       /\ \A i \in DOMAIN tasks : Cardinality(TaskPages(tasks[i])) = NPagesOf(tasks[i])
       /\ mem.pf = NPages - Cardinality(mem.p)

\* A task's mappings lead to its own pages only, and every mapping belongs to
\* a live task: what a destroyed task leaves is not readable by the next one.
MappingsOwned ==
    \A x \in pt : \E i \in DOMAIN tasks : {x[1], x[2]} \subseteq TaskPages(tasks[i])

\* As long as no creation failed half way, which frees the data twice, the
\* blocks and the identifiers in use are those of the live sessions and of the
\* opens that were refused, through any sequence of opens and closes; what the
\* driver closes is a task of the service it names; and the search for an
\* identifier ends unless as many sessions are open as there are identifiers,
\* or refused opens have kept some.
SessionsExact ==
    undef = {} =>
        /\ heap = {tasks[i].data : i \in DOMAIN tasks}
        /\ Cardinality(heap) = Cardinality(DOMAIN tasks)
        /\ pool = DOMAIN tasks \cup leaked.ids
        /\ nsopen = {<<tasks[i].svc, i>> : i \in DOMAIN tasks}
        /\ hung => leaked.ids # {} \/ Cardinality(DOMAIN tasks) > NIds

\* Pages and mappings together: what one session held is reachable by no
\* other, through opens that fail half way, refusals and closes.
SessionPagesExact == PagesOwned /\ MappingsOwned

----------------------------------------------------------------------------
(* What makes SessionsExact inductive.                                      *)

TaskRecord ==
    [svc : Svc, mode : {sa_create_entry_point[s].mode : s \in Svc}, data : Blk,
     tls : Int, sp : Int, heap : Int]

SessionTypeOK ==
    /\ DOMAIN tasks \subseteq Ids /\ \A i \in DOMAIN tasks : tasks[i] \in TaskRecord
    /\ pool \subseteq Ids /\ hung \in BOOLEAN
    /\ heap \subseteq Blk /\ IsFiniteSet(heap)
    /\ leaked \in [pages : SUBSET Int, ids : SUBSET Ids]

\* No block is the data of two tasks, and no task has an identifier that a
\* refused open has kept.
SessionsApart ==
    undef = {} =>
        /\ \A i, j \in DOMAIN tasks : i # j => tasks[i].data # tasks[j].data
        /\ leaked.ids \cap DOMAIN tasks = {}

SessionInv == SessionTypeOK /\ SessionsApart /\ SessionsExact
=============================================================================
